-------------------------- MODULE CallAudioProofs --------------------------
(***************************************************************************)
(* Theorems about CallAudio: what a call has taken is released when the    *)
(* call is over, once, and closing a bridge hangs up no call.              *)
(***************************************************************************)
EXTENDS CallAudio, TLAPS

-----------------------------------------------------------------------------
(* The invariant *)

\* What a thread may have to do: a connection or a codec that is closed is a bridge's.
Chores == {x \in [op : Ops, on : Bridges \cup {None}] :
               x.op \in {"silence", "close", "closeCodec"} => x.on \in Bridges}

AudioTypes ==
    /\ plan \in Plans
    /\ todo \in [Threads -> Seq(Chores)]
    /\ state \in {"ringing", "active", "held", "ended"}
    /\ mu \in Threads \cup {None}
    /\ codec \in {"open", "taken", "closed"}
    /\ capture \in BOOLEAN /\ registered \in BOOLEAN /\ listed \in BOOLEAN
    /\ taping \in BOOLEAN /\ taped \in BOOLEAN /\ crashed \in BOOLEAN
    /\ bridge \in Bridges \cup {None} /\ wsBridge \in Bridges \cup {None}
    /\ opus \in Bridges \cup {None}
    /\ conn \in [Bridges -> {"none", "open", "failed", "closed"}]
    /\ codecOf \in [Bridges -> {"none", "open", "closed"}]
    /\ due \in [Bridges -> SUBSET {"failed", "closed"}]
    /\ raised \in [Bridges -> SUBSET {"failed", "closed"}]
    /\ silenced \subseteq Bridges /\ fed \subseteq Bridges /\ heard \subseteq Bridges
    /\ room \in {"none", "open", "closed"}
    /\ hub \in Threads \cup {None} /\ hooked \in BOOLEAN
    /\ finishing \in Seq(BOOLEAN) /\ delivered \in Seq(BOOLEAN)

\* The room is given a frame by the session, and once more by the hook.
Frame ==
    /\ media \in [step : {"idle", "decode", "deliver", "encode", "write", "push"},
                  held : BOOLEAN, hooked : BOOLEAN, pushed : 0 .. 2]
    /\ media.step \in {"decode", "deliver"} => media.pushed = 0
    /\ media.step \in {"encode", "write", "push"} => media.pushed <= 1

Elements(q) == {q[i] : i \in DOMAIN q}
Items(t) == Elements(todo[t])
Awaits(t, op) == \E x \in Items(t) : x.op = op
Item(op, b) == [op |-> op, on |-> b]

\* What a request still has to do when it has not looked the call up.
Asked == {"lookup", "make", "set", "end", "remove", "unlist"}

\* What may come after what in a script: one unlock, one finalize, nothing to be released
\* after a look-up that may fail.
Precedes(x, y) ==
    /\ x.op \in {"lookup", "make"} => y.op \in Asked
    /\ x.op = "unlock" => y.op \notin {"unlock", "attach", "provision"}
    /\ x.op = "finalize" => y.op # "finalize"
Ordered(q) == \A i, j \in DOMAIN q : i < j => Precedes(q[i], q[j])

\* A bridge is closed after it was silenced.
Hushed(q, done) ==
    \A i \in DOMAIN q : q[i].op = "close" =>
        \/ q[i].on \in done
        \/ \E j \in DOMAIN q : j < i /\ q[j] = Item("silence", q[i].on)

\* How far the request for a bridge is.
Setting == <<Item("set", None)>>
Making == <<Item("make", None), Item("set", None)>>
Looking == <<Item("lookup", None), Item("make", None), Item("set", None)>>
Requested(b) ==
    \/ todo[b] \in {Looking, Making, Setting}
    \/ ~Awaits(b, "lookup") /\ ~Awaits(b, "make") /\ ~Awaits(b, "set")

Scripts ==
    /\ \A t \in Threads : Ordered(todo[t])
    /\ \A b \in Bridges : Requested(b)
    /\ \A t \in Threads \ Bridges : ~Awaits(t, "make") /\ ~Awaits(t, "set")

\* The lock is held by the thread that will release it, which is alone with LiveKit.
Locking ==
    \A t \in Threads :
        /\ Awaits(t, "unlock") => mu = t
        /\ Awaits(t, "attach") \/ Awaits(t, "provision") => mu = t /\ state # "ended"

\* Who closes what is open.
Closing(op, b) == todo[b] = Setting \/ \E t \in Threads : Item(op, b) \in Items(t)
Owned ==
    \A b \in Bridges :
        /\ conn[b] \in {"open", "failed"} =>
               Closing("close", b) \/ (registered /\ b \in {bridge, wsBridge})
        /\ codecOf[b] = "open" => Closing("closeCodec", b) \/ (registered /\ opus = b)

\* Who releases what an ended call still has.
Ending ==
    /\ codec # "open" => ~capture
    /\ \A t \in Threads : Awaits(t, "closeManagerCodec") => codec # "open"
    /\ codec = "taken" => \E t \in Threads : Awaits(t, "closeManagerCodec")
    /\ state = "ended" /\ codec = "open" => \E t \in Threads : Awaits(t, "takeCodec")
    /\ state = "ended" /\ room = "open" => \E t \in Threads : Awaits(t, "detach")

\* The recording is finished once: by the thread that took the call out of the registry, ...
Finishing ==
    /\ \A t \in Threads : Awaits(t, "finalize") =>
           /\ plan.recording /\ ~registered /\ taping /\ finishing = <<>> /\ delivered = <<>>
           /\ \A u \in Threads : Awaits(u, "finalize") => u = t
    \* ... and the goroutine it starts.
    /\ plan.recording =>
           \/ registered /\ taping /\ finishing = <<>> /\ delivered = <<>>
           \/ \E t \in Threads : Awaits(t, "finalize")
           \/ ~registered /\ taping /\ Len(finishing) = 1 /\ delivered = <<>>
           \/ ~registered /\ ~taping /\ finishing = <<>> /\ Len(delivered) = IF taped THEN 1 ELSE 0

\* While the call goes on, what is closed was silenced before.
Silent ==
    /\ registered => \A t \in Threads : Hushed(todo[t], silenced)
    /\ registered => \A b \in Bridges : "closed" \in due[b] => b \in silenced
    /\ ClosingKeepsCall

AudioInv ==
    AudioTypes /\ Frame /\ Scripts /\ Locking /\ Owned /\ Ending /\ Finishing /\ Silent

-----------------------------------------------------------------------------
(* Scripts *)

LEMMA Appended ==
    ASSUME NEW S, NEW s \in Seq(S), NEW q \in Seq(S)
    PROVE  /\ s \o q \in Seq(S) /\ Len(s \o q) = Len(s) + Len(q)
           /\ \A i \in 1 .. Len(s) : (s \o q)[i] = s[i]
           /\ \A i \in 1 .. Len(q) : (s \o q)[Len(s) + i] = q[i]
           /\ \A i \in 1 .. (Len(s) + Len(q)) : i > Len(s) => (s \o q)[i] = q[i - Len(s)]
  OBVIOUS

LEMMA TailOf ==
    ASSUME NEW S, NEW q \in Seq(S), q # <<>>
    PROVE  /\ Head(q) \in S /\ Head(q) = q[1] /\ Tail(q) \in Seq(S)
           /\ Len(q) \in Nat /\ Len(q) >= 1 /\ Len(Tail(q)) = Len(q) - 1
           /\ \A i \in 1 .. (Len(q) - 1) : Tail(q)[i] = q[i + 1]
  OBVIOUS

LEMMA ElementsAppended ==
    ASSUME NEW s \in Seq(Chores), NEW q \in Seq(Chores)
    PROVE  s \o q \in Seq(Chores) /\ Elements(s \o q) = Elements(s) \cup Elements(q)
  <1> DEFINE r == s \o q
  <1>1. /\ r \in Seq(Chores) /\ Len(r) = Len(s) + Len(q)
        /\ \A i \in 1 .. Len(s) : r[i] = s[i]
        /\ \A i \in 1 .. Len(q) : r[Len(s) + i] = q[i]
        /\ \A i \in 1 .. (Len(s) + Len(q)) : i > Len(s) => r[i] = q[i - Len(s)]
    BY Appended
  <1>2. /\ Len(s) \in Nat /\ Len(q) \in Nat
        /\ DOMAIN s = 1 .. Len(s) /\ DOMAIN q = 1 .. Len(q) /\ DOMAIN r = 1 .. Len(r)
    BY <1>1
  <1> HIDE DEF r
  <1>3. ASSUME NEW x \in Elements(s) PROVE x \in Elements(r)
    <2>1. PICK i \in 1 .. Len(s) : x = s[i]
      BY <1>2, <1>3 DEF Elements
    <2>2. i \in DOMAIN r /\ r[i] = x
      BY <1>1, <1>2, <2>1
    <2> QED
      BY <2>2 DEF Elements
  <1>4. ASSUME NEW x \in Elements(q) PROVE x \in Elements(r)
    <2>1. PICK i \in 1 .. Len(q) : x = q[i]
      BY <1>2, <1>4 DEF Elements
    <2>2. Len(s) + i \in DOMAIN r /\ r[Len(s) + i] = x
      BY <1>1, <1>2, <2>1
    <2> QED
      BY <2>2 DEF Elements
  <1>5. ASSUME NEW x \in Elements(r) PROVE x \in Elements(s) \cup Elements(q)
    <2>1. PICK i \in 1 .. (Len(s) + Len(q)) : x = r[i]
      BY <1>1, <1>2, <1>5 DEF Elements
    <2>2. CASE i <= Len(s)
      <3>1. i \in DOMAIN s /\ x = s[i]
        BY <1>1, <1>2, <2>1, <2>2
      <3> QED
        BY <3>1 DEF Elements
    <2>3. CASE i > Len(s)
      <3>1. i - Len(s) \in DOMAIN q /\ x = q[i - Len(s)]
        BY <1>1, <1>2, <2>1, <2>3
      <3> QED
        BY <3>1 DEF Elements
    <2> QED
      BY <1>2, <2>1, <2>2, <2>3
  <1>6. Elements(r) = Elements(s) \cup Elements(q)
    BY <1>3, <1>4, <1>5
  <1> QED
    BY <1>1, <1>6 DEF r

LEMMA ElementsTail ==
    ASSUME NEW q \in Seq(Chores), q # <<>>
    PROVE  /\ Head(q) \in Chores /\ Tail(q) \in Seq(Chores)
           /\ Elements(q) = {Head(q)} \cup Elements(Tail(q))
  <1>1. /\ Head(q) \in Chores /\ Head(q) = q[1] /\ Tail(q) \in Seq(Chores)
        /\ Len(q) \in Nat /\ Len(q) >= 1 /\ Len(Tail(q)) = Len(q) - 1
        /\ \A i \in 1 .. (Len(q) - 1) : Tail(q)[i] = q[i + 1]
    BY TailOf
  <1>2. DOMAIN q = 1 .. Len(q) /\ DOMAIN Tail(q) = 1 .. (Len(q) - 1)
    BY <1>1
  <1>3. ASSUME NEW x \in Elements(q), x # Head(q) PROVE x \in Elements(Tail(q))
    <2>1. PICK i \in 1 .. Len(q) : x = q[i]
      BY <1>2, <1>3 DEF Elements
    <2>2. i # 1
      BY <1>1, <1>3, <2>1
    <2>3. i - 1 \in DOMAIN Tail(q) /\ Tail(q)[i - 1] = x
      BY <1>1, <1>2, <2>1, <2>2
    <2> QED
      BY <2>3 DEF Elements
  <1>4. ASSUME NEW x \in Elements(Tail(q)) PROVE x \in Elements(q)
    <2>1. PICK i \in 1 .. (Len(q) - 1) : x = Tail(q)[i]
      BY <1>2, <1>4 DEF Elements
    <2>2. i + 1 \in DOMAIN q /\ q[i + 1] = x
      BY <1>1, <1>2, <2>1
    <2> QED
      BY <2>2 DEF Elements
  <1>5. Head(q) \in Elements(q)
    BY <1>1, <1>2 DEF Elements
  <1> QED
    BY <1>1, <1>3, <1>4, <1>5

LEMMA ElementsKnown ==
    ASSUME NEW q \in Seq(Chores)
    PROVE  \A x \in Elements(q) : x \in Chores
  BY DEF Elements

LEMMA OrderedAppended ==
    ASSUME NEW s \in Seq(Chores), NEW q \in Seq(Chores), Ordered(s), Ordered(q),
           \A x \in Elements(s), y \in Elements(q) : Precedes(x, y)
    PROVE  Ordered(s \o q)
  <1> DEFINE r == s \o q
  <1>1. /\ r \in Seq(Chores) /\ Len(r) = Len(s) + Len(q)
        /\ \A i \in 1 .. Len(s) : r[i] = s[i]
        /\ \A i \in 1 .. Len(q) : r[Len(s) + i] = q[i]
        /\ \A i \in 1 .. (Len(s) + Len(q)) : i > Len(s) => r[i] = q[i - Len(s)]
    BY Appended
  <1>2. /\ Len(s) \in Nat /\ Len(q) \in Nat
        /\ DOMAIN s = 1 .. Len(s) /\ DOMAIN q = 1 .. Len(q) /\ DOMAIN r = 1 .. Len(r)
    BY <1>1
  <1> HIDE DEF r
  <1>3. SUFFICES ASSUME NEW i \in 1 .. (Len(s) + Len(q)), NEW j \in 1 .. (Len(s) + Len(q)), i < j
                 PROVE  Precedes(r[i], r[j])
    BY <1>1, <1>2 DEF Ordered, r
  <1>4. CASE j <= Len(s)
    <2>1. i \in DOMAIN s /\ j \in DOMAIN s /\ r[i] = s[i] /\ r[j] = s[j]
      BY <1>1, <1>2, <1>3, <1>4
    <2> QED
      BY <1>3, <2>1 DEF Ordered
  <1>5. CASE i > Len(s)
    <2>1. /\ i - Len(s) \in DOMAIN q /\ j - Len(s) \in DOMAIN q /\ i - Len(s) < j - Len(s)
          /\ r[i] = q[i - Len(s)] /\ r[j] = q[j - Len(s)]
      BY <1>1, <1>2, <1>3, <1>5
    <2> QED
      BY <2>1 DEF Ordered
  <1>6. CASE i <= Len(s) /\ j > Len(s)
    <2>1. /\ i \in DOMAIN s /\ j - Len(s) \in DOMAIN q
          /\ r[i] = s[i] /\ r[j] = q[j - Len(s)]
      BY <1>1, <1>2, <1>3, <1>6
    <2> QED
      BY <2>1 DEF Elements
  <1> QED
    BY <1>2, <1>3, <1>4, <1>5, <1>6

LEMMA OrderedTail ==
    ASSUME NEW q \in Seq(Chores), q # <<>>, Ordered(q)
    PROVE  Ordered(Tail(q)) /\ \A x \in Elements(Tail(q)) : Precedes(Head(q), x)
  <1>1. /\ Head(q) = q[1] /\ Tail(q) \in Seq(Chores)
        /\ Len(q) \in Nat /\ Len(q) >= 1 /\ Len(Tail(q)) = Len(q) - 1
        /\ \A i \in 1 .. (Len(q) - 1) : Tail(q)[i] = q[i + 1]
    BY TailOf
  <1>2. DOMAIN q = 1 .. Len(q) /\ DOMAIN Tail(q) = 1 .. (Len(q) - 1)
    BY <1>1
  <1>3. ASSUME NEW i \in DOMAIN Tail(q), NEW j \in DOMAIN Tail(q), i < j
        PROVE  Precedes(Tail(q)[i], Tail(q)[j])
    <2>1. /\ i + 1 \in DOMAIN q /\ j + 1 \in DOMAIN q /\ i + 1 < j + 1
          /\ Tail(q)[i] = q[i + 1] /\ Tail(q)[j] = q[j + 1]
      BY <1>1, <1>2, <1>3
    <2> QED
      BY <2>1 DEF Ordered
  <1>4. ASSUME NEW x \in Elements(Tail(q)) PROVE Precedes(Head(q), x)
    <2>1. PICK i \in DOMAIN Tail(q) : x = Tail(q)[i]
      BY <1>4 DEF Elements
    <2>2. 1 \in DOMAIN q /\ i + 1 \in DOMAIN q /\ 1 < i + 1 /\ x = q[i + 1]
      BY <1>1, <1>2, <2>1
    <2> QED
      BY <1>1, <2>2 DEF Ordered
  <1> QED
    BY <1>3, <1>4 DEF Ordered

LEMMA HushedAppended ==
    ASSUME NEW s \in Seq(Chores), NEW q \in Seq(Chores), NEW done, Hushed(s, done), Hushed(q, done)
    PROVE  Hushed(s \o q, done)
  <1> DEFINE r == s \o q
  <1>1. /\ r \in Seq(Chores) /\ Len(r) = Len(s) + Len(q)
        /\ \A i \in 1 .. Len(s) : r[i] = s[i]
        /\ \A i \in 1 .. Len(q) : r[Len(s) + i] = q[i]
        /\ \A i \in 1 .. (Len(s) + Len(q)) : i > Len(s) => r[i] = q[i - Len(s)]
    BY Appended
  <1>2. /\ Len(s) \in Nat /\ Len(q) \in Nat
        /\ DOMAIN s = 1 .. Len(s) /\ DOMAIN q = 1 .. Len(q) /\ DOMAIN r = 1 .. Len(r)
    BY <1>1
  <1> HIDE DEF r
  <1>3. SUFFICES ASSUME NEW i \in 1 .. (Len(s) + Len(q)), r[i].op = "close", r[i].on \notin done
                 PROVE  \E j \in DOMAIN r : j < i /\ r[j] = Item("silence", r[i].on)
    BY <1>1, <1>2 DEF Hushed, r
  <1>4. CASE i <= Len(s)
    <2>1. i \in DOMAIN s /\ r[i] = s[i]
      BY <1>1, <1>2, <1>3, <1>4
    <2>2. PICK j \in DOMAIN s : j < i /\ s[j] = Item("silence", s[i].on)
      BY <1>3, <2>1 DEF Hushed
    <2>3. j \in DOMAIN r /\ r[j] = s[j]
      BY <1>1, <1>2, <2>2
    <2> QED
      BY <2>1, <2>2, <2>3
  <1>5. CASE i > Len(s)
    <2>1. i - Len(s) \in DOMAIN q /\ r[i] = q[i - Len(s)]
      BY <1>1, <1>2, <1>3, <1>5
    <2>2. PICK j \in DOMAIN q : j < i - Len(s) /\ q[j] = Item("silence", q[i - Len(s)].on)
      BY <1>3, <2>1 DEF Hushed
    <2>3. Len(s) + j \in DOMAIN r /\ r[Len(s) + j] = q[j] /\ Len(s) + j < i
      BY <1>1, <1>2, <2>2
    <2> QED
      BY <2>1, <2>2, <2>3
  <1> QED
    BY <1>2, <1>3, <1>4, <1>5

LEMMA HushedTail ==
    ASSUME NEW q \in Seq(Chores), q # <<>>, NEW done, NEW more, Hushed(q, done), done \subseteq more,
           Head(q).op = "silence" => Head(q).on \in more
    PROVE  Hushed(Tail(q), more)
  <1>1. /\ Head(q) = q[1] /\ Tail(q) \in Seq(Chores)
        /\ Len(q) \in Nat /\ Len(q) >= 1 /\ Len(Tail(q)) = Len(q) - 1
        /\ \A i \in 1 .. (Len(q) - 1) : Tail(q)[i] = q[i + 1]
    BY TailOf
  <1>2. DOMAIN q = 1 .. Len(q) /\ DOMAIN Tail(q) = 1 .. (Len(q) - 1)
    BY <1>1
  <1>3. SUFFICES ASSUME NEW i \in DOMAIN Tail(q), Tail(q)[i].op = "close", Tail(q)[i].on \notin more
                 PROVE  \E j \in DOMAIN Tail(q) : j < i /\ Tail(q)[j] = Item("silence", Tail(q)[i].on)
    BY DEF Hushed
  <1>4. i + 1 \in DOMAIN q /\ Tail(q)[i] = q[i + 1] /\ i \in Nat
    BY <1>1, <1>2
  <1>5. PICK j \in DOMAIN q : j < i + 1 /\ q[j] = Item("silence", q[i + 1].on)
    BY <1>3, <1>4 DEF Hushed
  <1>6. j # 1
    BY <1>1, <1>3, <1>4, <1>5 DEF Item
  <1>7. j - 1 \in DOMAIN Tail(q) /\ Tail(q)[j - 1] = q[j] /\ j - 1 < i
    BY <1>1, <1>2, <1>4, <1>5, <1>6
  <1> QED
    BY <1>4, <1>5, <1>7

LEMMA HushedMore ==
    ASSUME NEW q, NEW done, NEW more, Hushed(q, done), done \subseteq more
    PROVE  Hushed(q, more)
  BY DEF Hushed

-----------------------------------------------------------------------------
(* A step of a thread *)

LEMMA SmallScripts ==
    /\ <<>> \in Seq(Chores) /\ Elements(<<>>) = {} /\ Ordered(<<>>)
    /\ \A done : Hushed(<<>>, done)
    /\ \A op \in Ops \ {"silence", "close", "closeCodec"} :
           /\ Do(op) \in Seq(Chores) /\ Elements(Do(op)) = {Item(op, None)} /\ Ordered(Do(op))
           /\ \A done : Hushed(Do(op), done)
    /\ \A op \in {"silence", "close", "closeCodec"}, b \in Bridges \cup {None} :
           /\ With(op, b) \in Seq(Chores) /\ Ordered(With(op, b))
           /\ Elements(With(op, b)) = IF b = None THEN {} ELSE {Item(op, b)}
           /\ op # "close" => \A done : Hushed(With(op, b), done)
  <1>1. /\ <<>> \in Seq(Chores) /\ Elements(<<>>) = {} /\ Ordered(<<>>)
        /\ \A done : Hushed(<<>>, done)
    BY DEF Elements, Ordered, Hushed
  <1>2. ASSUME NEW op \in Ops, NEW b \in Bridges \cup {None},
               op \in {"silence", "close", "closeCodec"} => b \in Bridges
        PROVE  /\ <<Item(op, b)>> \in Seq(Chores) /\ Elements(<<Item(op, b)>>) = {Item(op, b)}
               /\ Ordered(<<Item(op, b)>>)
               /\ op # "close" => \A done : Hushed(<<Item(op, b)>>, done)
    <2>1. Item(op, b) \in Chores
      BY <1>2 DEF Chores, Item
    <2>2. <<Item(op, b)>> \in Seq(Chores)
      BY <2>1
    <2>3. Elements(<<Item(op, b)>>) = {Item(op, b)}
      BY DEF Elements
    <2>4. Ordered(<<Item(op, b)>>)
      BY DEF Ordered
    <2>5. op # "close" => \A done : Hushed(<<Item(op, b)>>, done)
      BY DEF Hushed, Item
    <2> QED
      BY <2>2, <2>3, <2>4, <2>5
  <1>3. ASSUME NEW op \in Ops \ {"silence", "close", "closeCodec"}
        PROVE  /\ Do(op) \in Seq(Chores) /\ Elements(Do(op)) = {Item(op, None)} /\ Ordered(Do(op))
               /\ \A done : Hushed(Do(op), done)
    <2>1. Do(op) = <<Item(op, None)>>
      BY DEF Do, Item
    <2> QED
      BY <1>2, <2>1
  <1>4. ASSUME NEW op \in {"silence", "close", "closeCodec"}, NEW b \in Bridges \cup {None}
        PROVE  /\ With(op, b) \in Seq(Chores) /\ Ordered(With(op, b))
               /\ Elements(With(op, b)) = IF b = None THEN {} ELSE {Item(op, b)}
               /\ op # "close" => \A done : Hushed(With(op, b), done)
    <2>1. CASE b = None
      BY <1>1, <2>1 DEF With
    <2>2. CASE b # None
      <3>1. With(op, b) = <<Item(op, b)>> /\ b \in Bridges /\ op \in Ops
        BY <2>2 DEF With, Item, Ops
      <3> QED
        BY <1>2, <2>2, <3>1
    <2> QED
      BY <2>1, <2>2
  <1> QED
    BY <1>1, <1>3, <1>4

\* What a thread does next, and what it has to do when it has done it.
LEMMA ThreadGoes ==
    ASSUME AudioTypes, Scripts, NEW t \in Threads, todo[t] # <<>>, NEW more \in Seq(Chores),
           Goes(t, more)
    PROVE  /\ todo' \in [Threads -> Seq(Chores)]
           /\ Head(todo[t]) \in Items(t) /\ Head(todo[t]) \in Chores
           /\ Elements(more) \subseteq Items(t)'
           /\ Items(t)' \subseteq Elements(more) \cup Items(t)
           /\ \A x \in Items(t) : x = Head(todo[t]) \/ x \in Items(t)'
           /\ \A x \in Items(t)' : x \in Elements(more) \/ Precedes(Head(todo[t]), x)
           /\ \A u \in Threads : u # t => todo'[u] = todo[u] /\ Items(u)' = Items(u)
           /\ todo'[t] = more \o Tail(todo[t]) /\ Tail(todo[t]) \in Seq(Chores)
           /\ Items(t)' = Elements(more) \cup Elements(Tail(todo[t]))
           /\ Elements(Tail(todo[t])) \subseteq Items(t)
  <1>1. todo \in [Threads -> Seq(Chores)] /\ todo[t] \in Seq(Chores) /\ Ordered(todo[t])
    BY DEF AudioTypes, Scripts
  <1>2. /\ Head(todo[t]) \in Chores /\ Tail(todo[t]) \in Seq(Chores)
        /\ Items(t) = {Head(todo[t])} \cup Elements(Tail(todo[t]))
        /\ \A x \in Elements(Tail(todo[t])) : Precedes(Head(todo[t]), x)
    BY <1>1, ElementsTail, OrderedTail DEF Items
  <1>3. /\ more \o Tail(todo[t]) \in Seq(Chores)
        /\ Elements(more \o Tail(todo[t])) = Elements(more) \cup Elements(Tail(todo[t]))
    BY <1>2, ElementsAppended
  <1>4. todo' = [todo EXCEPT ![t] = more \o Tail(todo[t])]
    BY DEF Goes
  <1>5. /\ todo' \in [Threads -> Seq(Chores)] /\ todo'[t] = more \o Tail(todo[t])
        /\ \A u \in Threads : u # t => todo'[u] = todo[u]
    BY <1>1, <1>3, <1>4
  <1>6. Items(t)' = Elements(more) \cup Elements(Tail(todo[t]))
    BY <1>3, <1>5 DEF Items
  <1>7. \A u \in Threads : u # t => Items(u)' = Items(u)
    BY <1>5 DEF Items
  <1> QED
    BY <1>2, <1>5, <1>6, <1>7

\* The scripts stay as they are but for the head of one.
LEMMA ScriptsGo ==
    ASSUME AudioTypes, Scripts, NEW t \in Threads, todo[t] # <<>>, NEW more \in Seq(Chores),
           Goes(t, more), Ordered(more), Head(todo[t]).op \notin {"lookup", "make", "set"},
           \A x \in Elements(more) : x.op \notin {"lookup", "make", "set"},
           \A x \in Elements(more), y \in Elements(Tail(todo[t])) : Precedes(x, y)
    PROVE  Scripts'
  <1>1. /\ \A u \in Threads : u # t => todo'[u] = todo[u] /\ Items(u)' = Items(u)
        /\ todo'[t] = more \o Tail(todo[t]) /\ Tail(todo[t]) \in Seq(Chores)
        /\ Items(t)' \subseteq Elements(more) \cup Items(t)
    BY ThreadGoes
  <1>2. todo[t] \in Seq(Chores) /\ Ordered(todo[t])
    BY DEF AudioTypes, Scripts
  <1>3. Ordered(todo'[t])
    BY <1>1, <1>2, OrderedTail, OrderedAppended
  <1>4. \A u \in Threads : Ordered(todo'[u])
    BY <1>1, <1>3 DEF Scripts
  <1>5. \A op \in {"lookup", "make", "set"} : Awaits(t, op)' => Awaits(t, op)
    BY <1>1 DEF Awaits
  <1>6. ASSUME NEW b \in Bridges PROVE Requested(b)'
    <2>1. CASE b = t
      <3>1. todo[t] \notin {Looking, Making, Setting}
        BY DEF Looking, Making, Setting, Item
      <3>2. ~Awaits(t, "lookup") /\ ~Awaits(t, "make") /\ ~Awaits(t, "set")
        BY <2>1, <3>1 DEF Scripts, Requested
      <3> QED
        BY <1>5, <2>1, <3>2 DEF Requested
    <2>2. CASE b # t
      <3>1. b \in Threads
        BY DEF Threads
      <3>2. todo'[b] = todo[b] /\ Items(b)' = Items(b)
        BY <1>1, <2>2, <3>1
      <3> QED
        BY <3>2 DEF Scripts, Requested, Awaits
    <2> QED
      BY <2>1, <2>2
  <1>7. ASSUME NEW u \in Threads \ Bridges PROVE ~Awaits(u, "make")' /\ ~Awaits(u, "set")'
    <2>1. CASE u = t
      BY <1>5, <1>7, <2>1 DEF Scripts
    <2>2. CASE u # t
      BY <1>1, <1>7, <2>2 DEF Scripts, Awaits
    <2> QED
      BY <2>1, <2>2
  <1> QED
    BY <1>4, <1>6, <1>7 DEF Scripts

LEMMA ScriptsStay ==
    ASSUME Scripts, UNCHANGED todo
    PROVE  /\ Scripts'
           /\ \A u \in Threads : Items(u)' = Items(u)
           /\ \A u \in Threads, op \in Ops : Awaits(u, op)' <=> Awaits(u, op)
  BY DEF Scripts, Requested, Awaits, Items

\* A chore that is not the next one is still there, and those that were not asked for are new.
LEMMA ChoresGo ==
    ASSUME AudioTypes, Scripts, NEW t \in Threads, todo[t] # <<>>, NEW more \in Seq(Chores),
           Goes(t, more)
    PROVE  /\ \A u \in Threads, op \in Ops :
                  Awaits(u, op)' => Awaits(u, op) \/ (u = t /\ \E x \in Elements(more) : x.op = op)
           /\ \A u \in Threads, op \in Ops :
                  Awaits(u, op) => Awaits(u, op)' \/ (u = t /\ op = Head(todo[t]).op)
           /\ \A x \in Elements(more) : Awaits(t, x.op)'
           /\ \A u \in Threads : \A x \in Items(u) :
                  x.op # Head(todo[t]).op => x \in Items(u)'
           /\ Awaits(t, Head(todo[t]).op)
           /\ \A b \in Bridges : todo[b] = Setting /\ Head(todo[t]).op # "set" => todo'[b] = Setting
  <1>1. /\ Head(todo[t]) \in Items(t)
        /\ Elements(more) \subseteq Items(t)'
        /\ Items(t)' \subseteq Elements(more) \cup Items(t)
        /\ \A x \in Items(t) : x = Head(todo[t]) \/ x \in Items(t)'
        /\ \A u \in Threads : u # t => todo'[u] = todo[u] /\ Items(u)' = Items(u)
    BY ThreadGoes
  <1>2. \A b \in Bridges : todo[b] = Setting /\ Head(todo[t]).op # "set" => b # t
    BY DEF Setting, Item
  <1>3. \A b \in Bridges : b \in Threads
    BY DEF Threads
  <1>4. \A b \in Bridges : todo[b] = Setting /\ Head(todo[t]).op # "set" => todo'[b] = Setting
    BY <1>1, <1>2, <1>3
  <1>5. \A u \in Threads, op \in Ops :
            Awaits(u, op)' => Awaits(u, op) \/ (u = t /\ \E x \in Elements(more) : x.op = op)
    BY <1>1 DEF Awaits
  <1>6. \A u \in Threads, op \in Ops :
            Awaits(u, op) => Awaits(u, op)' \/ (u = t /\ op = Head(todo[t]).op)
    BY <1>1 DEF Awaits
  <1>7. \A x \in Elements(more) : Awaits(t, x.op)'
    BY <1>1 DEF Awaits
  <1>8. \A u \in Threads : \A x \in Items(u) : x.op # Head(todo[t]).op => x \in Items(u)'
    BY <1>1
  <1>9. Awaits(t, Head(todo[t]).op)
    BY <1>1 DEF Awaits
  <1> QED
    BY <1>4, <1>5, <1>6, <1>7, <1>8, <1>9

\* Silence follows a thread.
LEMMA HushGoes ==
    ASSUME AudioTypes, Silent, registered, NEW t \in Threads, todo[t] # <<>>,
           NEW more \in Seq(Chores), Goes(t, more), silenced \subseteq silenced',
           Head(todo[t]).op = "silence" => Head(todo[t]).on \in silenced', Hushed(more, silenced')
    PROVE  \A u \in Threads : Hushed(todo'[u], silenced')
  <1>1. todo \in [Threads -> Seq(Chores)] /\ todo' = [todo EXCEPT ![t] = more \o Tail(todo[t])]
    BY DEF AudioTypes, Goes
  <1>2. \A u \in Threads : todo[u] \in Seq(Chores) /\ Hushed(todo[u], silenced)
    BY <1>1 DEF Silent
  <1>3. ASSUME NEW u \in Threads PROVE Hushed(todo'[u], silenced')
    <2>1. CASE u = t
      <3>1. Tail(todo[t]) \in Seq(Chores) /\ Hushed(Tail(todo[t]), silenced')
        BY <1>2, TailOf, HushedTail
      <3>2. Hushed(more \o Tail(todo[t]), silenced')
        BY <3>1, HushedAppended
      <3> QED
        BY <1>1, <2>1, <3>2
    <2>2. CASE u # t
      <3>1. todo'[u] = todo[u]
        BY <1>1, <2>2
      <3> QED
        BY <1>2, <3>1, HushedMore
    <2> QED
      BY <2>1, <2>2
  <1> QED
    BY <1>3

LEMMA HushStays ==
    ASSUME Silent, registered, UNCHANGED todo, silenced \subseteq silenced'
    PROVE  \A u \in Threads : Hushed(todo'[u], silenced')
  BY HushedMore DEF Silent

-----------------------------------------------------------------------------
(* What a step has to leave alone *)

LEMMA LockingKept ==
    ASSUME Locking, mu' = mu, state' = "ended" => state = "ended",
           \A u \in Threads : Awaits(u, "unlock")' => Awaits(u, "unlock"),
           \A u \in Threads : Awaits(u, "attach")' \/ Awaits(u, "provision")'
                                  => Awaits(u, "attach") \/ Awaits(u, "provision")
    PROVE  Locking'
  BY DEF Locking

LEMMA OwnedKept ==
    ASSUME Owned, UNCHANGED <<registered, bridge, wsBridge, opus>>,
           \A b \in Bridges : todo[b] = Setting => todo'[b] = Setting,
           \A b \in Bridges : conn'[b] \in {"open", "failed"} => conn[b] \in {"open", "failed"},
           \A b \in Bridges : codecOf'[b] = "open" => codecOf[b] = "open",
           \A u \in Threads : \A x \in Items(u) :
               \/ x.op \notin {"close", "closeCodec"}
               \/ x \in Items(u)'
               \/ x.op = "close" /\ conn'[x.on] = "closed"
               \/ x.op = "closeCodec" /\ codecOf'[x.on] = "closed"
    PROVE  Owned'
  <1>1. ASSUME NEW b \in Bridges, conn'[b] \in {"open", "failed"}
        PROVE  Closing("close", b)' \/ (registered' /\ b \in {bridge', wsBridge'})
    <2>1. CASE \E u \in Threads : Item("close", b) \in Items(u)
      <3>1. PICK u \in Threads : Item("close", b) \in Items(u)
        BY <2>1
      <3>2. Item("close", b).op = "close" /\ Item("close", b).on = b
        BY DEF Item
      <3>3. Item("close", b) \in Items(u)'
        BY <1>1, <3>1, <3>2
      <3> QED
        BY <3>3 DEF Closing, Item
    <2>2. CASE todo[b] = Setting
      BY <2>2 DEF Closing, Setting
    <2>3. CASE registered /\ b \in {bridge, wsBridge}
      BY <2>3
    <2> QED
      BY <1>1, <2>1, <2>2, <2>3 DEF Owned, Closing
  <1>2. ASSUME NEW b \in Bridges, codecOf'[b] = "open"
        PROVE  Closing("closeCodec", b)' \/ (registered' /\ opus' = b)
    <2>1. CASE \E u \in Threads : Item("closeCodec", b) \in Items(u)
      <3>1. PICK u \in Threads : Item("closeCodec", b) \in Items(u)
        BY <2>1
      <3>2. Item("closeCodec", b).op = "closeCodec" /\ Item("closeCodec", b).on = b
        BY DEF Item
      <3>3. Item("closeCodec", b) \in Items(u)'
        BY <1>2, <3>1, <3>2
      <3> QED
        BY <3>3 DEF Closing, Item
    <2>2. CASE todo[b] = Setting
      BY <2>2 DEF Closing, Setting
    <2>3. CASE registered /\ opus = b
      BY <2>3
    <2> QED
      BY <1>2, <2>1, <2>2, <2>3 DEF Owned, Closing
  <1> QED
    BY <1>1, <1>2 DEF Owned

LEMMA EndingKept ==
    ASSUME Ending, codec' = codec, capture' => capture \/ codec = "open",
           state' = "ended" => state = "ended", room' = "open" => room = "open",
           \A u \in Threads : /\ Awaits(u, "closeManagerCodec") <=> Awaits(u, "closeManagerCodec")'
                              /\ Awaits(u, "takeCodec") => Awaits(u, "takeCodec")'
                              /\ Awaits(u, "detach") => Awaits(u, "detach")'
    PROVE  Ending'
  BY DEF Ending

LEMMA FinishingKept ==
    ASSUME Finishing, UNCHANGED <<plan, registered, taping, finishing, delivered>>,
           ~taping => taped' = taped,
           \A u \in Threads : Awaits(u, "finalize")' <=> Awaits(u, "finalize")
    PROVE  Finishing'
  BY DEF Finishing

LEMMA SilentKept ==
    ASSUME Silent, registered' => registered,
           registered' => \A u \in Threads : Hushed(todo'[u], silenced'),
           registered' => \A b \in Bridges :
               "closed" \in due'[b] => ("closed" \in due[b] /\ b \in silenced) \/ b \in silenced',
           silenced \subseteq silenced',
           \A b \in Bridges : "closed" \in raised'[b] => "closed" \in raised[b] \/ ~registered'
    PROVE  Silent'
  <1>1. registered' => \A u \in Threads : Hushed(todo[u], silenced)'
    OBVIOUS
  <1>2. registered' => \A b \in Bridges : "closed" \in due'[b] => b \in silenced'
    OBVIOUS
  <1>3. ClosingKeepsCall'
    BY DEF Silent, ClosingKeepsCall
  <1> QED
    BY <1>1, <1>2, <1>3 DEF Silent

-----------------------------------------------------------------------------
(* The steps of a thread *)

\* A thread has done one of its chores, and goes on to the next.
ChoreIsDone(t, chore) ==
    /\ todo' \in [Threads -> Seq(Chores)] /\ Head(todo[t]) \in Chores /\ Scripts'
    /\ \A u \in Threads, op \in Ops :
           /\ Awaits(u, op)' => Awaits(u, op)
           /\ Awaits(u, op) => Awaits(u, op)' \/ (u = t /\ op = chore)
    /\ \A u \in Threads : \A x \in Items(u) : x.op # chore => x \in Items(u)'
    /\ \A u \in Threads : \A x \in Items(u) : x \in Items(u)' \/ (u = t /\ x = Head(todo[t]))
    /\ \A x \in Items(t)' : Precedes(Head(todo[t]), x)
    /\ \A b \in Bridges : todo[b] = Setting => todo'[b] = Setting
    /\ Awaits(t, chore)

LEMMA ChoreDone ==
    ASSUME AudioTypes, Scripts, NEW t \in Threads, NEW chore, todo[t] # <<>>, Head(todo[t]).op = chore,
           chore \notin {"lookup", "make", "set"}, Goes(t, <<>>)
    PROVE  ChoreIsDone(t, chore)
  <1>1. <<>> \in Seq(Chores) /\ Elements(<<>>) = {} /\ Ordered(<<>>)
    BY SmallScripts
  <1>2. /\ todo' \in [Threads -> Seq(Chores)] /\ Head(todo[t]) \in Chores
        /\ \A x \in Items(t) : x = Head(todo[t]) \/ x \in Items(t)'
        /\ \A x \in Items(t)' : x \in Elements(<<>>) \/ Precedes(Head(todo[t]), x)
        /\ \A u \in Threads : u # t => Items(u)' = Items(u)
    BY <1>1, ThreadGoes
  <1>3. Scripts'
    BY <1>1, ScriptsGo
  <1>4. /\ \A u \in Threads, op \in Ops :
               Awaits(u, op)' => Awaits(u, op) \/ (u = t /\ \E x \in Elements(<<>>) : x.op = op)
        /\ \A u \in Threads, op \in Ops :
               Awaits(u, op) => Awaits(u, op)' \/ (u = t /\ op = Head(todo[t]).op)
        /\ \A u \in Threads : \A x \in Items(u) : x.op # Head(todo[t]).op => x \in Items(u)'
        /\ Awaits(t, Head(todo[t]).op)
        /\ \A b \in Bridges : todo[b] = Setting /\ Head(todo[t]).op # "set" => todo'[b] = Setting
    BY <1>1, ChoresGo
  <1> QED
    BY <1>1, <1>2, <1>3, <1>4 DEF ChoreIsDone

LEMMA HushDone ==
    ASSUME AudioTypes, Silent, NEW t \in Threads, todo[t] # <<>>, Goes(t, <<>>), silenced \subseteq silenced',
           Head(todo[t]).op = "silence" => Head(todo[t]).on \in silenced'
    PROVE  registered => \A u \in Threads : Hushed(todo'[u], silenced')
  BY SmallScripts, HushGoes

LEMMA HushedHead ==
    ASSUME NEW q \in Seq(Chores), q # <<>>, NEW done, Hushed(q, done), Head(q).op = "close"
    PROVE  Head(q).on \in done
  <1>1. Head(q) = q[1] /\ DOMAIN q = 1 .. Len(q) /\ 1 \in DOMAIN q
    BY TailOf
  <1> QED
    BY <1>1 DEF Hushed

LEMMA SilenceKeeps == ASSUME AudioInv, NEW t \in Threads, Silence(t) PROVE AudioInv'
  <1> USE DEF call, livekit, lists, active, conns, recorder, flow
  <1>1. /\ todo[t] # <<>> /\ Head(todo[t]).op = "silence" /\ Goes(t, <<>>)
        /\ silenced' = silenced \cup {Head(todo[t]).on}
        /\ UNCHANGED <<plan, state, mu, codec, capture, room, hub, hooked, registered, listed,
                        bridge, wsBridge, opus, conn, codecOf, due, raised, taping, taped,
                        finishing, delivered, fed, media, heard, crashed>>
    BY DEF Silence, At, On
  <1>2. AudioTypes /\ Frame /\ Scripts /\ Locking /\ Owned /\ Ending /\ Finishing /\ Silent
    BY DEF AudioInv
  <1>3. ChoreIsDone(t, "silence")
    BY <1>1, <1>2, ChoreDone
  <1>4. AudioTypes'
    BY <1>1, <1>2, <1>3 DEF AudioTypes, Chores, ChoreIsDone
  <1>5. Frame'
    BY <1>1, <1>2 DEF Frame
  <1>6. Locking'
    BY <1>1, <1>2, <1>3, LockingKept DEF Ops, ChoreIsDone
  <1>7. Owned'
    BY <1>1, <1>2, <1>3, OwnedKept DEF ChoreIsDone
  <1>8. Ending'
    BY <1>1, <1>2, <1>3, EndingKept DEF Ops, ChoreIsDone
  <1>9. Finishing'
    BY <1>1, <1>2, <1>3, FinishingKept DEF Ops, ChoreIsDone
  <1>10. Silent'
    <2>1. registered => \A u \in Threads : Hushed(todo'[u], silenced')
      BY <1>1, <1>2, HushDone
    <2> QED
      BY <1>1, <1>2, <2>1, SilentKept DEF Silent
  <1> QED
    BY <1>4, <1>5, <1>3, <1>6, <1>7, <1>8, <1>9, <1>10 DEF AudioInv, ChoreIsDone

LEMMA CloseKeeps == ASSUME AudioInv, NEW t \in Threads, Close(t) PROVE AudioInv'
  <1> USE DEF call, livekit, lists, active, conns, recorder, flow
  <1>1. /\ todo[t] # <<>> /\ Head(todo[t]).op = "close" /\ Goes(t, <<>>)
        /\ conn' = [conn EXCEPT ![Head(todo[t]).on] = "closed"]
        /\ due' = due \/ due' = [due EXCEPT ![Head(todo[t]).on] = @ \cup {"closed"}]
        /\ silenced' = silenced \/ silenced' = silenced \cup {Head(todo[t]).on}
        /\ UNCHANGED <<plan, state, mu, codec, capture, room, hub, hooked, registered, listed,
                        bridge, wsBridge, opus, codecOf, raised, taping, taped, finishing,
                        delivered, fed, media, heard, crashed>>
    BY DEF Close, At, On
  <1>2. AudioTypes /\ Frame /\ Scripts /\ Locking /\ Owned /\ Ending /\ Finishing /\ Silent
    BY DEF AudioInv
  <1>3. ChoreIsDone(t, "close")
    BY <1>1, <1>2, ChoreDone
  <1>4. AudioTypes'
    <2>1. /\ Head(todo[t]).on \in Bridges /\ conn \in [Bridges -> {"none", "open", "failed", "closed"}]
          /\ due \in [Bridges -> SUBSET {"failed", "closed"}] /\ silenced \subseteq Bridges
      BY <1>1, <1>2, <1>3 DEF Chores, AudioTypes, ChoreIsDone
    <2>2. conn' \in [Bridges -> {"none", "open", "failed", "closed"}]
      BY <1>1, <2>1
    <2>3. due' \in [Bridges -> SUBSET {"failed", "closed"}]
      BY <1>1, <2>1
    <2>4. silenced' \subseteq Bridges
      BY <1>1, <2>1
    <2> QED
      BY <1>1, <1>2, <1>3, <2>2, <2>3, <2>4 DEF AudioTypes, ChoreIsDone
  <1>5. Frame'
    BY <1>1, <1>2 DEF Frame
  <1>6. Locking'
    BY <1>1, <1>2, <1>3, LockingKept DEF Ops, ChoreIsDone
  <1>7. Owned'
    <2>1. Head(todo[t]).on \in Bridges /\ conn \in [Bridges -> {"none", "open", "failed", "closed"}]
      BY <1>1, <1>2, <1>3 DEF Chores, AudioTypes, ChoreIsDone
    <2>2. \A b \in Bridges : conn'[b] \in {"open", "failed"} => conn[b] \in {"open", "failed"}
      BY <1>1, <2>1
    <2>3. ASSUME NEW u \in Threads, NEW x \in Items(u), x.op = "close", x \notin Items(u)'
          PROVE  conn'[x.on] = "closed"
      <3>1. u = t /\ x = Head(todo[t])
        BY <1>1, <1>2, <1>3, <2>3 DEF ChoreIsDone
      <3> QED
        BY <1>1, <2>1, <3>1
    <2> QED
      BY <1>1, <1>2, <1>3, <2>2, <2>3, OwnedKept DEF ChoreIsDone
  <1>8. Ending'
    BY <1>1, <1>2, <1>3, EndingKept DEF Ops, ChoreIsDone
  <1>9. Finishing'
    BY <1>1, <1>2, <1>3, FinishingKept DEF Ops, ChoreIsDone
  <1>10. Silent'
    <2>1. registered => \A u \in Threads : Hushed(todo'[u], silenced')
      BY <1>1, <1>2, HushDone
    <2>2. registered => Head(todo[t]).on \in silenced
      BY <1>1, <1>2, HushedHead DEF Silent, AudioTypes
    <2>3. Head(todo[t]).on \in Bridges /\ due \in [Bridges -> SUBSET {"failed", "closed"}]
      BY <1>1, <1>2, <1>3 DEF Chores, AudioTypes, ChoreIsDone
    <2>4. \A b \in Bridges : "closed" \in due'[b] => "closed" \in due[b] \/ b = Head(todo[t]).on
      BY <1>1, <2>3
    <2> QED
      BY <1>1, <1>2, <2>1, <2>2, <2>4, SilentKept DEF Silent
  <1> QED
    BY <1>4, <1>5, <1>3, <1>6, <1>7, <1>8, <1>9, <1>10 DEF AudioInv, ChoreIsDone

LEMMA CloseCodecKeeps == ASSUME AudioInv, NEW t \in Threads, CloseCodec(t) PROVE AudioInv'
  <1> USE DEF call, livekit, lists, active, conns, recorder, flow
  <1>1. /\ todo[t] # <<>> /\ Head(todo[t]).op = "closeCodec" /\ Goes(t, <<>>)
        /\ codecOf' = [codecOf EXCEPT ![Head(todo[t]).on] = "closed"]
        /\ UNCHANGED <<plan, state, mu, codec, capture, room, hub, hooked, registered, listed,
                        bridge, wsBridge, opus, conn, silenced, due, raised, taping, taped,
                        finishing, delivered, fed, media, heard, crashed>>
    BY DEF CloseCodec, At, On
  <1>2. AudioTypes /\ Frame /\ Scripts /\ Locking /\ Owned /\ Ending /\ Finishing /\ Silent
    BY DEF AudioInv
  <1>3. ChoreIsDone(t, "closeCodec")
    BY <1>1, <1>2, ChoreDone
  <1>4. AudioTypes'
    BY <1>1, <1>2, <1>3 DEF AudioTypes, Chores, ChoreIsDone
  <1>5. Frame'
    BY <1>1, <1>2 DEF Frame
  <1>6. Locking'
    BY <1>1, <1>2, <1>3, LockingKept DEF Ops, ChoreIsDone
  <1>7. Owned'
    <2>1. Head(todo[t]).on \in Bridges /\ codecOf \in [Bridges -> {"none", "open", "closed"}]
      BY <1>1, <1>2, <1>3 DEF Chores, AudioTypes, ChoreIsDone
    <2>2. \A b \in Bridges : codecOf'[b] = "open" => codecOf[b] = "open"
      BY <1>1, <2>1
    <2>3. ASSUME NEW u \in Threads, NEW x \in Items(u), x.op = "closeCodec", x \notin Items(u)'
          PROVE  codecOf'[x.on] = "closed"
      <3>1. u = t /\ x = Head(todo[t])
        BY <1>1, <1>2, <1>3, <2>3 DEF ChoreIsDone
      <3> QED
        BY <1>1, <2>1, <3>1
    <2> QED
      BY <1>1, <1>2, <1>3, <2>2, <2>3, OwnedKept DEF ChoreIsDone
  <1>8. Ending'
    BY <1>1, <1>2, <1>3, EndingKept DEF Ops, ChoreIsDone
  <1>9. Finishing'
    BY <1>1, <1>2, <1>3, FinishingKept DEF Ops, ChoreIsDone
  <1>10. Silent'
    <2>1. registered => \A u \in Threads : Hushed(todo'[u], silenced')
      BY <1>1, <1>2, HushDone
    <2> QED
      BY <1>1, <1>2, <2>1, SilentKept DEF Silent
  <1> QED
    BY <1>4, <1>5, <1>3, <1>6, <1>7, <1>8, <1>9, <1>10 DEF AudioInv, ChoreIsDone

LEMMA AttachCallKeeps == ASSUME AudioInv, NEW t \in Threads, AttachCall(t) PROVE AudioInv'
  <1> USE DEF call, livekit, lists, active, conns, recorder, flow
  <1>1. /\ todo[t] # <<>> /\ Head(todo[t]).op = "attach" /\ Goes(t, Do("provision"))
        /\ hub' = t
        /\ UNCHANGED <<plan, state, mu, codec, capture, room, hooked, registered, listed, bridge,
                        wsBridge, opus, conn, codecOf, silenced, due, raised, taping, taped,
                        finishing, delivered, fed, media, heard, crashed>>
    BY DEF AttachCall, At, On
  <1>2. AudioTypes /\ Frame /\ Scripts /\ Locking /\ Owned /\ Ending /\ Finishing /\ Silent
    BY DEF AudioInv
  <1>3. /\ Do("provision") \in Seq(Chores) /\ Elements(Do("provision")) = {Item("provision", None)}
        /\ Ordered(Do("provision")) /\ \A done : Hushed(Do("provision"), done)
    BY SmallScripts DEF Ops
  <1>4. todo' \in [Threads -> Seq(Chores)] /\ Head(todo[t]) \in Chores
    BY <1>1, <1>2, <1>3, ThreadGoes
  <1>5. /\ \A u \in Threads, op \in Ops :
               /\ Awaits(u, op)' => Awaits(u, op) \/ (u = t /\ op = "provision")
               /\ Awaits(u, op) => Awaits(u, op)' \/ (u = t /\ op = "attach")
        /\ \A u \in Threads : \A x \in Items(u) : x.op # "attach" => x \in Items(u)'
        /\ \A b \in Bridges : todo[b] = Setting => todo'[b] = Setting
        /\ Awaits(t, "attach")
        /\ Awaits(t, "provision")'
    <2>1. /\ \A u \in Threads, op \in Ops :
                 Awaits(u, op)' => Awaits(u, op) \/ (u = t /\ \E x \in Elements(Do("provision")) : x.op = op)
          /\ \A u \in Threads, op \in Ops :
                 Awaits(u, op) => Awaits(u, op)' \/ (u = t /\ op = Head(todo[t]).op)
          /\ \A x \in Elements(Do("provision")) : Awaits(t, x.op)'
          /\ \A u \in Threads : \A x \in Items(u) : x.op # Head(todo[t]).op => x \in Items(u)'
          /\ Awaits(t, Head(todo[t]).op)
          /\ \A b \in Bridges : todo[b] = Setting /\ Head(todo[t]).op # "set" => todo'[b] = Setting
      BY <1>1, <1>2, <1>3, ChoresGo
    <2>2. Item("provision", None) \in Items(t)'
      BY <1>1, <1>2, <1>3, ThreadGoes
    <2>3. Awaits(t, "provision")'
      BY <2>2 DEF Awaits, Item
    <2>4. \A x \in Elements(Do("provision")) : x.op = "provision"
      BY <1>3 DEF Item
    <2> QED
      BY <1>1, <1>3, <2>1, <2>3, <2>4
  <1>6. AudioTypes'
    BY <1>1, <1>2, <1>4 DEF AudioTypes
  <1>7. Frame'
    BY <1>1, <1>2 DEF Frame
  <1>8. Scripts'
    BY <1>1, <1>2, <1>3, ScriptsGo DEF Item, Precedes
  <1>9. Locking'
    BY <1>1, <1>2, <1>5, LockingKept DEF Ops
  <1>10. Owned'
    BY <1>1, <1>2, <1>5, OwnedKept
  <1>11. Ending'
    BY <1>1, <1>2, <1>5, EndingKept DEF Ops
  <1>12. Finishing'
    BY <1>1, <1>2, <1>5, FinishingKept DEF Ops
  <1>13. Silent'
    <2>1. registered => \A u \in Threads : Hushed(todo'[u], silenced')
      BY <1>1, <1>2, <1>3, HushGoes
    <2> QED
      BY <1>1, <1>2, <2>1, SilentKept DEF Silent
  <1> QED
    BY <1>6, <1>7, <1>8, <1>9, <1>10, <1>11, <1>12, <1>13 DEF AudioInv

LEMMA ProvisionKeeps == ASSUME AudioInv, NEW t \in Threads, Provision(t) PROVE AudioInv'
  <1> USE DEF call, livekit, lists, active, conns, recorder, flow
  <1>1. /\ todo[t] # <<>> /\ Head(todo[t]).op = "provision" /\ Goes(t, <<>>)
        /\ room' = "open" /\ hooked' = TRUE /\ hub' = None
        /\ UNCHANGED <<plan, state, mu, codec, capture, registered, listed, bridge, wsBridge,
                        opus, conn, codecOf, silenced, due, raised, taping, taped, finishing,
                        delivered, fed, media, heard, crashed>>
    BY DEF Provision, At, On
  <1>2. AudioTypes /\ Frame /\ Scripts /\ Locking /\ Owned /\ Ending /\ Finishing /\ Silent
    BY DEF AudioInv
  <1>3. ChoreIsDone(t, "provision")
    BY <1>1, <1>2, ChoreDone
  <1>4. AudioTypes'
    BY <1>1, <1>2, <1>3 DEF AudioTypes, ChoreIsDone
  <1>5. Frame'
    BY <1>1, <1>2 DEF Frame
  <1>6. Locking'
    BY <1>1, <1>2, <1>3, LockingKept DEF Ops, ChoreIsDone
  <1>7. Owned'
    BY <1>1, <1>2, <1>3, OwnedKept DEF ChoreIsDone
  <1>8. Ending'
    BY <1>1, <1>2, <1>3 DEF Ending, Locking, Ops, ChoreIsDone
  <1>9. Finishing'
    BY <1>1, <1>2, <1>3, FinishingKept DEF Ops, ChoreIsDone
  <1>10. Silent'
    <2>1. registered => \A u \in Threads : Hushed(todo'[u], silenced')
      BY <1>1, <1>2, HushDone
    <2> QED
      BY <1>1, <1>2, <2>1, SilentKept DEF Silent
  <1> QED
    BY <1>4, <1>5, <1>3, <1>6, <1>7, <1>8, <1>9, <1>10 DEF AudioInv, ChoreIsDone

LEMMA DetachCallKeeps == ASSUME AudioInv, NEW t \in Threads, DetachCall(t) PROVE AudioInv'
  <1> USE DEF call, livekit, lists, active, conns, recorder, flow
  <1>1. /\ todo[t] # <<>> /\ Head(todo[t]).op = "detach" /\ Goes(t, <<>>)
        /\ room' = IF room = "open" THEN "closed" ELSE room
        /\ UNCHANGED <<plan, state, mu, codec, capture, hub, hooked, registered, listed, bridge,
                        wsBridge, opus, conn, codecOf, silenced, due, raised, taping, taped,
                        finishing, delivered, fed, media, heard, crashed>>
    BY DEF DetachCall, At, On, StopSession
  <1>2. AudioTypes /\ Frame /\ Scripts /\ Locking /\ Owned /\ Ending /\ Finishing /\ Silent
    BY DEF AudioInv
  <1>3. ChoreIsDone(t, "detach")
    BY <1>1, <1>2, ChoreDone
  <1>4. AudioTypes'
    BY <1>1, <1>2, <1>3 DEF AudioTypes, ChoreIsDone
  <1>5. Frame'
    BY <1>1, <1>2 DEF Frame
  <1>6. Locking'
    BY <1>1, <1>2, <1>3, LockingKept DEF Ops, ChoreIsDone
  <1>7. Owned'
    BY <1>1, <1>2, <1>3, OwnedKept DEF ChoreIsDone
  <1>8. Ending'
    BY <1>1, <1>2, <1>3 DEF Ending, Ops, ChoreIsDone
  <1>9. Finishing'
    BY <1>1, <1>2, <1>3, FinishingKept DEF Ops, ChoreIsDone
  <1>10. Silent'
    <2>1. registered => \A u \in Threads : Hushed(todo'[u], silenced')
      BY <1>1, <1>2, HushDone
    <2> QED
      BY <1>1, <1>2, <2>1, SilentKept DEF Silent
  <1> QED
    BY <1>4, <1>5, <1>3, <1>6, <1>7, <1>8, <1>9, <1>10 DEF AudioInv, ChoreIsDone

LEMMA UnlockKeeps == ASSUME AudioInv, NEW t \in Threads, Unlock(t) PROVE AudioInv'
  <1> USE DEF call, livekit, lists, active, conns, recorder, flow
  <1>1. /\ todo[t] # <<>> /\ Head(todo[t]).op = "unlock" /\ Goes(t, <<>>)
        /\ mu' = None
        /\ UNCHANGED <<plan, state, codec, capture, room, hub, hooked, registered, listed,
                        bridge, wsBridge, opus, conn, codecOf, silenced, due, raised, taping, taped,
                        finishing, delivered, fed, media, heard, crashed>>
    BY DEF Unlock, At, On
  <1>2. AudioTypes /\ Frame /\ Scripts /\ Locking /\ Owned /\ Ending /\ Finishing /\ Silent
    BY DEF AudioInv
  <1>3. ChoreIsDone(t, "unlock")
    BY <1>1, <1>2, ChoreDone
  <1>4. AudioTypes'
    BY <1>1, <1>2, <1>3 DEF AudioTypes, ChoreIsDone
  <1>5. Frame'
    BY <1>1, <1>2 DEF Frame
  <1>6. Locking'
    <2>1. mu = t
      BY <1>2, <1>3 DEF Locking, ChoreIsDone
    <2>2. \A x \in Items(t)' : x.op \notin {"unlock", "attach", "provision"}
      BY <1>1, <1>2, <1>3 DEF Precedes, ChoreIsDone
    <2>3. \A op \in {"unlock", "attach", "provision"} : ~Awaits(t, op)'
      BY <2>2 DEF Awaits
    <2>4. \A u \in Threads, op \in {"unlock", "attach", "provision"} : u # t => ~Awaits(u, op)
      BY <1>2, <2>1 DEF Locking
    <2>5. \A u \in Threads, op \in {"unlock", "attach", "provision"} : ~Awaits(u, op)'
      BY <1>3, <2>3, <2>4 DEF Ops, ChoreIsDone
    <2> QED
      BY <2>5 DEF Locking
  <1>7. Owned'
    BY <1>1, <1>2, <1>3, OwnedKept DEF ChoreIsDone
  <1>8. Ending'
    BY <1>1, <1>2, <1>3, EndingKept DEF Ops, ChoreIsDone
  <1>9. Finishing'
    BY <1>1, <1>2, <1>3, FinishingKept DEF Ops, ChoreIsDone
  <1>10. Silent'
    <2>1. registered => \A u \in Threads : Hushed(todo'[u], silenced')
      BY <1>1, <1>2, HushDone
    <2> QED
      BY <1>1, <1>2, <2>1, SilentKept DEF Silent
  <1> QED
    BY <1>4, <1>5, <1>3, <1>6, <1>7, <1>8, <1>9, <1>10 DEF AudioInv, ChoreIsDone

LEMMA UnlistKeeps == ASSUME AudioInv, NEW t \in Threads, Unlist(t) PROVE AudioInv'
  <1> USE DEF call, livekit, lists, active, conns, recorder, flow
  <1>1. /\ todo[t] # <<>> /\ Head(todo[t]).op = "unlist" /\ Goes(t, <<>>)
        /\ listed' = FALSE
        /\ UNCHANGED <<plan, state, mu, codec, capture, room, hub, hooked, registered, bridge,
                        wsBridge, opus, conn, codecOf, silenced, due, raised, taping, taped,
                        finishing, delivered, fed, media, heard, crashed>>
    BY DEF Unlist, At, On
  <1>2. AudioTypes /\ Frame /\ Scripts /\ Locking /\ Owned /\ Ending /\ Finishing /\ Silent
    BY DEF AudioInv
  <1>3. ChoreIsDone(t, "unlist")
    BY <1>1, <1>2, ChoreDone
  <1>4. AudioTypes'
    <2>1. listed' \in BOOLEAN
      BY <1>1
    <2> QED
      BY <1>1, <1>2, <1>3, <2>1 DEF AudioTypes, ChoreIsDone
  <1>5. Frame'
    BY <1>1, <1>2 DEF Frame
  <1>6. Locking'
    BY <1>1, <1>2, <1>3, LockingKept DEF Ops, ChoreIsDone
  <1>7. Owned'
    BY <1>1, <1>2, <1>3, OwnedKept DEF ChoreIsDone
  <1>8. Ending'
    BY <1>1, <1>2, <1>3, EndingKept DEF Ops, ChoreIsDone
  <1>9. Finishing'
    BY <1>1, <1>2, <1>3, FinishingKept DEF Ops, ChoreIsDone
  <1>10. Silent'
    <2>1. registered => \A u \in Threads : Hushed(todo'[u], silenced')
      BY <1>1, <1>2, HushDone
    <2> QED
      BY <1>1, <1>2, <2>1, SilentKept DEF Silent
  <1> QED
    BY <1>4, <1>5, <1>3, <1>6, <1>7, <1>8, <1>9, <1>10 DEF AudioInv, ChoreIsDone

LEMMA FinalizeKeeps == ASSUME AudioInv, NEW t \in Threads, Finalize(t) PROVE AudioInv'
  <1> USE DEF call, livekit, lists, active, conns, recorder, flow
  <1>1. /\ todo[t] # <<>> /\ Head(todo[t]).op = "finalize" /\ Goes(t, <<>>)
        /\ finishing' = Append(finishing, listed)
        /\ UNCHANGED <<plan, state, mu, codec, capture, room, hub, hooked, registered, listed,
                        bridge, wsBridge, opus, conn, codecOf, silenced, due, raised, taping, taped,
                        delivered, fed, media, heard, crashed>>
    BY DEF Finalize, At, On
  <1>2. AudioTypes /\ Frame /\ Scripts /\ Locking /\ Owned /\ Ending /\ Finishing /\ Silent
    BY DEF AudioInv
  <1>3. ChoreIsDone(t, "finalize")
    BY <1>1, <1>2, ChoreDone
  <1>4. AudioTypes'
    BY <1>1, <1>2, <1>3 DEF AudioTypes, ChoreIsDone
  <1>5. Frame'
    BY <1>1, <1>2 DEF Frame
  <1>6. Locking'
    BY <1>1, <1>2, <1>3, LockingKept DEF Ops, ChoreIsDone
  <1>7. Owned'
    BY <1>1, <1>2, <1>3, OwnedKept DEF ChoreIsDone
  <1>8. Ending'
    BY <1>1, <1>2, <1>3, EndingKept DEF Ops, ChoreIsDone
  <1>9. Finishing'
    <2>1. \A x \in Items(t)' : x.op # "finalize"
      BY <1>1, <1>2, <1>3 DEF Precedes, ChoreIsDone
    <2>2. ~Awaits(t, "finalize")'
      BY <2>1 DEF Awaits
    <2>3. \A u \in Threads : ~Awaits(u, "finalize")'
      BY <1>2, <1>3, <2>2 DEF Finishing, Ops, ChoreIsDone
    <2>4. ~registered /\ taping /\ finishing = <<>> /\ delivered = <<>>
      BY <1>2, <1>3 DEF Finishing, ChoreIsDone
    <2>5. Len(finishing') = 1
      BY <1>1, <1>2, <2>4 DEF AudioTypes
    <2> QED
      BY <1>1, <2>3, <2>4, <2>5 DEF Finishing
  <1>10. Silent'
    <2>1. registered => \A u \in Threads : Hushed(todo'[u], silenced')
      BY <1>1, <1>2, HushDone
    <2> QED
      BY <1>1, <1>2, <2>1, SilentKept DEF Silent
  <1> QED
    BY <1>4, <1>5, <1>3, <1>6, <1>7, <1>8, <1>9, <1>10 DEF AudioInv, ChoreIsDone

LEMMA CloseManagerCodecKeeps == ASSUME AudioInv, NEW t \in Threads, CloseManagerCodec(t) PROVE AudioInv'
  <1> USE DEF call, livekit, lists, active, conns, recorder, flow
  <1>1. /\ todo[t] # <<>> /\ Head(todo[t]).op = "closeManagerCodec" /\ Goes(t, <<>>)
        /\ codec' = "closed"
        /\ UNCHANGED <<plan, state, mu, capture, room, hub, hooked, registered, listed, bridge,
                        wsBridge, opus, conn, codecOf, silenced, due, raised, taping, taped,
                        finishing, delivered, fed, media, heard, crashed>>
    BY DEF CloseManagerCodec, At, On
  <1>2. AudioTypes /\ Frame /\ Scripts /\ Locking /\ Owned /\ Ending /\ Finishing /\ Silent
    BY DEF AudioInv
  <1>3. ChoreIsDone(t, "closeManagerCodec")
    BY <1>1, <1>2, ChoreDone
  <1>4. AudioTypes'
    BY <1>1, <1>2, <1>3 DEF AudioTypes, ChoreIsDone
  <1>5. Frame'
    BY <1>1, <1>2 DEF Frame
  <1>6. Locking'
    BY <1>1, <1>2, <1>3, LockingKept DEF Ops, ChoreIsDone
  <1>7. Owned'
    BY <1>1, <1>2, <1>3, OwnedKept DEF ChoreIsDone
  <1>8. Ending'
    BY <1>1, <1>2, <1>3 DEF Ending, Ops, ChoreIsDone
  <1>9. Finishing'
    BY <1>1, <1>2, <1>3, FinishingKept DEF Ops, ChoreIsDone
  <1>10. Silent'
    <2>1. registered => \A u \in Threads : Hushed(todo'[u], silenced')
      BY <1>1, <1>2, HushDone
    <2> QED
      BY <1>1, <1>2, <2>1, SilentKept DEF Silent
  <1> QED
    BY <1>4, <1>5, <1>3, <1>6, <1>7, <1>8, <1>9, <1>10 DEF AudioInv, ChoreIsDone

\* What was asked for needs not be done any more.
LEMMA PassKeeps ==
    ASSUME AudioInv, NEW t \in Threads, todo[t] # <<>>, Goes(t, <<>>),
           Head(todo[t]).op \in {"activate", "end", "remove", "drain"},
           UNCHANGED <<plan, call, lists, active, conns, recorder, flow>>
    PROVE  AudioInv'
  <1> USE DEF call, livekit, lists, active, conns, recorder, flow
  <1>1. AudioTypes /\ Frame /\ Scripts /\ Locking /\ Owned /\ Ending /\ Finishing /\ Silent
    BY DEF AudioInv
  <1>2. <<>> \in Seq(Chores) /\ Elements(<<>>) = {} /\ Ordered(<<>>) /\ \A done : Hushed(<<>>, done)
    BY SmallScripts
  <1>3. todo' \in [Threads -> Seq(Chores)]
    BY <1>1, <1>2, ThreadGoes
  <1>4. /\ \A u \in Threads, op \in Ops : Awaits(u, op)' => Awaits(u, op)
        /\ \A u \in Threads, op \in Ops :
               Awaits(u, op) => Awaits(u, op)' \/ op \in {"activate", "end", "remove", "drain"}
        /\ \A u \in Threads : \A x \in Items(u) :
               x.op \notin {"activate", "end", "remove", "drain"} => x \in Items(u)'
        /\ \A b \in Bridges : todo[b] = Setting => todo'[b] = Setting
    <2>1. /\ \A u \in Threads, op \in Ops :
                 Awaits(u, op)' => Awaits(u, op) \/ (u = t /\ \E x \in Elements(<<>>) : x.op = op)
          /\ \A u \in Threads, op \in Ops :
                 Awaits(u, op) => Awaits(u, op)' \/ (u = t /\ op = Head(todo[t]).op)
          /\ \A u \in Threads : \A x \in Items(u) : x.op # Head(todo[t]).op => x \in Items(u)'
          /\ \A b \in Bridges : todo[b] = Setting /\ Head(todo[t]).op # "set" => todo'[b] = Setting
      BY <1>1, <1>2, ChoresGo
    <2> QED
      BY <1>2, <2>1
  <1>5. AudioTypes'
    BY <1>1, <1>3 DEF AudioTypes
  <1>6. Frame'
    BY <1>1 DEF Frame
  <1>7. Scripts'
    BY <1>1, <1>2, ScriptsGo
  <1>8. Locking'
    BY <1>1, <1>4, LockingKept DEF Ops
  <1>9. Owned'
    BY <1>1, <1>4, OwnedKept
  <1>10. Ending'
    BY <1>1, <1>4, EndingKept DEF Ops
  <1>11. Finishing'
    BY <1>1, <1>4, FinishingKept DEF Ops
  <1>12. Silent'
    <2>1. registered => \A u \in Threads : Hushed(todo'[u], silenced')
      BY <1>1, <1>2, HushGoes
    <2> QED
      BY <1>1, <2>1, SilentKept DEF Silent
  <1> QED
    BY <1>5, <1>6, <1>7, <1>8, <1>9, <1>10, <1>11, <1>12 DEF AudioInv

LEMMA TakeCodecKeeps == ASSUME AudioInv, NEW t \in Threads, TakeCodec(t) PROVE AudioInv'
  <1> USE DEF call, livekit, lists, active, conns, recorder, flow
  <1> DEFINE more == IF codec = "open" THEN Do("closeManagerCodec") ELSE <<>>
  <1>1. /\ todo[t] # <<>> /\ Head(todo[t]).op = "takeCodec" /\ Goes(t, more)
        /\ codec' = IF codec = "open" THEN "taken" ELSE codec
        /\ capture' = FALSE
        /\ UNCHANGED <<plan, state, mu, room, hub, hooked, registered, listed, bridge, wsBridge, opus,
                       conn, codecOf, silenced, due, raised, taping, taped, finishing, delivered, fed,
                       media, heard, crashed>>
    BY DEF TakeCodec, At
  <1>2. AudioTypes /\ Frame /\ Scripts /\ Locking /\ Owned /\ Ending /\ Finishing /\ Silent
    BY DEF AudioInv
  <1>3. /\ more \in Seq(Chores) /\ Ordered(more) /\ \A done : Hushed(more, done)
        /\ Elements(more) = IF codec = "open" THEN {Item("closeManagerCodec", None)} ELSE {}
    BY SmallScripts DEF Ops
  <1> HIDE DEF more
  <1>4. todo' \in [Threads -> Seq(Chores)]
    BY <1>1, <1>2, <1>3, ThreadGoes
  <1>5. /\ \A u \in Threads, op \in Ops :
               Awaits(u, op)' => Awaits(u, op) \/ (op = "closeManagerCodec" /\ codec = "open")
        /\ \A u \in Threads, op \in Ops : Awaits(u, op) => Awaits(u, op)' \/ op = "takeCodec"
        /\ \A u \in Threads : \A x \in Items(u) : x.op # "takeCodec" => x \in Items(u)'
        /\ \A b \in Bridges : todo[b] = Setting => todo'[b] = Setting
        /\ codec = "open" => Awaits(t, "closeManagerCodec")'
    <2>1. /\ \A u \in Threads, op \in Ops :
                 Awaits(u, op)' => Awaits(u, op) \/ (u = t /\ \E x \in Elements(more) : x.op = op)
          /\ \A u \in Threads, op \in Ops :
                 Awaits(u, op) => Awaits(u, op)' \/ (u = t /\ op = Head(todo[t]).op)
          /\ \A u \in Threads : \A x \in Items(u) : x.op # Head(todo[t]).op => x \in Items(u)'
          /\ \A b \in Bridges : todo[b] = Setting /\ Head(todo[t]).op # "set" => todo'[b] = Setting
      BY <1>1, <1>2, <1>3, ChoresGo
    <2>2. Elements(more) \subseteq Items(t)'
      BY <1>1, <1>2, <1>3, ThreadGoes
    <2>3. codec = "open" => Awaits(t, "closeManagerCodec")'
      BY <1>3, <2>2 DEF Awaits, Item
    <2>4. \A x \in Elements(more) : x.op = "closeManagerCodec" /\ codec = "open"
      BY <1>3 DEF Item
    <2> QED
      BY <1>1, <2>1, <2>3, <2>4
  <1>6. AudioTypes'
    <2>1. capture' \in BOOLEAN
      BY <1>1
    <2> QED
      BY <1>1, <1>2, <1>4, <2>1 DEF AudioTypes
  <1>7. Frame'
    BY <1>1, <1>2 DEF Frame
  <1>8. Scripts'
    BY <1>1, <1>2, <1>3, ScriptsGo DEF Item, Precedes
  <1>9. Locking'
    BY <1>1, <1>2, <1>5, LockingKept DEF Ops
  <1>10. Owned'
    BY <1>1, <1>2, <1>5, OwnedKept
  <1>11. Ending'
    BY <1>1, <1>2, <1>5 DEF Ending, Ops
  <1>12. Finishing'
    BY <1>1, <1>2, <1>5, FinishingKept DEF Ops
  <1>13. Silent'
    <2>1. registered => \A u \in Threads : Hushed(todo'[u], silenced')
      BY <1>1, <1>2, <1>3, HushGoes
    <2> QED
      BY <1>1, <1>2, <2>1, SilentKept DEF Silent
  <1> QED
    BY <1>6, <1>7, <1>8, <1>9, <1>10, <1>11, <1>12, <1>13 DEF AudioInv

\* onRelayConnected finds the lock free, so that nobody else will let it go.
LEMMA ActivateKeeps == ASSUME AudioInv, NEW t \in Threads, Activate(t) PROVE AudioInv'
  <1> USE DEF call, livekit, lists, active, conns, recorder, flow
  <1> DEFINE more == Do("attach") \o Do("unlock")
  <1>1. CASE state # "ringing"
    BY <1>1, PassKeeps DEF Activate, At
  <1>2. CASE state = "ringing"
    <2>1. /\ todo[t] # <<>> /\ Head(todo[t]).op = "activate" /\ Goes(t, more)
          /\ mu = None /\ state' = "active" /\ mu' = t
          /\ UNCHANGED <<plan, codec, capture, room, hub, hooked, registered, listed, bridge, wsBridge,
                         opus, conn, codecOf, silenced, due, raised, taping, taped, finishing,
                         delivered, fed, media, heard, crashed>>
      BY <1>2 DEF Activate, At
    <2>2. AudioTypes /\ Frame /\ Scripts /\ Locking /\ Owned /\ Ending /\ Finishing /\ Silent
      BY DEF AudioInv
    <2>3. /\ Do("attach") \in Seq(Chores) /\ Elements(Do("attach")) = {Item("attach", None)}
          /\ Do("unlock") \in Seq(Chores) /\ Elements(Do("unlock")) = {Item("unlock", None)}
          /\ Ordered(Do("attach")) /\ Ordered(Do("unlock"))
          /\ \A done : Hushed(Do("attach"), done) /\ Hushed(Do("unlock"), done)
      BY SmallScripts DEF Ops
    <2>4. /\ more \in Seq(Chores) /\ Elements(more) = {Item("attach", None), Item("unlock", None)}
          /\ \A done : Hushed(more, done)
      BY <2>3, ElementsAppended, HushedAppended
    <2>5. Ordered(more)
      BY <2>3, OrderedAppended DEF Precedes, Item
    <2> HIDE DEF more
    <2>6. todo' \in [Threads -> Seq(Chores)]
      BY <2>1, <2>2, <2>4, ThreadGoes
    <2>7. /\ \A u \in Threads, op \in Ops :
                 Awaits(u, op)' => Awaits(u, op) \/ (u = t /\ op \in {"attach", "unlock"})
          /\ \A u \in Threads, op \in Ops : Awaits(u, op) => Awaits(u, op)' \/ op = "activate"
          /\ \A u \in Threads : \A x \in Items(u) : x.op # "activate" => x \in Items(u)'
          /\ \A b \in Bridges : todo[b] = Setting => todo'[b] = Setting
      <3>1. /\ \A u \in Threads, op \in Ops :
                   Awaits(u, op)' => Awaits(u, op) \/ (u = t /\ \E x \in Elements(more) : x.op = op)
            /\ \A u \in Threads, op \in Ops :
                   Awaits(u, op) => Awaits(u, op)' \/ (u = t /\ op = Head(todo[t]).op)
            /\ \A u \in Threads : \A x \in Items(u) : x.op # Head(todo[t]).op => x \in Items(u)'
            /\ \A b \in Bridges : todo[b] = Setting /\ Head(todo[t]).op # "set" => todo'[b] = Setting
        BY <2>1, <2>2, <2>4, ChoresGo
      <3>2. \A x \in Elements(more) : x.op \in {"attach", "unlock"}
        BY <2>4 DEF Item
      <3> QED
        BY <2>1, <3>1, <3>2
    <2>8. \A u \in Threads : /\ ~Awaits(u, "unlock")
                             /\ ~Awaits(u, "attach") /\ ~Awaits(u, "provision")
      BY <2>1, <2>2, AudioAssumption DEF Locking
    <2>9. AudioTypes'
      BY <2>1, <2>2, <2>6 DEF AudioTypes
    <2>10. Frame'
      BY <2>1, <2>2 DEF Frame
    <2>11. Scripts'
      <3>1. Elements(Tail(todo[t])) \subseteq Items(t)
        BY <2>1, <2>2, <2>4, ThreadGoes
      <3>2. \A y \in Elements(Tail(todo[t])) : y.op \notin {"unlock", "attach", "provision"}
        BY <2>8, <3>1 DEF Awaits
      <3> QED
        BY <2>1, <2>2, <2>4, <2>5, <3>2, ScriptsGo DEF Item, Precedes
    <2>12. Locking'
      BY <2>1, <2>7, <2>8 DEF Locking, Ops
    <2>13. Owned'
      BY <2>1, <2>2, <2>7, OwnedKept
    <2>14. Ending'
      BY <2>1, <2>2, <2>7, EndingKept DEF Ops
    <2>15. Finishing'
      BY <2>1, <2>2, <2>7, FinishingKept DEF Ops
    <2>16. Silent'
      <3>1. registered => \A u \in Threads : Hushed(todo'[u], silenced')
        BY <2>1, <2>2, <2>4, HushGoes
      <3> QED
        BY <2>1, <2>2, <3>1, SilentKept DEF Silent
    <2> QED
      BY <2>9, <2>10, <2>11, <2>12, <2>13, <2>14, <2>15, <2>16 DEF AudioInv
  <1> QED
    BY <1>1, <1>2

LEMMA ScriptsJoin ==
    ASSUME NEW s \in Seq(Chores), NEW q \in Seq(Chores), Ordered(s), Ordered(q),
           \A done : Hushed(s, done), \A done : Hushed(q, done),
           \A x \in Elements(s), y \in Elements(q) : Precedes(x, y)
    PROVE  /\ s \o q \in Seq(Chores) /\ Ordered(s \o q)
           /\ Elements(s \o q) = Elements(s) \cup Elements(q)
           /\ \A done : Hushed(s \o q, done)
  BY ElementsAppended, OrderedAppended, HushedAppended

LEMMA EndScript ==
    /\ Ended \o AfterEnd \in Seq(Chores) /\ Ordered(Ended \o AfterEnd)
    /\ Elements(Ended \o AfterEnd) = {Item("detach", None), Item("remove", None),
           Item("unlist", None), Item("unlock", None), Item("takeCodec", None)}
    /\ \A done : Hushed(Ended \o AfterEnd, done)
  <1>1. \A op \in {"detach", "remove", "unlist", "unlock", "takeCodec"} :
            /\ Do(op) \in Seq(Chores) /\ Elements(Do(op)) = {Item(op, None)} /\ Ordered(Do(op))
            /\ \A done : Hushed(Do(op), done)
    BY SmallScripts DEF Ops
  <1>2. \A x, y : /\ x.op \in {"detach", "remove", "unlist", "takeCodec"} => Precedes(x, y)
                  /\ x.op = "unlock" /\ y.op \in {"detach", "remove", "unlist", "takeCodec"} => Precedes(x, y)
    BY DEF Precedes
  <1>3. \A op \in {"detach", "remove", "unlist", "unlock", "takeCodec"} : Item(op, None).op = op
    BY DEF Item
  <1> DEFINE begun == Do("detach") \o Do("remove")
  <1>4. /\ begun \in Seq(Chores) /\ Elements(begun) = {Item("detach", None), Item("remove", None)}
        /\ Ordered(begun) /\ \A done : Hushed(begun, done)
    <2>1. \A x \in Elements(Do("detach")), y \in Elements(Do("remove")) : Precedes(x, y)
      BY <1>1, <1>2, <1>3
    <2>2. /\ begun \in Seq(Chores) /\ Ordered(begun) /\ \A done : Hushed(begun, done)
          /\ Elements(begun) = Elements(Do("detach")) \cup Elements(Do("remove"))
      BY <1>1, <2>1, ScriptsJoin
    <2> QED
      BY <1>1, <2>2
  <1>5. Ended = begun \o Do("unlist")
    BY DEF Ended
  <1> HIDE DEF begun
  <1>6. /\ Ended \in Seq(Chores) /\ Ordered(Ended) /\ \A done : Hushed(Ended, done)
        /\ Elements(Ended) = {Item("detach", None), Item("remove", None), Item("unlist", None)}
    <2>1. \A x \in Elements(begun), y \in Elements(Do("unlist")) : Precedes(x, y)
      BY <1>2, <1>3, <1>4
    <2>2. /\ Ended \in Seq(Chores) /\ Ordered(Ended) /\ \A done : Hushed(Ended, done)
          /\ Elements(Ended) = Elements(begun) \cup Elements(Do("unlist"))
      BY <1>1, <1>4, <1>5, <2>1, ScriptsJoin
    <2> QED
      BY <1>1, <1>4, <2>2
  <1> DEFINE last == Do("unlock") \o Ended
  <1>7. /\ last \in Seq(Chores) /\ Elements(last) = {Item("unlock", None)} \cup Elements(Ended)
        /\ Ordered(last) /\ \A done : Hushed(last, done)
    <2>1. \A x \in Elements(Do("unlock")), y \in Elements(Ended) : Precedes(x, y)
      BY <1>1, <1>2, <1>3, <1>6
    <2>2. /\ last \in Seq(Chores) /\ Ordered(last) /\ \A done : Hushed(last, done)
          /\ Elements(last) = Elements(Do("unlock")) \cup Elements(Ended)
      BY <1>1, <1>6, <2>1, ScriptsJoin
    <2> QED
      BY <1>1, <2>2
  <1>8. AfterEnd = last \o Do("takeCodec")
    BY DEF AfterEnd
  <1> HIDE DEF last
  <1>9. /\ AfterEnd \in Seq(Chores) /\ Ordered(AfterEnd) /\ \A done : Hushed(AfterEnd, done)
        /\ Elements(AfterEnd) = Elements(last) \cup {Item("takeCodec", None)}
    <2>1. \A x \in Elements(last), y \in Elements(Do("takeCodec")) : Precedes(x, y)
      BY <1>1, <1>2, <1>3, <1>6, <1>7
    <2>2. /\ AfterEnd \in Seq(Chores) /\ Ordered(AfterEnd) /\ \A done : Hushed(AfterEnd, done)
          /\ Elements(AfterEnd) = Elements(last) \cup Elements(Do("takeCodec"))
      BY <1>1, <1>7, <1>8, <2>1, ScriptsJoin
    <2> QED
      BY <1>1, <2>2
  <1>10. \A x \in Elements(Ended), y \in Elements(AfterEnd) : Precedes(x, y)
    BY <1>2, <1>3, <1>6
  <1>11. /\ Ended \o AfterEnd \in Seq(Chores) /\ Ordered(Ended \o AfterEnd)
         /\ \A done : Hushed(Ended \o AfterEnd, done)
         /\ Elements(Ended \o AfterEnd) = Elements(Ended) \cup Elements(AfterEnd)
    BY <1>6, <1>9, <1>10, ScriptsJoin
  <1> QED
    BY <1>6, <1>7, <1>9, <1>11

LEMMA EndKeeps == ASSUME AudioInv, NEW t \in Threads, End(t) PROVE AudioInv'
  <1> USE DEF call, livekit, lists, active, conns, recorder, flow
  <1> DEFINE more == Ended \o AfterEnd
  <1>1. CASE state = "ended" /\ ~(t \in Enders /\ plan.task[t] = "peer")
    BY <1>1, PassKeeps DEF End, At
  <1>2. CASE ~(state = "ended" /\ ~(t \in Enders /\ plan.task[t] = "peer"))
    <2>1. /\ todo[t] # <<>> /\ Head(todo[t]).op = "end" /\ Goes(t, more)
          /\ mu = None /\ state' = "ended" /\ mu' = t
          /\ UNCHANGED <<plan, codec, capture, room, hub, hooked, registered, listed, bridge, wsBridge,
                         opus, conn, codecOf, silenced, due, raised, taping, taped, finishing,
                         delivered, fed, media, heard, crashed>>
      BY <1>2 DEF End, At
    <2>2. AudioTypes /\ Frame /\ Scripts /\ Locking /\ Owned /\ Ending /\ Finishing /\ Silent
      BY DEF AudioInv
    <2>3. /\ more \in Seq(Chores) /\ Ordered(more) /\ \A done : Hushed(more, done)
          /\ Elements(more) = {Item("detach", None), Item("remove", None),
                 Item("unlist", None), Item("unlock", None), Item("takeCodec", None)}
      BY EndScript
    <2> HIDE DEF more
    <2>4. todo' \in [Threads -> Seq(Chores)]
      BY <2>1, <2>2, <2>3, ThreadGoes
    <2>5. /\ \A u \in Threads, op \in Ops :
                 Awaits(u, op)' => \/ Awaits(u, op)
                                   \/ u = t /\ op \in {"detach", "remove", "unlist", "unlock", "takeCodec"}
          /\ \A u \in Threads, op \in Ops : Awaits(u, op) => Awaits(u, op)' \/ op = "end"
          /\ \A u \in Threads : \A x \in Items(u) : x.op # "end" => x \in Items(u)'
          /\ \A b \in Bridges : todo[b] = Setting => todo'[b] = Setting
          /\ Awaits(t, "takeCodec")' /\ Awaits(t, "detach")'
      <3>1. /\ \A u \in Threads, op \in Ops :
                   Awaits(u, op)' => Awaits(u, op) \/ (u = t /\ \E x \in Elements(more) : x.op = op)
            /\ \A u \in Threads, op \in Ops :
                   Awaits(u, op) => Awaits(u, op)' \/ (u = t /\ op = Head(todo[t]).op)
            /\ \A u \in Threads : \A x \in Items(u) : x.op # Head(todo[t]).op => x \in Items(u)'
            /\ \A b \in Bridges : todo[b] = Setting /\ Head(todo[t]).op # "set" => todo'[b] = Setting
        BY <2>1, <2>2, <2>3, ChoresGo
      <3>2. \A x \in Elements(more) : x.op \in {"detach", "remove", "unlist", "unlock", "takeCodec"}
        BY <2>3 DEF Item
      <3>3. Item("takeCodec", None) \in Items(t)' /\ Item("detach", None) \in Items(t)'
        BY <2>1, <2>2, <2>3, ThreadGoes
      <3>4. Awaits(t, "takeCodec")' /\ Awaits(t, "detach")'
        BY <3>3 DEF Awaits, Item
      <3> QED
        BY <2>1, <3>1, <3>2, <3>4
    <2>6. \A u \in Threads : /\ ~Awaits(u, "unlock")
                             /\ ~Awaits(u, "attach") /\ ~Awaits(u, "provision")
      BY <2>1, <2>2, AudioAssumption DEF Locking
    <2>7. AudioTypes'
      BY <2>1, <2>2, <2>4 DEF AudioTypes
    <2>8. Frame'
      BY <2>1, <2>2 DEF Frame
    <2>9. Scripts'
      <3>1. Elements(Tail(todo[t])) \subseteq Items(t)
        BY <2>1, <2>2, <2>3, ThreadGoes
      <3>2. \A y \in Elements(Tail(todo[t])) : y.op \notin {"unlock", "attach", "provision"}
        BY <2>6, <3>1 DEF Awaits
      <3>3. \A x \in Elements(more), y \in Elements(Tail(todo[t])) : Precedes(x, y)
        BY <2>3, <3>2 DEF Item, Precedes
      <3>4. \A x \in Elements(more) : x.op \notin {"lookup", "make", "set"}
        BY <2>3 DEF Item
      <3> QED
        BY <2>1, <2>2, <2>3, <3>3, <3>4, ScriptsGo
    <2>10. Locking'
      BY <2>1, <2>5, <2>6 DEF Locking, Ops
    <2>11. Owned'
      BY <2>1, <2>2, <2>5, OwnedKept
    <2>12. Ending'
      BY <2>1, <2>2, <2>5 DEF Ending, Ops
    <2>13. Finishing'
      BY <2>1, <2>2, <2>5, FinishingKept DEF Ops
    <2>14. Silent'
      <3>1. registered => \A u \in Threads : Hushed(todo'[u], silenced')
        BY <2>1, <2>2, <2>3, HushGoes
      <3> QED
        BY <2>1, <2>2, <3>1, SilentKept DEF Silent
    <2> QED
      BY <2>7, <2>8, <2>9, <2>10, <2>11, <2>12, <2>13, <2>14 DEF AudioInv
  <1> QED
    BY <1>1, <1>2

LEMMA ReleaseScript ==
    ASSUME AudioTypes
    PROVE  /\ Release \in Seq(Chores) /\ Ordered(Release)
           /\ \A x \in Elements(Release) :
                  /\ x.op \in {"finalize", "close", "closeCodec"}
                  /\ x.op = "finalize" => plan.recording
           /\ plan.recording => Item("finalize", None) \in Elements(Release)
           /\ bridge # None => Item("close", bridge) \in Elements(Release)
           /\ wsBridge # None => Item("close", wsBridge) \in Elements(Release)
           /\ opus # None => Item("closeCodec", opus) \in Elements(Release)
  <1>1. /\ Record \in Seq(Chores) /\ Ordered(Record)
        /\ Elements(Record) = IF plan.recording THEN {Item("finalize", None)} ELSE {}
    BY SmallScripts DEF Record, Ops
  <1> DEFINE first == With("close", bridge)
             second == With("close", wsBridge)
             third == With("closeCodec", opus)
  <1>2. /\ bridge \in Bridges \cup {None} /\ wsBridge \in Bridges \cup {None}
        /\ opus \in Bridges \cup {None}
    BY DEF AudioTypes
  <1>3. /\ first \in Seq(Chores) /\ Ordered(first)
        /\ Elements(first) = IF bridge = None THEN {} ELSE {Item("close", bridge)}
    BY <1>2, SmallScripts
  <1>4. /\ second \in Seq(Chores) /\ Ordered(second)
        /\ Elements(second) = IF wsBridge = None THEN {} ELSE {Item("close", wsBridge)}
    BY <1>2, SmallScripts
  <1>5. /\ third \in Seq(Chores) /\ Ordered(third)
        /\ Elements(third) = IF opus = None THEN {} ELSE {Item("closeCodec", opus)}
    BY <1>2, SmallScripts
  <1>6. Release = Record \o first \o second \o third
    BY DEF Release
  <1>7. \A x, y : (x.op \in {"finalize", "close", "closeCodec"} /\ y.op \in {"close", "closeCodec"}) => Precedes(x, y)
    BY DEF Precedes
  <1>8. /\ \A x \in Elements(Record) : x.op = "finalize" /\ plan.recording
        /\ \A x \in Elements(first) : x.op = "close"
        /\ \A x \in Elements(second) : x.op = "close"
        /\ \A x \in Elements(third) : x.op = "closeCodec"
    BY <1>1, <1>3, <1>4, <1>5 DEF Item
  <1> HIDE DEF first, second, third
  <1>9. /\ Record \o first \in Seq(Chores)
        /\ Elements(Record \o first) = Elements(Record) \cup Elements(first)
    BY <1>1, <1>3, ElementsAppended
  <1>10. Ordered(Record \o first)
    <2>1. \A x \in Elements(Record), y \in Elements(first) : Precedes(x, y)
      BY <1>7, <1>8
    <2> QED
      BY <1>1, <1>3, <2>1, OrderedAppended
  <1>11. /\ Record \o first \o second \in Seq(Chores)
         /\ Elements(Record \o first \o second) = Elements(Record \o first) \cup Elements(second)
    BY <1>4, <1>9, ElementsAppended
  <1>12. Ordered(Record \o first \o second)
    <2>1. \A x \in Elements(Record \o first), y \in Elements(second) : Precedes(x, y)
      BY <1>7, <1>8, <1>9
    <2> QED
      BY <1>4, <1>9, <1>10, <2>1, OrderedAppended
  <1>13. /\ Release \in Seq(Chores)
         /\ Elements(Release) = Elements(Record \o first \o second) \cup Elements(third)
    BY <1>5, <1>6, <1>11, ElementsAppended
  <1>14. Ordered(Release)
    <2>1. \A x \in Elements(Record \o first \o second), y \in Elements(third) : Precedes(x, y)
      BY <1>7, <1>8, <1>9, <1>11
    <2> QED
      BY <1>5, <1>6, <1>11, <1>12, <2>1, OrderedAppended
  <1>15. Elements(Release) = Elements(Record) \cup Elements(first) \cup Elements(second) \cup Elements(third)
    BY <1>9, <1>11, <1>13
  <1> QED
    BY <1>1, <1>3, <1>4, <1>5, <1>8, <1>13, <1>14, <1>15

\* Whoever takes the call out of the registry releases all of it.
LEMMA ReleaseKeeps ==
    ASSUME AudioInv, registered, NEW t \in Threads, todo[t] # <<>>,
           Head(todo[t]).op \in {"remove", "drain"},
           NEW more \in Seq(Chores), Goes(t, more), Ordered(more),
           \A x \in Elements(more) : /\ x.op \in {"end", "finalize", "close", "closeCodec"}
                                     /\ x.op = "finalize" => plan.recording,
           Elements(Release) \subseteq Elements(more),
           registered' = FALSE, UNCHANGED <<plan, call, listed, active, conns, recorder, flow>>
    PROVE  AudioInv'
  <1> USE DEF call, livekit, active, conns, recorder, flow
  <1>1. AudioTypes /\ Frame /\ Scripts /\ Locking /\ Owned /\ Ending /\ Finishing /\ Silent
    BY DEF AudioInv
  <1>2. /\ plan.recording => Item("finalize", None) \in Elements(more)
        /\ bridge # None => Item("close", bridge) \in Elements(more)
        /\ wsBridge # None => Item("close", wsBridge) \in Elements(more)
        /\ opus # None => Item("closeCodec", opus) \in Elements(more)
    BY <1>1, ReleaseScript
  <1>3. /\ todo' \in [Threads -> Seq(Chores)] /\ Elements(more) \subseteq Items(t)'
        /\ Elements(Tail(todo[t])) \subseteq Items(t)
    BY <1>1, ThreadGoes
  <1>4. /\ \A u \in Threads, op \in Ops :
               Awaits(u, op)' => \/ Awaits(u, op)
                                 \/ /\ u = t /\ op \in {"end", "finalize", "close", "closeCodec"}
                                    /\ op = "finalize" => plan.recording
        /\ \A u \in Threads, op \in Ops : Awaits(u, op) => Awaits(u, op)' \/ op \in {"remove", "drain"}
        /\ \A u \in Threads : \A x \in Items(u) : x.op \notin {"remove", "drain"} => x \in Items(u)'
        /\ \A b \in Bridges : todo[b] = Setting => todo'[b] = Setting
    <2>1. /\ \A u \in Threads, op \in Ops :
                 Awaits(u, op)' => Awaits(u, op) \/ (u = t /\ \E x \in Elements(more) : x.op = op)
          /\ \A u \in Threads, op \in Ops :
                 Awaits(u, op) => Awaits(u, op)' \/ (u = t /\ op = Head(todo[t]).op)
          /\ \A u \in Threads : \A x \in Items(u) : x.op # Head(todo[t]).op => x \in Items(u)'
          /\ \A b \in Bridges : todo[b] = Setting /\ Head(todo[t]).op # "set" => todo'[b] = Setting
      BY <1>1, ChoresGo
    <2> QED
      BY <2>1
  <1>5. AudioTypes'
    <2>1. registered' \in BOOLEAN
      OBVIOUS
    <2> QED
      BY <1>1, <1>3, <2>1 DEF AudioTypes
  <1>6. Frame'
    BY <1>1 DEF Frame
  <1>7. \A u \in Threads : ~Awaits(u, "finalize")
    BY <1>1 DEF Finishing
  <1>8. Scripts'
    <2>1. \A y \in Elements(Tail(todo[t])) : y.op # "finalize"
      BY <1>3, <1>7 DEF Awaits
    <2>2. \A x \in Elements(more), y \in Elements(Tail(todo[t])) : Precedes(x, y)
      BY <2>1 DEF Precedes
    <2> QED
      BY <1>1, <2>2, ScriptsGo
  <1>9. Locking'
    BY <1>1, <1>4, LockingKept DEF Ops
  <1>10. Owned'
    <2>1. ASSUME NEW b \in Bridges, conn[b] \in {"open", "failed"} PROVE Closing("close", b)'
      <3>1. CASE todo[b] = Setting
        BY <1>4, <3>1 DEF Closing, Setting
      <3>2. CASE \E u \in Threads : Item("close", b) \in Items(u)
        <4>1. PICK u \in Threads : Item("close", b) \in Items(u)
          BY <3>2
        <4>2. Item("close", b) \in Items(u)'
          BY <1>4, <4>1 DEF Item
        <4> QED
          BY <4>2 DEF Closing, Item
      <3>3. CASE b \in {bridge, wsBridge}
        <4>1. b # None
          BY AudioAssumption DEF Threads
        <4>2. Item("close", b) \in Items(t)'
          BY <1>2, <1>3, <3>3, <4>1
        <4> QED
          BY <4>2 DEF Closing, Item
      <3> QED
        BY <1>1, <2>1, <3>1, <3>2, <3>3 DEF Owned, Closing
    <2>2. ASSUME NEW b \in Bridges, codecOf[b] = "open" PROVE Closing("closeCodec", b)'
      <3>1. CASE todo[b] = Setting
        BY <1>4, <3>1 DEF Closing, Setting
      <3>2. CASE \E u \in Threads : Item("closeCodec", b) \in Items(u)
        <4>1. PICK u \in Threads : Item("closeCodec", b) \in Items(u)
          BY <3>2
        <4>2. Item("closeCodec", b) \in Items(u)'
          BY <1>4, <4>1 DEF Item
        <4> QED
          BY <4>2 DEF Closing, Item
      <3>3. CASE opus = b
        <4>1. b # None
          BY AudioAssumption DEF Threads
        <4>2. Item("closeCodec", b) \in Items(t)'
          BY <1>2, <1>3, <3>3, <4>1
        <4> QED
          BY <4>2 DEF Closing, Item
      <3> QED
        BY <1>1, <2>2, <3>1, <3>2, <3>3 DEF Owned, Closing
    <2> QED
      BY <2>1, <2>2 DEF Owned
  <1>11. Ending'
    BY <1>1, <1>4, EndingKept DEF Ops
  <1>12. Finishing'
    <2>1. CASE plan.recording
      <3>1. taping /\ finishing = <<>> /\ delivered = <<>>
        BY <1>1, <1>7, <2>1 DEF Finishing
      <3>2. Item("finalize", None) \in Items(t)'
        BY <1>2, <1>3, <2>1
      <3>3. Awaits(t, "finalize")'
        BY <3>2 DEF Awaits, Item
      <3>4. \A u \in Threads : Awaits(u, "finalize")' => u = t
        BY <1>4, <1>7 DEF Ops
      <3> QED
        BY <2>1, <3>1, <3>3, <3>4 DEF Finishing
    <2>2. CASE ~plan.recording
      <3>1. \A u \in Threads : ~Awaits(u, "finalize")'
        BY <1>4, <1>7, <2>2 DEF Ops
      <3> QED
        BY <2>2, <3>1 DEF Finishing
    <2> QED
      BY <2>1, <2>2
  <1>13. Silent'
    BY <1>1, SilentKept
  <1> QED
    BY <1>5, <1>6, <1>8, <1>9, <1>10, <1>11, <1>12, <1>13 DEF AudioInv

LEMMA RemoveCallKeeps == ASSUME AudioInv, NEW t \in Threads, RemoveCall(t) PROVE AudioInv'
  <1>1. CASE registered
    <2>1. /\ Release \in Seq(Chores) /\ Ordered(Release)
          /\ \A x \in Elements(Release) : /\ x.op \in {"end", "finalize", "close", "closeCodec"}
                                          /\ x.op = "finalize" => plan.recording
      BY ReleaseScript DEF AudioInv
    <2> QED
      BY <1>1, <2>1, ReleaseKeeps DEF RemoveCall, At
  <1>2. CASE ~registered
    <2>1. registered' = registered
      BY <1>2 DEF RemoveCall, AudioInv, AudioTypes
    <2> QED
      BY <1>2, <2>1, PassKeeps DEF RemoveCall, At, lists
  <1> QED
    BY <1>1, <1>2

LEMMA DrainKeeps == ASSUME AudioInv, NEW t \in Threads, Drain(t) PROVE AudioInv'
  <1>1. CASE registered
    <2> DEFINE more == Do("end") \o Release
    <2>1. /\ Release \in Seq(Chores) /\ Ordered(Release)
          /\ \A x \in Elements(Release) : /\ x.op \in {"finalize", "close", "closeCodec"}
                                          /\ x.op = "finalize" => plan.recording
      BY ReleaseScript DEF AudioInv
    <2>2. /\ Do("end") \in Seq(Chores) /\ Elements(Do("end")) = {Item("end", None)}
          /\ Ordered(Do("end"))
      BY SmallScripts DEF Ops
    <2>3. \A x \in Elements(Do("end")), y \in Elements(Release) : Precedes(x, y)
      BY <2>2 DEF Item, Precedes
    <2>4. /\ more \in Seq(Chores) /\ Elements(more) = {Item("end", None)} \cup Elements(Release)
          /\ Ordered(more)
      BY <2>1, <2>2, <2>3, ElementsAppended, OrderedAppended
    <2>5. \A x \in Elements(more) : /\ x.op \in {"end", "finalize", "close", "closeCodec"}
                                    /\ x.op = "finalize" => plan.recording
      BY <2>1, <2>4 DEF Item
    <2> HIDE DEF more
    <2>6. /\ todo[t] # <<>> /\ Head(todo[t]).op = "drain" /\ Goes(t, more) /\ registered' = FALSE
          /\ UNCHANGED <<plan, call, listed, active, conns, recorder, flow>>
      BY <1>1 DEF Drain, At, more
    <2> QED
      BY <1>1, <2>4, <2>5, <2>6, ReleaseKeeps
  <1>2. CASE ~registered
    <2>1. registered' = registered
      BY <1>2 DEF Drain, AudioInv, AudioTypes
    <2> QED
      BY <1>2, <2>1, PassKeeps DEF Drain, At, lists
  <1> QED
    BY <1>1, <1>2


-----------------------------------------------------------------------------
(* Requests for a bridge *)

\* Looking the call up, or giving up before anything was made, leaves all else alone.
LEMMA AskedKeeps ==
    ASSUME AudioInv, todo' \in [Threads -> Seq(Chores)], Scripts',
           \A u \in Threads, op \in Ops \ Asked : Awaits(u, op)' <=> Awaits(u, op),
           \A u \in Threads : \A x \in Items(u) : x.op \notin Asked => x \in Items(u)',
           \A b \in Bridges : todo[b] = Setting => todo'[b] = Setting,
           registered => \A u \in Threads : Hushed(todo'[u], silenced),
           UNCHANGED <<plan, call, lists, active, conns, recorder, flow>>
    PROVE  AudioInv'
  <1> USE DEF call, livekit, lists, active, conns, recorder, flow
  <1>1. AudioTypes /\ Frame /\ Scripts /\ Locking /\ Owned /\ Ending /\ Finishing /\ Silent
    BY DEF AudioInv
  <1>2. \A u \in Threads :
            /\ Awaits(u, "unlock")' <=> Awaits(u, "unlock")
            /\ Awaits(u, "attach")' <=> Awaits(u, "attach")
            /\ Awaits(u, "provision")' <=> Awaits(u, "provision")
            /\ Awaits(u, "closeManagerCodec")' <=> Awaits(u, "closeManagerCodec")
            /\ Awaits(u, "takeCodec")' <=> Awaits(u, "takeCodec")
            /\ Awaits(u, "detach")' <=> Awaits(u, "detach")
            /\ Awaits(u, "finalize")' <=> Awaits(u, "finalize")
    BY DEF Ops, Asked
  <1>3. \A u \in Threads : \A x \in Items(u) : x.op \notin {"close", "closeCodec"} \/ x \in Items(u)'
    BY DEF Asked
  <1>4. AudioTypes'
    BY <1>1 DEF AudioTypes
  <1>5. Frame'
    BY <1>1 DEF Frame
  <1>6. Locking'
    BY <1>1, <1>2, LockingKept
  <1>7. Owned'
    BY <1>1, <1>3, OwnedKept
  <1>8. Ending'
    BY <1>1, <1>2, EndingKept
  <1>9. Finishing'
    BY <1>1, <1>2, FinishingKept
  <1>10. Silent'
    BY <1>1, SilentKept DEF Silent
  <1> QED
    BY <1>4, <1>5, <1>6, <1>7, <1>8, <1>9, <1>10 DEF AudioInv

\* The request for a bridge goes on to its next step.
LEMMA Onward ==
    /\ Tail(Looking) = Making /\ Tail(Making) = Setting /\ Tail(Setting) = <<>>
    /\ Head(Looking).op = "lookup" /\ Head(Making).op = "make" /\ Head(Setting).op = "set"
    /\ \A q \in Seq(Chores) : <<>> \o q = q
  BY DEF Looking, Making, Setting, Item

LEMMA RequestsGo ==
    ASSUME AudioTypes, Scripts, NEW t \in Threads, todo[t] # <<>>, Goes(t, <<>>),
           Head(todo[t]).op \in {"lookup", "make"}
    PROVE  /\ Scripts'
           /\ t \in Bridges => todo'[t] = IF Head(todo[t]).op = "lookup" THEN Making ELSE Setting
  <1>1. <<>> \in Seq(Chores) /\ Elements(<<>>) = {}
    BY SmallScripts
  <1>2. /\ \A u \in Threads : u # t => todo'[u] = todo[u] /\ Items(u)' = Items(u)
        /\ todo'[t] = <<>> \o Tail(todo[t]) /\ Tail(todo[t]) \in Seq(Chores)
        /\ Items(t)' = Elements(<<>>) \cup Elements(Tail(todo[t]))
        /\ Elements(Tail(todo[t])) \subseteq Items(t)
        /\ Head(todo[t]) \in Items(t)
    BY <1>1, ThreadGoes
  <1>3. todo'[t] = Tail(todo[t]) /\ Items(t)' \subseteq Items(t)
    BY <1>1, <1>2, Onward
  <1>4. Ordered(todo'[t])
    BY <1>3, OrderedTail DEF AudioTypes, Scripts
  <1>5. t \in Bridges => todo'[t] = IF Head(todo[t]).op = "lookup" THEN Making ELSE Setting
    <2> SUFFICES ASSUME t \in Bridges PROVE todo'[t] = IF Head(todo[t]).op = "lookup" THEN Making ELSE Setting
      OBVIOUS
    <2>1. Awaits(t, "lookup") \/ Awaits(t, "make")
      BY <1>2 DEF Awaits
    <2>2. todo[t] \in {Looking, Making, Setting}
      BY <2>1 DEF Scripts, Requested
    <2> QED
      BY <1>3, <2>2, Onward
  <1>6. ASSUME NEW b \in Bridges PROVE Requested(b)'
    <2>1. CASE b = t
      BY <1>5, <2>1 DEF Requested
    <2>2. CASE b # t
      <3>1. todo'[b] = todo[b] /\ Items(b)' = Items(b)
        BY <1>2, <2>2 DEF Threads
      <3> QED
        BY <3>1 DEF Scripts, Requested, Awaits
    <2> QED
      BY <2>1, <2>2
  <1>7. ASSUME NEW u \in Threads PROVE Ordered(todo'[u])
    BY <1>2, <1>4 DEF Scripts
  <1>8. ASSUME NEW u \in Threads \ Bridges PROVE ~Awaits(u, "make")' /\ ~Awaits(u, "set")'
    BY <1>2, <1>3 DEF Scripts, Awaits
  <1> QED
    BY <1>5, <1>6, <1>7, <1>8 DEF Scripts

\* Who gives up had nothing to release.
LEMMA GiveUpKeeps ==
    ASSUME AudioInv, NEW t \in Threads, todo[t] # <<>>, Head(todo[t]).op \in {"lookup", "make"},
           NEW more \in Seq(Chores), Drops(t, more), Ordered(more),
           \A x \in Elements(more) : x.op \in {"remove", "unlist"},
           \A done : Hushed(more, done),
           UNCHANGED <<plan, call, lists, active, conns, recorder, flow>>
    PROVE  AudioInv'
  <1>1. AudioTypes /\ Scripts /\ Silent /\ todo \in [Threads -> Seq(Chores)]
    BY DEF AudioInv, AudioTypes
  <1>2. todo[t] \in Seq(Chores) /\ Ordered(todo[t])
    BY <1>1 DEF Scripts
  <1>3. \A x \in Items(t) : x.op \in Asked
    <2>1. /\ Items(t) = {Head(todo[t])} \cup Elements(Tail(todo[t]))
          /\ \A x \in Elements(Tail(todo[t])) : Precedes(Head(todo[t]), x)
      BY <1>2, ElementsTail, OrderedTail DEF Items
    <2> QED
      BY <2>1 DEF Precedes, Asked
  <1>4. /\ todo' \in [Threads -> Seq(Chores)] /\ todo'[t] = more /\ Items(t)' = Elements(more)
        /\ \A u \in Threads : u # t => todo'[u] = todo[u] /\ Items(u)' = Items(u)
    BY <1>1 DEF Drops, Items
  <1>5. \A x \in Items(t)' : x.op \in {"remove", "unlist"} /\ x.op \in Asked
    BY <1>4 DEF Asked
  <1>6. /\ \A u \in Threads, op \in Ops \ Asked : Awaits(u, op)' <=> Awaits(u, op)
        /\ \A u \in Threads : \A x \in Items(u) : x.op \notin Asked => x \in Items(u)'
    BY <1>3, <1>4, <1>5 DEF Awaits
  <1>7. \A b \in Bridges : todo[b] = Setting => todo'[b] = Setting
    BY <1>4, Onward DEF Threads
  <1>8. Scripts'
    <2>1. \A u \in Threads : Ordered(todo'[u])
      BY <1>1, <1>4 DEF Scripts
    <2>2. ASSUME NEW b \in Bridges PROVE Requested(b)'
      <3>1. CASE b = t
        BY <1>5, <3>1 DEF Requested, Awaits
      <3>2. CASE b # t
        <4>1. todo'[b] = todo[b] /\ Items(b)' = Items(b)
          BY <1>4, <3>2 DEF Threads
        <4> QED
          BY <1>1, <4>1 DEF Scripts, Requested, Awaits
      <3> QED
        BY <3>1, <3>2
    <2>3. \A u \in Threads \ Bridges : ~Awaits(u, "make")' /\ ~Awaits(u, "set")'
      BY <1>1, <1>4, <1>5 DEF Scripts, Awaits
    <2> QED
      BY <2>1, <2>2, <2>3 DEF Scripts
  <1>9. registered => \A u \in Threads : Hushed(todo'[u], silenced)
    BY <1>1, <1>4 DEF Silent
  <1> QED
    BY <1>4, <1>6, <1>7, <1>8, <1>9, AskedKeeps

LEMMA LookupKeeps == ASSUME AudioInv, NEW t \in Threads, Lookup(t) PROVE AudioInv'
  <1>1. /\ todo[t] # <<>> /\ Head(todo[t]).op = "lookup"
        /\ UNCHANGED <<plan, call, lists, active, conns, recorder, flow>>
    BY DEF Lookup, At
  <1>2. CASE registered
    <2>1. AudioTypes /\ Scripts /\ Silent /\ Goes(t, <<>>) /\ UNCHANGED silenced
      BY <1>1, <1>2 DEF AudioInv, Lookup, conns
    <2>2. <<>> \in Seq(Chores) /\ Elements(<<>>) = {} /\ \A done : Hushed(<<>>, done)
      BY SmallScripts
    <2>3. todo' \in [Threads -> Seq(Chores)]
      BY <1>1, <2>1, <2>2, ThreadGoes
    <2>4. Scripts'
      BY <1>1, <2>1, RequestsGo
    <2>5. /\ \A u \in Threads, op \in Ops \ Asked : Awaits(u, op)' <=> Awaits(u, op)
          /\ \A u \in Threads : \A x \in Items(u) : x.op \notin Asked => x \in Items(u)'
          /\ \A b \in Bridges : todo[b] = Setting => todo'[b] = Setting
      <3>1. /\ \A u \in Threads, op \in Ops :
                   Awaits(u, op)' => Awaits(u, op) \/ (u = t /\ \E x \in Elements(<<>>) : x.op = op)
            /\ \A u \in Threads, op \in Ops :
                   Awaits(u, op) => Awaits(u, op)' \/ (u = t /\ op = Head(todo[t]).op)
            /\ \A u \in Threads : \A x \in Items(u) : x.op # Head(todo[t]).op => x \in Items(u)'
            /\ \A b \in Bridges : todo[b] = Setting /\ Head(todo[t]).op # "set" => todo'[b] = Setting
        BY <1>1, <2>1, <2>2, ChoresGo
      <3> QED
        BY <1>1, <2>2, <3>1 DEF Asked
    <2>6. \A u \in Threads : Hushed(todo'[u], silenced')
      BY <1>1, <1>2, <2>1, <2>2, HushGoes
    <2> QED
      BY <1>1, <2>1, <2>3, <2>4, <2>5, <2>6, AskedKeeps
  <1>3. CASE ~registered
    <2> DEFINE more == IF t \in Enders /\ plan.task[t] = "request" THEN Do("remove") \o Do("unlist") ELSE <<>>
    <2>1. /\ Do("remove") \in Seq(Chores) /\ Elements(Do("remove")) = {Item("remove", None)}
          /\ Do("unlist") \in Seq(Chores) /\ Elements(Do("unlist")) = {Item("unlist", None)}
          /\ Ordered(Do("remove")) /\ Ordered(Do("unlist"))
          /\ \A done : Hushed(Do("remove"), done) /\ Hushed(Do("unlist"), done)
      BY SmallScripts DEF Ops
    <2>2. \A x \in Elements(Do("remove")), y \in Elements(Do("unlist")) : Precedes(x, y)
      BY <2>1 DEF Item, Precedes
    <2>3. /\ Do("remove") \o Do("unlist") \in Seq(Chores) /\ Ordered(Do("remove") \o Do("unlist"))
          /\ Elements(Do("remove") \o Do("unlist")) = {Item("remove", None), Item("unlist", None)}
          /\ \A done : Hushed(Do("remove") \o Do("unlist"), done)
      BY <2>1, <2>2, ElementsAppended, OrderedAppended, HushedAppended
    <2>4. /\ <<>> \in Seq(Chores) /\ Elements(<<>>) = {} /\ Ordered(<<>>)
          /\ \A done : Hushed(<<>>, done)
      BY SmallScripts
    <2>5. /\ more \in Seq(Chores) /\ Ordered(more) /\ \A done : Hushed(more, done)
          /\ \A x \in Elements(more) : x.op \in {"remove", "unlist"}
      BY <2>3, <2>4 DEF Item
    <2>6. Drops(t, more)
      BY <1>3 DEF Lookup
    <2> HIDE DEF more
    <2> QED
      BY <1>1, <2>5, <2>6, GiveUpKeeps
  <1> QED
    BY <1>2, <1>3 DEF AudioInv, AudioTypes

LEMMA MakeKeeps == ASSUME AudioInv, NEW b \in Bridges, Make(b) PROVE AudioInv'
  <1> USE DEF call, livekit, lists, active, conns, recorder, flow
  <1>1. /\ todo[b] # <<>> /\ Head(todo[b]).op = "make" /\ b \in Threads
        /\ UNCHANGED <<plan, state, mu, codec, capture, room, hub, hooked, registered, listed,
                       bridge, wsBridge, opus, silenced, due, raised, taping, taped, finishing,
                       delivered, fed, media, heard, crashed>>
    BY DEF Make, At, Threads
  <1>2. AudioTypes /\ Frame /\ Scripts /\ Locking /\ Owned /\ Ending /\ Finishing /\ Silent
    BY DEF AudioInv
  <1>3. <<>> \in Seq(Chores) /\ Elements(<<>>) = {} /\ Ordered(<<>>) /\ \A done : Hushed(<<>>, done)
    BY SmallScripts
  <1>4. CASE Drops(b, <<>>) /\ UNCHANGED <<conn, codecOf>>
    BY <1>1, <1>3, <1>4, GiveUpKeeps
  <1>5. CASE /\ conn' = [conn EXCEPT ![b] = "open"]
             /\ \E c \in {"none", "open"} : codecOf' = [codecOf EXCEPT ![b] = c]
             /\ Goes(b, <<>>)
    <2>1. todo' \in [Threads -> Seq(Chores)]
      BY <1>1, <1>2, <1>3, <1>5, ThreadGoes
    <2>2. Scripts' /\ todo'[b] = Setting
      BY <1>1, <1>2, <1>5, RequestsGo
    <2>3. /\ \A u \in Threads, op \in Ops : Awaits(u, op)' => Awaits(u, op)
          /\ \A u \in Threads, op \in Ops : Awaits(u, op) => Awaits(u, op)' \/ op = "make"
          /\ \A u \in Threads : \A x \in Items(u) : x.op # "make" => x \in Items(u)'
          /\ \A i \in Bridges : todo[i] = Setting => todo'[i] = Setting
      <3>1. /\ \A u \in Threads, op \in Ops :
                   Awaits(u, op)' => Awaits(u, op) \/ (u = b /\ \E x \in Elements(<<>>) : x.op = op)
            /\ \A u \in Threads, op \in Ops :
                   Awaits(u, op) => Awaits(u, op)' \/ (u = b /\ op = Head(todo[b]).op)
            /\ \A u \in Threads : \A x \in Items(u) : x.op # Head(todo[b]).op => x \in Items(u)'
            /\ \A i \in Bridges : todo[i] = Setting /\ Head(todo[b]).op # "set" => todo'[i] = Setting
        BY <1>1, <1>2, <1>3, <1>5, ChoresGo
      <3> QED
        BY <1>1, <1>3, <3>1
    <2>4. /\ conn \in [Bridges -> {"none", "open", "failed", "closed"}]
          /\ codecOf \in [Bridges -> {"none", "open", "closed"}]
      BY <1>2 DEF AudioTypes
    <2>5. /\ conn' \in [Bridges -> {"none", "open", "failed", "closed"}]
          /\ codecOf' \in [Bridges -> {"none", "open", "closed"}]
          /\ \A i \in Bridges : i # b => conn'[i] = conn[i] /\ codecOf'[i] = codecOf[i]
      BY <1>5, <2>4
    <2>6. AudioTypes'
      BY <1>1, <1>2, <2>1, <2>5 DEF AudioTypes
    <2>7. Frame'
      BY <1>1, <1>2 DEF Frame
    <2>8. Locking'
      BY <1>1, <1>2, <2>3, LockingKept DEF Ops
    <2>9. Owned'
      <3>1. Closing("close", b)' /\ Closing("closeCodec", b)'
        BY <2>2 DEF Closing, Setting
      <3>2. ASSUME NEW op \in {"close", "closeCodec"}, NEW i \in Bridges, Closing(op, i) PROVE Closing(op, i)'
        <4>1. CASE todo[i] = Setting
          BY <2>3, <4>1 DEF Closing, Setting
        <4>2. CASE \E u \in Threads : Item(op, i) \in Items(u)
          <5>1. PICK u \in Threads : Item(op, i) \in Items(u)
            BY <4>2
          <5>2. Item(op, i).op # "make"
            BY DEF Item
          <5>3. Item(op, i) \in Items(u)'
            BY <2>3, <5>1, <5>2
          <5> QED
            BY <5>3 DEF Closing, Item
        <4> QED
          BY <3>2, <4>1, <4>2 DEF Closing
      <3> QED
        BY <1>1, <1>2, <2>5, <3>1, <3>2 DEF Owned
    <2>10. Ending'
      BY <1>1, <1>2, <2>3, EndingKept DEF Ops
    <2>11. Finishing'
      BY <1>1, <1>2, <2>3, FinishingKept DEF Ops
    <2>12. Silent'
      <3>1. registered => \A u \in Threads : Hushed(todo'[u], silenced')
        BY <1>1, <1>2, <1>3, <1>5, HushGoes
      <3> QED
        BY <1>1, <1>2, <3>1, SilentKept DEF Silent
    <2> QED
      BY <2>2, <2>6, <2>7, <2>8, <2>9, <2>10, <2>11, <2>12 DEF AudioInv
  <1> QED
    BY <1>4, <1>5 DEF Make

\* A bridge takes its place: whoever had it is released, and so is the bridge itself if the call is gone.
LEMMA SetKeeps ==
    ASSUME AudioInv, NEW b \in Bridges, todo[b] # <<>>, Head(todo[b]).op = "set",
           NEW more \in Seq(Chores), Goes(b, more), Ordered(more),
           \A x \in Elements(more) : x.op \in {"silence", "close", "closeCodec"},
           registered => \A done : Hushed(more, done),
           bridge' \in Bridges \cup {None}, wsBridge' \in Bridges \cup {None}, opus' \in Bridges \cup {None},
           \A i \in Bridges : i = b \/ (registered /\ i \in {bridge, wsBridge}) =>
               Item("close", i) \in Elements(more) \/ (registered /\ i \in {bridge', wsBridge'}),
           \A i \in Bridges : codecOf[i] = "open" /\ (i = b \/ (registered /\ opus = i)) =>
               Item("closeCodec", i) \in Elements(more) \/ (registered /\ opus' = i),
           UNCHANGED <<plan, call, lists, conns, recorder, flow>>
    PROVE  AudioInv'
  <1> USE DEF call, livekit, lists, conns, recorder, flow
  <1>1. AudioTypes /\ Frame /\ Scripts /\ Locking /\ Owned /\ Ending /\ Finishing /\ Silent /\ b \in Threads
    BY DEF AudioInv, Threads
  <1>2. /\ todo' \in [Threads -> Seq(Chores)] /\ todo'[b] = more \o Tail(todo[b])
        /\ Head(todo[b]) \in Items(b) /\ Elements(more) \subseteq Items(b)'
        /\ Items(b)' = Elements(more) \cup Elements(Tail(todo[b]))
        /\ \A u \in Threads : u # b => todo'[u] = todo[u] /\ Items(u)' = Items(u)
    BY <1>1, ThreadGoes
  <1>3. todo[b] = Setting
    <2>1. Awaits(b, "set")
      BY <1>2 DEF Awaits
    <2> QED
      BY <1>1, <2>1, Onward DEF Scripts, Requested
  <1>4. /\ Tail(todo[b]) = <<>> /\ <<>> \in Seq(Chores) /\ Elements(<<>>) = {} /\ Ordered(<<>>)
    BY <1>3, Onward, SmallScripts
  <1>5. Items(b)' = Elements(more) /\ Ordered(todo'[b])
    BY <1>2, <1>4, OrderedAppended
  <1>6. /\ \A u \in Threads, op \in Ops :
               Awaits(u, op)' => Awaits(u, op) \/ op \in {"silence", "close", "closeCodec"}
        /\ \A u \in Threads, op \in Ops : Awaits(u, op) => Awaits(u, op)' \/ op = "set"
        /\ \A u \in Threads : \A x \in Items(u) : x.op # "set" => x \in Items(u)'
    <2>1. /\ \A u \in Threads, op \in Ops :
                 Awaits(u, op)' => Awaits(u, op) \/ (u = b /\ \E x \in Elements(more) : x.op = op)
          /\ \A u \in Threads, op \in Ops :
                 Awaits(u, op) => Awaits(u, op)' \/ (u = b /\ op = Head(todo[b]).op)
          /\ \A u \in Threads : \A x \in Items(u) : x.op # Head(todo[b]).op => x \in Items(u)'
      BY <1>1, ChoresGo
    <2> QED
      BY <2>1
  <1>7. AudioTypes'
    BY <1>1, <1>2 DEF AudioTypes
  <1>8. Frame'
    BY <1>1 DEF Frame
  <1>9. Scripts'
    <2>1. \A u \in Threads : Ordered(todo'[u])
      BY <1>1, <1>2, <1>5 DEF Scripts
    <2>2. ASSUME NEW i \in Bridges PROVE Requested(i)'
      <3>1. CASE i = b
        BY <1>5, <3>1 DEF Requested, Awaits
      <3>2. CASE i # b
        <4>1. todo'[i] = todo[i] /\ Items(i)' = Items(i)
          BY <1>2, <3>2 DEF Threads
        <4> QED
          BY <1>1, <4>1 DEF Scripts, Requested, Awaits
      <3> QED
        BY <3>1, <3>2
    <2>3. \A u \in Threads \ Bridges : ~Awaits(u, "make")' /\ ~Awaits(u, "set")'
      BY <1>1, <1>6 DEF Scripts, Ops
    <2> QED
      BY <2>1, <2>2, <2>3 DEF Scripts
  <1>10. Locking'
    BY <1>1, <1>6, LockingKept DEF Ops
  <1>11. Owned'
    <2>1. ASSUME NEW op \in {"close", "closeCodec"}, NEW i \in Bridges, i # b, Closing(op, i)
          PROVE  Closing(op, i)'
      <3>1. CASE todo[i] = Setting
        BY <1>2, <2>1, <3>1 DEF Closing, Setting, Threads
      <3>2. CASE \E u \in Threads : Item(op, i) \in Items(u)
        <4>1. PICK u \in Threads : Item(op, i) \in Items(u)
          BY <3>2
        <4>2. Item(op, i).op # "set"
          BY DEF Item
        <4>3. Item(op, i) \in Items(u)'
          BY <1>6, <4>1, <4>2
        <4> QED
          BY <4>3 DEF Closing, Item
      <3> QED
        BY <2>1, <3>1, <3>2 DEF Closing
    <2>2. \A op \in {"close", "closeCodec"}, i \in Bridges : Item(op, i) \in Elements(more) => Closing(op, i)'
      BY <1>1, <1>2 DEF Closing, Item
    <2>3. ASSUME NEW i \in Bridges, conn[i] \in {"open", "failed"}
          PROVE  Closing("close", i)' \/ (registered /\ i \in {bridge', wsBridge'})
      BY <1>1, <2>1, <2>2, <2>3 DEF Owned
    <2>4. ASSUME NEW i \in Bridges, codecOf[i] = "open"
          PROVE  Closing("closeCodec", i)' \/ (registered /\ opus' = i)
      BY <1>1, <2>1, <2>2, <2>4 DEF Owned
    <2> QED
      BY <2>3, <2>4 DEF Owned
  <1>12. Ending'
    BY <1>1, <1>6, EndingKept DEF Ops
  <1>13. Finishing'
    BY <1>1, <1>6, FinishingKept DEF Ops
  <1>14. Silent'
    <2>1. registered => \A u \in Threads : Hushed(todo'[u], silenced')
      BY <1>1, HushGoes
    <2> QED
      BY <1>1, <2>1, SilentKept DEF Silent
  <1> QED
    BY <1>7, <1>8, <1>9, <1>10, <1>11, <1>12, <1>13, <1>14 DEF AudioInv

\* The one that is replaced is silenced before it is closed.
LEMMA ReplaceScript ==
    ASSUME NEW b \in Bridges \cup {None}
    PROVE  /\ Replace(b) \in Seq(Chores) /\ Ordered(Replace(b)) /\ \A done : Hushed(Replace(b), done)
           /\ \A x \in Elements(Replace(b)) : x.op \in {"silence", "close"}
           /\ b # None => Item("close", b) \in Elements(Replace(b))
  <1> DEFINE hush == With("silence", b)
             shut == With("close", b)
  <1>1. /\ hush \in Seq(Chores) /\ Ordered(hush)
        /\ Elements(hush) = IF b = None THEN {} ELSE {Item("silence", b)}
    BY SmallScripts
  <1>2. /\ shut \in Seq(Chores) /\ Ordered(shut)
        /\ Elements(shut) = IF b = None THEN {} ELSE {Item("close", b)}
    BY SmallScripts
  <1>3. \A x \in Elements(hush), y \in Elements(shut) : Precedes(x, y)
    BY <1>1 DEF Precedes, Item
  <1>4. Hushed(hush \o shut, {}) /\ \A done : Hushed(hush \o shut, done)
    <2>1. CASE b = None
      <3>1. hush = <<>> /\ shut = <<>>
        BY <2>1 DEF With
      <3>2. <<>> \o <<>> = <<>>
        OBVIOUS
      <3> QED
        BY <3>1, <3>2, SmallScripts
    <2>2. CASE b # None
      <3>1. hush = <<Item("silence", b)>> /\ shut = <<Item("close", b)>>
        BY <2>2 DEF With, Item
      <3>2. Len(hush) = 1 /\ hush[1] = Item("silence", b) /\ Len(shut) = 1 /\ shut[1] = Item("close", b)
        BY <3>1
      <3> HIDE DEF hush, shut
      <3> DEFINE r == hush \o shut
      <3>3. r \in Seq(Chores) /\ Len(r) = 2 /\ r[1] = Item("silence", b) /\ r[2] = Item("close", b)
        <4>1. /\ r \in Seq(Chores) /\ Len(r) = Len(hush) + Len(shut)
              /\ \A i \in 1 .. Len(hush) : r[i] = hush[i]
              /\ \A i \in 1 .. Len(shut) : r[Len(hush) + i] = shut[i]
          BY <1>1, <1>2, Appended
        <4> HIDE DEF r
        <4> QED
          BY <3>2, <4>1
      <3> HIDE DEF r
      <3>4. DOMAIN r = 1 .. 2
        BY <3>3
      <3>5. ASSUME NEW done PROVE Hushed(r, done)
        BY <3>3, <3>4 DEF Hushed, Item
      <3> QED
        BY <3>5 DEF r
    <2> QED
      BY <2>1, <2>2
  <1> HIDE DEF hush, shut
  <1>5. /\ hush \o shut \in Seq(Chores) /\ Elements(hush \o shut) = Elements(hush) \cup Elements(shut)
        /\ Ordered(hush \o shut)
    BY <1>1, <1>2, <1>3, ElementsAppended, OrderedAppended
  <1>6. /\ \A x \in Elements(hush) \cup Elements(shut) : x.op \in {"silence", "close"}
        /\ b # None => Item("close", b) \in Elements(hush) \cup Elements(shut)
    BY <1>1, <1>2 DEF Item
  <1> QED
    BY <1>4, <1>5, <1>6 DEF Replace, hush, shut

LEMMA RefuseScript ==
    ASSUME NEW b \in Bridges, codecOf[b] \in {"none", "open", "closed"}
    PROVE  /\ Refuse(b) \in Seq(Chores) /\ Ordered(Refuse(b))
           /\ \A x \in Elements(Refuse(b)) : x.op \in {"close", "closeCodec"}
           /\ Item("close", b) \in Elements(Refuse(b))
           /\ codecOf[b] = "open" => Item("closeCodec", b) \in Elements(Refuse(b))
  <1> DEFINE shut == With("close", b)
             drop == With("closeCodec", Codec(b))
  <1>1. b # None /\ Codec(b) \in Bridges \cup {None} /\ (codecOf[b] = "open" => Codec(b) = b)
    BY AudioAssumption DEF Threads, Codec
  <1>2. /\ shut \in Seq(Chores) /\ Ordered(shut) /\ Elements(shut) = {Item("close", b)}
    BY <1>1, SmallScripts
  <1>3. /\ drop \in Seq(Chores) /\ Ordered(drop)
        /\ Elements(drop) = IF Codec(b) = None THEN {} ELSE {Item("closeCodec", Codec(b))}
    BY <1>1, SmallScripts
  <1> HIDE DEF shut, drop
  <1>4. \A x \in Elements(shut), y \in Elements(drop) : Precedes(x, y)
    BY <1>2 DEF Precedes, Item
  <1>5. /\ shut \o drop \in Seq(Chores) /\ Elements(shut \o drop) = Elements(shut) \cup Elements(drop)
        /\ Ordered(shut \o drop)
    BY <1>2, <1>3, <1>4, ElementsAppended, OrderedAppended
  <1>6. /\ \A x \in Elements(shut) \cup Elements(drop) : x.op \in {"close", "closeCodec"}
        /\ Item("close", b) \in Elements(shut) \cup Elements(drop)
        /\ codecOf[b] = "open" => Item("closeCodec", b) \in Elements(shut) \cup Elements(drop)
    BY <1>1, <1>2, <1>3 DEF Item
  <1> QED
    BY <1>5, <1>6 DEF Refuse, shut, drop

LEMMA RefuseKeeps ==
    ASSUME AudioInv, NEW b \in Bridges, todo[b] # <<>>, Head(todo[b]).op = "set", ~registered,
           Goes(b, Refuse(b)), UNCHANGED <<plan, call, lists, active, conns, recorder, flow>>
    PROVE  AudioInv'
  <1> USE DEF active
  <1>1. /\ codecOf[b] \in {"none", "open", "closed"}
        /\ bridge' \in Bridges \cup {None} /\ wsBridge' \in Bridges \cup {None}
        /\ opus' \in Bridges \cup {None}
    BY DEF AudioInv, AudioTypes
  <1>2. /\ Refuse(b) \in Seq(Chores) /\ Ordered(Refuse(b))
        /\ \A x \in Elements(Refuse(b)) : x.op \in {"close", "closeCodec"}
        /\ Item("close", b) \in Elements(Refuse(b))
        /\ codecOf[b] = "open" => Item("closeCodec", b) \in Elements(Refuse(b))
    BY <1>1, RefuseScript
  <1> QED
    BY <1>1, <1>2, SetKeeps

LEMMA SetBridgeKeeps == ASSUME AudioInv, NEW b \in Bridges, SetBridge(b) PROVE AudioInv'
  <1>1. /\ todo[b] # <<>> /\ Head(todo[b]).op = "set"
        /\ UNCHANGED <<plan, call, lists, conns, recorder, flow>>
    BY DEF SetBridge, At
  <1>2. CASE ~registered
    BY <1>1, <1>2, RefuseKeeps DEF SetBridge, active
  <1>3. CASE registered
    <2> DEFINE first == Replace(bridge)
               last == With("closeCodec", opus)
               more == first \o last
    <2>1. /\ bridge \in Bridges \cup {None} /\ wsBridge \in Bridges \cup {None}
          /\ opus \in Bridges \cup {None} /\ b # None /\ Codec(b) \in Bridges \cup {None}
          /\ codecOf[b] = "open" => Codec(b) = b
      BY AudioAssumption DEF AudioInv, AudioTypes, Threads, Codec
    <2>2. /\ bridge' = b /\ wsBridge' = wsBridge /\ opus' = Codec(b) /\ Goes(b, more)
      BY <1>3 DEF SetBridge
    <2>3. /\ first \in Seq(Chores) /\ Ordered(first) /\ \A done : Hushed(first, done)
          /\ \A x \in Elements(first) : x.op \in {"silence", "close"}
          /\ bridge # None => Item("close", bridge) \in Elements(first)
      BY <2>1, ReplaceScript
    <2>4. /\ last \in Seq(Chores) /\ Ordered(last) /\ \A done : Hushed(last, done)
          /\ Elements(last) = IF opus = None THEN {} ELSE {Item("closeCodec", opus)}
      BY <2>1, SmallScripts
    <2> HIDE DEF first, last
    <2>5. \A x \in Elements(first), y \in Elements(last) : Precedes(x, y)
      BY <2>3 DEF Precedes
    <2>6. /\ more \in Seq(Chores) /\ Ordered(more) /\ \A done : Hushed(more, done)
          /\ Elements(more) = Elements(first) \cup Elements(last)
      BY <2>3, <2>4, <2>5, ElementsAppended, OrderedAppended, HushedAppended
    <2>7. \A x \in Elements(more) : x.op \in {"silence", "close", "closeCodec"}
      BY <2>3, <2>4, <2>6 DEF Item
    <2>8. \A i \in Bridges : i # None
      BY AudioAssumption DEF Threads
    <2>9. \A i \in Bridges : i = b \/ (registered /\ i \in {bridge, wsBridge}) =>
              Item("close", i) \in Elements(more) \/ (registered /\ i \in {bridge', wsBridge'})
      BY <1>3, <2>2, <2>3, <2>6, <2>8
    <2>10. \A i \in Bridges : codecOf[i] = "open" /\ (i = b \/ (registered /\ opus = i)) =>
               Item("closeCodec", i) \in Elements(more) \/ (registered /\ opus' = i)
      BY <1>3, <2>1, <2>2, <2>4, <2>6, <2>8
    <2>11. bridge' \in Bridges \cup {None} /\ wsBridge' \in Bridges \cup {None} /\ opus' \in Bridges \cup {None}
      BY <2>1, <2>2
    <2> HIDE DEF more
    <2> QED
      BY <1>1, <1>3, <2>2, <2>6, <2>7, <2>9, <2>10, <2>11, SetKeeps
  <1> QED
    BY <1>2, <1>3

LEMMA SetWSBridgeKeeps == ASSUME AudioInv, NEW b \in Bridges, SetWSBridge(b) PROVE AudioInv'
  <1>1. /\ todo[b] # <<>> /\ Head(todo[b]).op = "set"
        /\ UNCHANGED <<plan, call, lists, conns, recorder, flow>>
    BY DEF SetWSBridge, At
  <1>2. CASE ~registered
    BY <1>1, <1>2, RefuseKeeps DEF SetWSBridge
  <1>3. CASE registered
    <2> DEFINE first == Replace(bridge)
               second == Replace(wsBridge)
               last == With("closeCodec", opus)
               more == first \o second \o last
    <2>1. /\ bridge \in Bridges \cup {None} /\ wsBridge \in Bridges \cup {None}
          /\ opus \in Bridges \cup {None} /\ b # None /\ Codec(b) \in Bridges \cup {None}
          /\ codecOf[b] = "open" => Codec(b) = b
      BY AudioAssumption DEF AudioInv, AudioTypes, Threads, Codec
    <2>2. /\ bridge' = None /\ wsBridge' = b /\ opus' = Codec(b) /\ Goes(b, more)
      BY <1>3 DEF SetWSBridge
    <2>3. /\ first \in Seq(Chores) /\ Ordered(first) /\ \A done : Hushed(first, done)
          /\ \A x \in Elements(first) : x.op \in {"silence", "close"}
          /\ bridge # None => Item("close", bridge) \in Elements(first)
      BY <2>1, ReplaceScript
    <2>4. /\ second \in Seq(Chores) /\ Ordered(second) /\ \A done : Hushed(second, done)
          /\ \A x \in Elements(second) : x.op \in {"silence", "close"}
          /\ wsBridge # None => Item("close", wsBridge) \in Elements(second)
      BY <2>1, ReplaceScript
    <2>5. /\ last \in Seq(Chores) /\ Ordered(last) /\ \A done : Hushed(last, done)
          /\ Elements(last) = IF opus = None THEN {} ELSE {Item("closeCodec", opus)}
      BY <2>1, SmallScripts
    <2> HIDE DEF first, second, last
    <2>6. /\ first \o second \in Seq(Chores) /\ Ordered(first \o second)
          /\ \A done : Hushed(first \o second, done)
          /\ Elements(first \o second) = Elements(first) \cup Elements(second)
      <3>1. \A x \in Elements(first), y \in Elements(second) : Precedes(x, y)
        BY <2>3 DEF Precedes
      <3> QED
        BY <2>3, <2>4, <3>1, ElementsAppended, OrderedAppended, HushedAppended
    <2>7. /\ more \in Seq(Chores) /\ Ordered(more) /\ \A done : Hushed(more, done)
          /\ Elements(more) = Elements(first) \cup Elements(second) \cup Elements(last)
      <3>1. \A x \in Elements(first \o second), y \in Elements(last) : Precedes(x, y)
        BY <2>3, <2>4, <2>6 DEF Precedes
      <3> QED
        BY <2>5, <2>6, <3>1, ElementsAppended, OrderedAppended, HushedAppended
    <2>8. \A x \in Elements(more) : x.op \in {"silence", "close", "closeCodec"}
      BY <2>3, <2>4, <2>5, <2>7 DEF Item
    <2>9. \A i \in Bridges : i # None
      BY AudioAssumption DEF Threads
    <2>10. \A i \in Bridges : i = b \/ (registered /\ i \in {bridge, wsBridge}) =>
               Item("close", i) \in Elements(more) \/ (registered /\ i \in {bridge', wsBridge'})
      BY <1>3, <2>2, <2>3, <2>4, <2>7, <2>9
    <2>11. \A i \in Bridges : codecOf[i] = "open" /\ (i = b \/ (registered /\ opus = i)) =>
               Item("closeCodec", i) \in Elements(more) \/ (registered /\ opus' = i)
      BY <1>3, <2>1, <2>2, <2>5, <2>7, <2>9
    <2>12. bridge' \in Bridges \cup {None} /\ wsBridge' \in Bridges \cup {None} /\ opus' \in Bridges \cup {None}
      BY <2>1, <2>2
    <2> HIDE DEF more
    <2> QED
      BY <1>1, <1>3, <2>2, <2>7, <2>8, <2>10, <2>11, <2>12, SetKeeps
  <1> QED
    BY <1>2, <1>3

-----------------------------------------------------------------------------
(* Connections, the call, the recording and the audio *)

\* The loss of a connection hangs up, and so does its close, if nobody silenced it.
LEMMA ConnectionOverKeeps ==
    ASSUME AudioInv, NEW b \in Bridges, NEW e \in {"failed", "closed"}, ConnectionOver(b, e)
    PROVE  AudioInv'
  <1> USE DEF call, livekit, lists, active, conns, recorder, flow
  <1> DEFINE h == Hangup(b)
             add == Do("lookup") \o Do("end")
  <1>1. /\ e \in due[b] /\ due' = [due EXCEPT ![b] = @ \ {e}] /\ silenced \subseteq silenced'
        /\ silenced' \subseteq silenced \cup {b}
        /\ UNCHANGED <<plan, state, mu, codec, capture, room, hub, hooked, registered, listed,
                       bridge, wsBridge, opus, conn, codecOf, taping, taped, finishing,
                       delivered, fed, media, heard, crashed>>
    BY DEF ConnectionOver
  <1>2. AudioTypes /\ Frame /\ Scripts /\ Locking /\ Owned /\ Ending /\ Finishing /\ Silent
    BY DEF AudioInv
  <1>3. h \in Threads /\ h \notin Bridges
    BY AudioAssumption DEF Threads
  <1>4. todo \in [Threads -> Seq(Chores)] /\ todo[h] \in Seq(Chores) /\ Ordered(todo[h])
    BY <1>2, <1>3 DEF AudioTypes, Scripts
  <1>5. /\ Do("lookup") \in Seq(Chores) /\ Elements(Do("lookup")) = {Item("lookup", None)}
        /\ Do("end") \in Seq(Chores) /\ Elements(Do("end")) = {Item("end", None)}
        /\ Ordered(Do("lookup")) /\ Ordered(Do("end"))
        /\ \A done : Hushed(Do("lookup"), done) /\ Hushed(Do("end"), done)
    BY SmallScripts DEF Ops
  <1> DEFINE one == todo[h] \o Do("lookup")
             two == one \o Do("end")
  <1>6. /\ one \in Seq(Chores) /\ Elements(one) = Items(h) \cup {Item("lookup", None)} /\ Ordered(one)
    <2>1. \A x \in Items(h), y \in Elements(Do("lookup")) : Precedes(x, y)
      BY <1>5 DEF Precedes, Item, Asked
    <2> QED
      BY <1>4, <1>5, <2>1, ElementsAppended, OrderedAppended DEF Items
  <1>7. /\ two \in Seq(Chores) /\ Ordered(two)
        /\ Elements(two) = Items(h) \cup {Item("lookup", None), Item("end", None)}
    <2>1. \A x \in Elements(one), y \in Elements(Do("end")) : Precedes(x, y)
      BY <1>5 DEF Precedes, Item, Asked
    <2> HIDE DEF one
    <2> QED
      BY <1>5, <1>6, <2>1, ElementsAppended, OrderedAppended
  <1>8. registered => Hushed(two, silenced')
    <2> SUFFICES ASSUME registered PROVE Hushed(two, silenced')
      OBVIOUS
    <2>1. Hushed(todo[h], silenced')
      BY <1>1, <1>2, <1>3, HushedMore DEF Silent
    <2>2. Hushed(one, silenced')
      BY <1>4, <1>5, <2>1, HushedAppended
    <2> HIDE DEF one
    <2> QED
      BY <1>5, <1>6, <2>2, HushedAppended
  <1>9. /\ todo' \in [Threads -> Seq(Chores)] /\ \A u \in Threads : u # h => todo'[u] = todo[u]
        /\ todo'[h] = todo[h] \/ todo'[h] = two
    <2> HIDE DEF h
    <2>1. todo' = todo \/ todo' = [todo EXCEPT ![h] = two]
      BY <1>3, <1>4 DEF ConnectionOver, h
    <2> HIDE DEF two
    <2> QED
      BY <1>3, <1>4, <1>7, <2>1
  <1> HIDE DEF h, one, two
  <1>10. /\ \A u \in Threads : Items(u) \subseteq Items(u)'
         /\ \A u \in Threads : Items(u)' \subseteq Items(u) \cup {Item("lookup", None), Item("end", None)}
         /\ \A u \in Threads : u # h => Items(u)' = Items(u)
         /\ \A u \in Threads : Ordered(todo'[u])
    BY <1>2, <1>3, <1>7, <1>9 DEF Items, Scripts
  <1>11. /\ \A u \in Threads, op \in Ops : Awaits(u, op)' => Awaits(u, op) \/ op \in {"lookup", "end"}
         /\ \A u \in Threads, op \in Ops : Awaits(u, op) => Awaits(u, op)'
    BY <1>10 DEF Awaits, Item
  <1>12. \A i \in Bridges : todo'[i] = todo[i] /\ Items(i)' = Items(i)
    BY <1>3, <1>9, <1>10 DEF Threads
  <1>13. AudioTypes'
    <2>1. due \in [Bridges -> SUBSET {"failed", "closed"}] /\ raised \in [Bridges -> SUBSET {"failed", "closed"}]
      BY <1>2 DEF AudioTypes
    <2>2. due' \in [Bridges -> SUBSET {"failed", "closed"}]
      BY <1>1, <2>1
    <2>3. raised' \in [Bridges -> SUBSET {"failed", "closed"}]
      BY <2>1 DEF ConnectionOver
    <2>4. silenced' \subseteq Bridges
      BY <1>1, <1>2 DEF AudioTypes
    <2> QED
      BY <1>1, <1>2, <1>9, <2>2, <2>3, <2>4 DEF AudioTypes
  <1>14. Frame'
    BY <1>1, <1>2 DEF Frame
  <1>15. Scripts'
    <2>1. ASSUME NEW i \in Bridges PROVE Requested(i)'
      BY <1>2, <1>12 DEF Scripts, Requested, Awaits
    <2>2. \A u \in Threads \ Bridges : ~Awaits(u, "make")' /\ ~Awaits(u, "set")'
      BY <1>2, <1>11 DEF Scripts, Ops
    <2> QED
      BY <1>10, <2>1, <2>2 DEF Scripts
  <1>16. Locking'
    BY <1>1, <1>2, <1>11, LockingKept DEF Ops
  <1>17. Owned'
    BY <1>1, <1>2, <1>10, <1>12, OwnedKept
  <1>18. Ending'
    BY <1>1, <1>2, <1>11, EndingKept DEF Ops
  <1>19. Finishing'
    BY <1>1, <1>2, <1>11, FinishingKept DEF Ops
  <1>20. Silent'
    <2>1. registered => \A u \in Threads : Hushed(todo'[u], silenced')
      <3> SUFFICES ASSUME registered, NEW u \in Threads PROVE Hushed(todo'[u], silenced')
        OBVIOUS
      <3>1. Hushed(todo[u], silenced')
        BY <1>1, <1>2, HushedMore DEF Silent
      <3> QED
        BY <1>8, <1>9, <3>1
    <2>2. /\ due \in [Bridges -> SUBSET {"failed", "closed"}]
          /\ raised \in [Bridges -> SUBSET {"failed", "closed"}]
      BY <1>2 DEF AudioTypes
    <2>3. \A i \in Bridges : due'[i] \subseteq due[i]
      BY <1>1, <2>2
    <2>4. \A i \in Bridges : raised'[i] = raised[i] \/ (i = b /\ raised'[i] = raised[i] \cup {e} /\ b \notin silenced)
      BY <2>2 DEF ConnectionOver
    <2>5. \A i \in Bridges : "closed" \in raised'[i] => "closed" \in raised[i] \/ ~registered'
      BY <1>1, <1>2, <2>4 DEF Silent
    <2>6. registered' => \A i \in Bridges : "closed" \in due'[i] => i \in silenced
      BY <1>1, <1>2, <2>3 DEF Silent
    <2> HIDE DEF ConnectionOver
    <2> QED
      BY <1>1, <1>2, <2>1, <2>3, <2>5, <2>6, SilentKept
  <1> QED
    BY <1>13, <1>14, <1>15, <1>16, <1>17, <1>18, <1>19, <1>20 DEF AudioInv

LEMMA ConnectionLostKeeps == ASSUME AudioInv, NEW b \in Bridges, ConnectionLost(b) PROVE AudioInv'
  <1> USE DEF call, livekit, lists, active, conns, recorder, flow
  <1>1. /\ conn[b] = "open" /\ conn' = [conn EXCEPT ![b] = "failed"]
        /\ due' = [due EXCEPT ![b] = @ \cup {"failed"}]
        /\ UNCHANGED <<plan, todo, state, mu, codec, capture, room, hub, hooked, registered, listed,
                       bridge, wsBridge, opus, codecOf, silenced, raised, taping, taped, finishing,
                       delivered, fed, media, heard, crashed>>
    BY DEF ConnectionLost
  <1>2. AudioTypes /\ Frame /\ Scripts /\ Locking /\ Owned /\ Ending /\ Finishing /\ Silent
    BY DEF AudioInv
  <1>3. /\ Scripts' /\ \A u \in Threads : Items(u)' = Items(u)
        /\ \A u \in Threads, op \in Ops : Awaits(u, op)' <=> Awaits(u, op)
    BY <1>1, <1>2, ScriptsStay
  <1>4. AudioTypes'
    BY <1>1, <1>2 DEF AudioTypes
  <1>5. Frame'
    BY <1>1, <1>2 DEF Frame
  <1>6. Locking'
    BY <1>1, <1>2, <1>3, LockingKept DEF Ops
  <1>7. Owned'
    <2>1. \A i \in Bridges : conn'[i] \in {"open", "failed"} => conn[i] \in {"open", "failed"}
      BY <1>1, <1>2 DEF AudioTypes
    <2> QED
      BY <1>1, <1>2, <1>3, <2>1, OwnedKept
  <1>8. Ending'
    BY <1>1, <1>2, <1>3, EndingKept DEF Ops
  <1>9. Finishing'
    BY <1>1, <1>2, <1>3, FinishingKept DEF Ops
  <1>10. Silent'
    <2>1. registered => \A u \in Threads : Hushed(todo'[u], silenced')
      BY <1>1, <1>2, HushStays
    <2>2. \A i \in Bridges : "closed" \in due'[i] => "closed" \in due[i]
      BY <1>1, <1>2 DEF AudioTypes
    <2> QED
      BY <1>1, <1>2, <2>1, <2>2, SilentKept DEF Silent
  <1> QED
    BY <1>3, <1>4, <1>5, <1>6, <1>7, <1>8, <1>9, <1>10 DEF AudioInv

LEMMA HoldOrResumeKeeps == ASSUME AudioInv, HoldOrResume PROVE AudioInv'
  <1> USE DEF call, livekit, lists, active, conns, recorder, flow
  <1>1. /\ state' \in {"active", "held"} /\ listed' = TRUE
        /\ UNCHANGED <<plan, todo, mu, codec, capture, room, hub, hooked, registered, bridge, wsBridge,
                       opus, conn, codecOf, silenced, due, raised, taping, taped, finishing,
                       delivered, fed, media, heard, crashed>>
    BY DEF HoldOrResume
  <1>2. AudioTypes /\ Frame /\ Scripts /\ Locking /\ Owned /\ Ending /\ Finishing /\ Silent
    BY DEF AudioInv
  <1>3. /\ Scripts' /\ \A u \in Threads : Items(u)' = Items(u)
        /\ \A u \in Threads, op \in Ops : Awaits(u, op)' <=> Awaits(u, op)
    BY <1>1, <1>2, ScriptsStay
  <1>4. AudioTypes'
    <2>1. listed' \in BOOLEAN /\ state' \in {"ringing", "active", "held", "ended"}
      BY <1>1
    <2> QED
      BY <1>1, <1>2, <2>1 DEF AudioTypes
  <1>5. Frame'
    BY <1>1, <1>2 DEF Frame
  <1>6. Locking'
    BY <1>1, <1>2, <1>3, LockingKept DEF Ops
  <1>7. Owned'
    BY <1>1, <1>2, <1>3, OwnedKept
  <1>8. Ending'
    BY <1>1, <1>2, <1>3, EndingKept DEF Ops
  <1>9. Finishing'
    BY <1>1, <1>2, <1>3, FinishingKept DEF Ops
  <1>10. Silent'
    <2>1. registered => \A u \in Threads : Hushed(todo'[u], silenced')
      BY <1>1, <1>2, HushStays
    <2> QED
      BY <1>1, <1>2, <2>1, SilentKept DEF Silent
  <1> QED
    BY <1>3, <1>4, <1>5, <1>6, <1>7, <1>8, <1>9, <1>10 DEF AudioInv

LEMMA OneMore ==
    ASSUME NEW S, NEW s \in Seq(S), NEW x \in S PROVE Append(s, x) \in Seq(S)
  OBVIOUS

\* The goroutine of the recording is the last that touches it.
LEMMA FinishKeeps == ASSUME AudioInv, Finish PROVE AudioInv'
  <1> USE DEF call, livekit, lists, active, conns, recorder, flow
  <1>1. /\ finishing # <<>> /\ finishing' = Tail(finishing) /\ taping' = FALSE
        /\ delivered' = IF taped THEN Append(delivered, Head(finishing)) ELSE delivered
        /\ UNCHANGED <<plan, todo, state, mu, codec, capture, room, hub, hooked, registered, listed,
                       bridge, wsBridge, opus, conn, codecOf, silenced, due, raised, taped,
                       fed, media, heard, crashed>>
    BY DEF Finish
  <1>2. AudioTypes /\ Frame /\ Scripts /\ Locking /\ Owned /\ Ending /\ Finishing /\ Silent
    BY DEF AudioInv
  <1>3. /\ Scripts' /\ \A u \in Threads : Items(u)' = Items(u)
        /\ \A u \in Threads, op \in Ops : Awaits(u, op)' <=> Awaits(u, op)
    BY <1>1, <1>2, ScriptsStay
  <1>4. AudioTypes'
    <2>1. finishing \in Seq(BOOLEAN) /\ delivered \in Seq(BOOLEAN)
      BY <1>2 DEF AudioTypes
    <2>2. Head(finishing) \in BOOLEAN /\ finishing' \in Seq(BOOLEAN)
      BY <1>1, <2>1, TailOf
    <2>3. delivered' \in Seq(BOOLEAN)
      <3>1. Append(delivered, Head(finishing)) \in Seq(BOOLEAN)
        BY <2>1, <2>2, OneMore
      <3> QED
        BY <1>1, <2>1, <3>1
    <2>4. taping' \in BOOLEAN
      BY <1>1
    <2> QED
      BY <1>1, <1>2, <2>2, <2>3, <2>4 DEF AudioTypes
  <1>5. Frame'
    BY <1>1, <1>2 DEF Frame
  <1>6. Locking'
    BY <1>1, <1>2, <1>3, LockingKept DEF Ops
  <1>7. Owned'
    BY <1>1, <1>2, <1>3, OwnedKept
  <1>8. Ending'
    BY <1>1, <1>2, <1>3, EndingKept DEF Ops
  <1>9. Finishing'
    <2>1. \A u \in Threads : ~Awaits(u, "finalize") /\ ~Awaits(u, "finalize")'
      BY <1>1, <1>2, <1>3 DEF Finishing, Ops
    <2>2. CASE plan.recording
      <3>1. ~registered /\ Len(finishing) = 1 /\ delivered = <<>>
        BY <1>1, <1>2, <2>1, <2>2 DEF Finishing
      <3>2. finishing' = <<>>
        BY <1>1, <1>2, <3>1 DEF AudioTypes
      <3>3. Len(delivered') = IF taped THEN 1 ELSE 0
        BY <1>1, <3>1
      <3> QED
        BY <1>1, <2>1, <2>2, <3>1, <3>2, <3>3 DEF Finishing
    <2>3. CASE ~plan.recording
      BY <1>1, <2>1, <2>3 DEF Finishing
    <2> QED
      BY <2>2, <2>3
  <1>10. Silent'
    <2>1. registered => \A u \in Threads : Hushed(todo'[u], silenced')
      BY <1>1, <1>2, HushStays
    <2> QED
      BY <1>1, <1>2, <2>1, SilentKept DEF Silent
  <1> QED
    BY <1>3, <1>4, <1>5, <1>6, <1>7, <1>8, <1>9, <1>10 DEF AudioInv

\* The audio touches nothing that is to be released, but the buffer and the tape while they are in use.
LEMMA FlowKeeps ==
    ASSUME AudioInv,
           UNCHANGED <<plan, todo, state, mu, codec, livekit, lists, active, conns,
                       taping, finishing, delivered>>,
           capture' \in BOOLEAN, capture' => capture \/ codec = "open",
           taped' \in BOOLEAN, ~taping => taped' = taped,
           fed' \subseteq Bridges, heard' \subseteq Bridges, crashed' \in BOOLEAN, Frame'
    PROVE  AudioInv'
  <1> USE DEF livekit, lists, active, conns
  <1>1. AudioTypes /\ Frame /\ Scripts /\ Locking /\ Owned /\ Ending /\ Finishing /\ Silent
    BY DEF AudioInv
  <1>2. /\ Scripts' /\ \A u \in Threads : Items(u)' = Items(u)
        /\ \A u \in Threads, op \in Ops : Awaits(u, op)' <=> Awaits(u, op)
    BY <1>1, ScriptsStay
  <1>3. AudioTypes'
    BY <1>1 DEF AudioTypes
  <1>4. Locking'
    BY <1>1, <1>2, LockingKept DEF Ops
  <1>5. Owned'
    BY <1>1, <1>2, OwnedKept
  <1>6. Ending'
    BY <1>1, <1>2, EndingKept DEF Ops
  <1>7. Finishing'
    BY <1>1, <1>2, FinishingKept DEF Ops
  <1>8. Silent'
    <2>1. registered => \A u \in Threads : Hushed(todo'[u], silenced')
      BY <1>1, HushStays
    <2> QED
      BY <1>1, <2>1, SilentKept DEF Silent
  <1> QED
    BY <1>2, <1>3, <1>4, <1>5, <1>6, <1>7, <1>8 DEF AudioInv

LEMMA BrowserKeeps == ASSUME AudioInv, NEW b \in Bridges, Browser(b) PROVE AudioInv'
  <1> USE DEF call, livekit, lists, active, conns, recorder, flow
  <1>1. AudioTypes /\ Frame
    BY DEF AudioInv
  <1>2. CASE BrowserFrame(b)
    <2>1. fed' \subseteq Bridges /\ Frame'
      BY <1>1, <1>2 DEF BrowserFrame, AudioTypes, Frame
    <2>2. UNCHANGED <<plan, todo, call, lists, active, conns, recorder, media, heard, crashed>>
      BY <1>2 DEF BrowserFrame
    <2> QED
      BY <1>1, <2>1, <2>2, FlowKeeps DEF AudioTypes
  <1>3. CASE FeedCapturedPCM(b)
    <2>1. fed' \subseteq Bridges /\ Frame'
      BY <1>1, <1>3 DEF FeedCapturedPCM, AudioTypes, Frame
    <2>2. taped' \in BOOLEAN /\ (~taping => taped' = taped)
      BY <1>1, <1>3 DEF FeedCapturedPCM, Tape, AudioTypes
    <2>3. capture' \in BOOLEAN /\ (capture' => capture \/ codec = "open")
      BY <1>1, <1>3 DEF FeedCapturedPCM, AudioTypes
    <2>4. UNCHANGED <<plan, todo, state, mu, codec, livekit, lists, active, conns, taping, finishing,
                      delivered, media, heard, crashed>>
      BY <1>3 DEF FeedCapturedPCM
    <2> QED
      BY <1>1, <2>1, <2>2, <2>3, <2>4, FlowKeeps DEF AudioTypes
  <1> QED
    BY <1>2, <1>3 DEF Browser

LEMMA SendTickKeeps == ASSUME AudioInv, SendTick PROVE AudioInv'
  <1> USE DEF livekit, lists, active, conns, recorder, flow
  <1>1. AudioTypes /\ Frame
    BY DEF AudioInv
  <1>2. capture' = FALSE /\ UNCHANGED <<plan, todo, state, mu, codec, livekit, lists, active, conns, recorder, flow>>
    BY DEF SendTick
  <1>3. Frame'
    BY <1>1, <1>2 DEF Frame
  <1>4. capture' \in BOOLEAN /\ ~capture'
    BY <1>2
  <1> QED
    BY <1>1, <1>2, <1>3, <1>4, FlowKeeps DEF AudioTypes

\* The reader of the relay gives the room a frame twice at most.
LEMMA MediaKeeps == ASSUME AudioInv, Media PROVE AudioInv'
  <1> USE DEF call, livekit, lists, active, conns, recorder, flow
  <1>1. AudioTypes /\ Frame
    BY DEF AudioInv
  <1>2. /\ media \in [step : {"idle", "decode", "deliver", "encode", "write", "push"},
                      held : BOOLEAN, hooked : BOOLEAN, pushed : 0 .. 2]
        /\ media.held \in BOOLEAN /\ media.hooked \in BOOLEAN /\ media.pushed \in 0 .. 2
        /\ hooked \in BOOLEAN /\ Rest \in {"idle", "push"}
    BY <1>1 DEF AudioTypes, Frame, Rest
  <1>3. UNCHANGED <<plan, todo, call, lists, active, conns, taping, finishing, delivered, fed>>
    BY DEF Media, RelayData, Decode, PeerAudio, HookPush, Encode, WriteOpus
  <1>4. taped' \in BOOLEAN /\ (~taping => taped' = taped)
    BY <1>1 DEF Media, RelayData, Decode, PeerAudio, HookPush, Encode, WriteOpus, Tape, AudioTypes
  <1>5. heard' \subseteq Bridges
    BY <1>1 DEF Media, RelayData, Decode, PeerAudio, HookPush, Encode, WriteOpus, AudioTypes
  <1>6. crashed' \in BOOLEAN
    BY <1>1 DEF Media, RelayData, Decode, PeerAudio, HookPush, Encode, WriteOpus, AudioTypes
  <1>7. Frame'
    <2>1. CASE RelayData
      BY <2>1 DEF RelayData, Frame
    <2>2. CASE Decode
      BY <1>1, <1>2, <2>2 DEF Decode, Frame
    <2>3. CASE PeerAudio
      <3> DEFINE n == IF registered THEN PushPeerAudio(media.pushed) ELSE media.pushed
                 s == IF registered /\ bridge # None /\ opus # None THEN "encode" ELSE Rest
      <3>1. media.pushed = 0
        BY <1>1, <2>3 DEF PeerAudio, Frame
      <3>2. n \in 0 .. 2 /\ n <= 1 /\ s \in {"encode", "push", "idle"}
        BY <1>2, <3>1 DEF PushPeerAudio
      <3>3. media' = [media EXCEPT !.pushed = n, !.step = s]
        BY <2>3 DEF PeerAudio
      <3> HIDE DEF n, s
      <3>4. /\ media' \in [step : {"idle", "decode", "deliver", "encode", "write", "push"},
                            held : BOOLEAN, hooked : BOOLEAN, pushed : 0 .. 2]
            /\ media'.step = s /\ media'.pushed = n
        BY <1>2, <3>2, <3>3
      <3> QED
        BY <3>2, <3>4 DEF Frame
    <2>4. CASE HookPush
      <3> DEFINE n == PushPeerAudio(media.pushed)
      <3>1. media.pushed <= 1
        BY <1>1, <2>4 DEF HookPush, Frame
      <3>2. n \in 0 .. 2
        BY <1>2, <3>1 DEF PushPeerAudio
      <3>3. media' = [media EXCEPT !.pushed = n, !.step = "idle"]
        BY <2>4 DEF HookPush
      <3> HIDE DEF n
      <3>4. /\ media' \in [step : {"idle", "decode", "deliver", "encode", "write", "push"},
                            held : BOOLEAN, hooked : BOOLEAN, pushed : 0 .. 2]
            /\ media'.step = "idle"
        BY <1>2, <3>2, <3>3
      <3> QED
        BY <3>4 DEF Frame
    <2>5. CASE Encode
      BY <1>1, <1>2, <2>5 DEF Encode, Frame
    <2>6. CASE WriteOpus
      BY <1>1, <1>2, <2>6 DEF WriteOpus, Frame
    <2> QED
      BY <2>1, <2>2, <2>3, <2>4, <2>5, <2>6 DEF Media
  <1> QED
    BY <1>1, <1>3, <1>4, <1>5, <1>6, <1>7, FlowKeeps DEF AudioTypes

-----------------------------------------------------------------------------
(* The theorems *)

LEMMA TwoJoined == ASSUME NEW S, NEW x \in S, NEW y \in S PROVE <<x>> \o <<y>> = <<x, y>>
  <1> DEFINE q == <<x>> \o <<y>>
  <1>1. <<x>> \in Seq(S) /\ <<y>> \in Seq(S) /\ Len(<<x>>) = 1 /\ Len(<<y>>) = 1
    OBVIOUS
  <1>2. q \in Seq(S) /\ Len(q) = 2 /\ q[1] = x /\ q[2] = y
    BY <1>1
  <1> HIDE DEF q
  <1>3. q = <<x, y>>
    BY <1>2
  <1> QED
    BY <1>3 DEF q

LEMMA ThreeJoined ==
    ASSUME NEW S, NEW x \in S, NEW y \in S, NEW z \in S
    PROVE  <<x>> \o <<y>> \o <<z>> = <<x, y, z>>
  <1> DEFINE q == <<x, y>> \o <<z>>
  <1>1. <<x, y>> \in Seq(S) /\ <<z>> \in Seq(S) /\ Len(<<x, y>>) = 2 /\ Len(<<z>>) = 1
    OBVIOUS
  <1>2. q \in Seq(S) /\ Len(q) = 3 /\ q[1] = x /\ q[2] = y /\ q[3] = z
    BY <1>1
  <1> HIDE DEF q
  <1>3. q = <<x, y, z>>
    BY <1>2
  <1> QED
    BY <1>3, TwoJoined DEF q

LEMMA ScriptTypes ==
    ASSUME plan \in Plans, NEW t \in Threads
    PROVE  /\ Script(t) \in Seq(Chores) /\ Ordered(Script(t)) /\ \A done : Hushed(Script(t), done)
           /\ t \in Bridges => Script(t) \in {<<>>, Looking}
           /\ t \notin Bridges => \A x \in Elements(Script(t)) : x.op \notin {"make", "set"}
           /\ \A x \in Elements(Script(t)) : x.op \in Asked \cup {"activate", "drain"}
  <1> DEFINE short == {"lookup", "make", "set", "end", "remove", "unlist", "activate", "drain"}
  <1>1. \A op \in short : /\ Do(op) \in Seq(Chores) /\ Elements(Do(op)) = {Item(op, None)}
                          /\ Ordered(Do(op)) /\ \A done : Hushed(Do(op), done)
    BY SmallScripts DEF Ops
  <1>2. /\ <<>> \in Seq(Chores) /\ Elements(<<>>) = {} /\ Ordered(<<>>)
        /\ \A done : Hushed(<<>>, done)
    BY SmallScripts
  <1>3. \A op \in Asked : \A x \in Elements(Do(op)) : x.op = op
    BY <1>1 DEF Item, Asked
  <1>4. ASSUME NEW s \in Seq(Chores), NEW op \in Asked, Ordered(s), \A done : Hushed(s, done),
               \A x \in Elements(s) : x.op \in Asked
        PROVE  /\ s \o Do(op) \in Seq(Chores) /\ Ordered(s \o Do(op)) /\ \A done : Hushed(s \o Do(op), done)
               /\ Elements(s \o Do(op)) = Elements(s) \cup {Item(op, None)}
               /\ \A x \in Elements(s \o Do(op)) : x.op \in Asked
    <2>1. /\ Do(op) \in Seq(Chores) /\ Elements(Do(op)) = {Item(op, None)} /\ Ordered(Do(op))
          /\ \A done : Hushed(Do(op), done)
      BY <1>1 DEF Asked
    <2>2. \A x \in Elements(s), y \in Elements(Do(op)) : Precedes(x, y)
      BY <1>4, <2>1 DEF Precedes, Asked, Item
    <2>3. /\ s \o Do(op) \in Seq(Chores) /\ Ordered(s \o Do(op))
          /\ Elements(s \o Do(op)) = Elements(s) \cup Elements(Do(op))
      BY <1>4, <2>1, <2>2, ElementsAppended, OrderedAppended
    <2>4. \A done : Hushed(s \o Do(op), done)
      BY <1>4, <2>1, HushedAppended
    <2> QED
      BY <1>4, <2>1, <2>3, <2>4 DEF Item
  <1> DEFINE found == Do("lookup") \o Do("end")
             made == Do("lookup") \o Do("make")
  <1>5. /\ Do("lookup") \in Seq(Chores) /\ Ordered(Do("lookup")) /\ \A done : Hushed(Do("lookup"), done)
        /\ Elements(Do("lookup")) = {Item("lookup", None)}
        /\ \A x \in Elements(Do("lookup")) : x.op \in Asked
    BY <1>1 DEF Asked, Item
  <1>6. /\ found \in Seq(Chores) /\ Ordered(found) /\ \A done : Hushed(found, done)
        /\ Elements(found) = {Item("lookup", None), Item("end", None)}
        /\ \A x \in Elements(found) : x.op \in Asked
    BY <1>4, <1>5 DEF Asked
  <1>7. /\ made \in Seq(Chores) /\ Ordered(made) /\ \A done : Hushed(made, done)
        /\ \A x \in Elements(made) : x.op \in Asked
    BY <1>4, <1>5 DEF Asked
  <1> DEFINE asked == found \o Do("remove") \o Do("unlist")
             bridged == made \o Do("set")
  <1> HIDE DEF found, made
  <1>8. /\ found \o Do("remove") \in Seq(Chores) /\ Ordered(found \o Do("remove"))
        /\ \A done : Hushed(found \o Do("remove"), done)
        /\ Elements(found \o Do("remove")) = {Item("lookup", None), Item("end", None), Item("remove", None)}
        /\ \A x \in Elements(found \o Do("remove")) : x.op \in Asked
    BY <1>4, <1>6 DEF Asked
  <1>9. /\ asked \in Seq(Chores) /\ Ordered(asked) /\ \A done : Hushed(asked, done)
        /\ Elements(asked) = {Item("lookup", None), Item("end", None), Item("remove", None), Item("unlist", None)}
        /\ \A x \in Elements(asked) : x.op \in Asked
    BY <1>4, <1>8 DEF Asked
  <1>10. /\ bridged \in Seq(Chores) /\ Ordered(bridged) /\ \A done : Hushed(bridged, done)
         /\ \A x \in Elements(bridged) : x.op \in Asked
    BY <1>4, <1>7 DEF Asked
  <1>11. bridged = Looking
    <2> DEFINE S == {Item(op, None) : op \in Asked}
    <2>1. Item("lookup", None) \in S /\ Item("make", None) \in S /\ Item("set", None) \in S
      BY DEF Asked
    <2>2. /\ Do("lookup") = <<Item("lookup", None)>> /\ Do("make") = <<Item("make", None)>>
          /\ Do("set") = <<Item("set", None)>>
      BY DEF Do, Item
    <2> HIDE DEF S
    <2> QED
      BY <2>1, <2>2, ThreeJoined DEF made, Looking
  <1> HIDE DEF asked, bridged
  <1>12. CASE t \in Bridges
    <2>1. Script(t) = IF plan.kind[t] = "none" THEN <<>> ELSE bridged
      BY <1>12 DEF Script, bridged, made
    <2> QED
      BY <1>2, <1>10, <1>11, <1>12, <2>1
  <1>13. CASE t \notin Bridges
    <2>1. Script(t) \in {<<>>, Do("activate"), asked, found, Do("drain")}
      <3>1. CASE t \notin Enders
        BY <1>13, <3>1 DEF Script
      <3>2. CASE t \in Enders
        <4>1. plan.task[t] \in {"request", "peer", "teardown", "none"} /\ t # Relay
          BY <3>2, AudioAssumption
        <4> QED
          BY <1>13, <3>2, <4>1 DEF Script, asked, found
      <3> QED
        BY <3>1, <3>2
    <2>2. \A x \in Elements(Do("activate")) \cup Elements(Do("drain")) : x.op \in {"activate", "drain"}
      BY <1>1 DEF Item
    <2>3. \A x \in Elements(asked) \cup Elements(found) : x.op \in Asked /\ x.op \notin {"make", "set"}
      BY <1>6, <1>9 DEF Item
    <2> QED
      BY <1>1, <1>2, <1>6, <1>9, <1>13, <2>1, <2>2, <2>3
  <1> QED
    BY <1>12, <1>13

LEMMA AudioInit == ASSUME Init PROVE AudioInv
  <1>1. \A t \in Threads :
            /\ todo[t] = Script(t)
            /\ todo[t] \in Seq(Chores) /\ Ordered(todo[t]) /\ \A done : Hushed(todo[t], done)
            /\ t \in Bridges => todo[t] \in {<<>>, Looking}
            /\ t \notin Bridges => \A x \in Items(t) : x.op \notin {"make", "set"}
            /\ \A x \in Items(t) : x.op \in Asked \cup {"activate", "drain"}
    BY ScriptTypes DEF Init, Items
  <1>2. \A t \in Threads : /\ ~Awaits(t, "unlock") /\ ~Awaits(t, "attach") /\ ~Awaits(t, "provision")
                           /\ ~Awaits(t, "closeManagerCodec") /\ ~Awaits(t, "finalize")
    BY <1>1 DEF Awaits, Asked
  <1>3. AudioTypes
    <2>1. todo \in [Threads -> Seq(Chores)]
      BY <1>1 DEF Init
    <2>2. plan.recording \in BOOLEAN /\ taping = plan.recording
      BY AudioAssumption DEF Init
    <2>3. taping \in BOOLEAN
      BY <2>2
    <2>4. /\ conn \in [Bridges -> {"none", "open", "failed", "closed"}]
          /\ codecOf \in [Bridges -> {"none", "open", "closed"}]
          /\ due \in [Bridges -> SUBSET {"failed", "closed"}]
          /\ raised \in [Bridges -> SUBSET {"failed", "closed"}]
      BY DEF Init
    <2>5. finishing \in Seq(BOOLEAN) /\ delivered \in Seq(BOOLEAN)
      BY DEF Init
    <2>6. /\ capture \in BOOLEAN /\ registered \in BOOLEAN /\ listed \in BOOLEAN
          /\ taped \in BOOLEAN /\ crashed \in BOOLEAN /\ hooked \in BOOLEAN
      BY DEF Init
    <2> QED
      BY <2>1, <2>3, <2>4, <2>5, <2>6 DEF Init, AudioTypes
  <1>4. Frame
    BY DEF Init, Frame
  <1>5. Scripts
    <2>1. ASSUME NEW b \in Bridges PROVE Requested(b)
      <3>1. CASE todo[b] = Looking
        BY <3>1 DEF Requested
      <3>2. CASE todo[b] = <<>>
        BY <3>2, SmallScripts DEF Requested, Awaits, Items
      <3> QED
        BY <1>1, <3>1, <3>2 DEF Threads
    <2> QED
      BY <1>1, <2>1 DEF Scripts, Awaits
  <1>6. Locking
    BY <1>2 DEF Locking
  <1>7. Owned
    BY DEF Init, Owned
  <1>8. Ending
    BY <1>2 DEF Init, Ending
  <1>9. Finishing
    BY <1>2 DEF Init, Finishing
  <1>10. Silent
    BY <1>1 DEF Init, Silent, ClosingKeepsCall
  <1> QED
    BY <1>3, <1>4, <1>5, <1>6, <1>7, <1>8, <1>9, <1>10 DEF AudioInv

LEMMA AudioStays == ASSUME AudioInv, UNCHANGED vars PROVE AudioInv'
  <1> USE DEF vars, call, livekit, lists, active, conns, recorder, flow
  <1>1. AudioTypes /\ Frame
    BY DEF AudioInv
  <1>2. Frame'
    BY <1>1 DEF Frame
  <1>3. UNCHANGED <<plan, todo, state, mu, codec, livekit, lists, active, conns, taping, finishing, delivered,
                    capture, taped, fed, heard, crashed>>
    OBVIOUS
  <1> QED
    BY <1>1, <1>2, <1>3, FlowKeeps DEF AudioTypes

LEMMA AudioStep == ASSUME AudioInv, [Next]_vars PROVE AudioInv'
  <1>1. ASSUME NEW t \in Threads, Step(t) PROVE AudioInv'
    BY <1>1, LookupKeeps, SilenceKeeps, CloseKeeps, CloseCodecKeeps, ActivateKeeps, AttachCallKeeps,
       ProvisionKeeps, DetachCallKeeps, UnlockKeeps, EndKeeps, RemoveCallKeeps, UnlistKeeps, DrainKeeps,
       FinalizeKeeps, TakeCodecKeeps, CloseManagerCodecKeeps DEF Step
  <1>2. ASSUME NEW b \in Bridges, BridgeStep(b) PROVE AudioInv'
    BY <1>2, MakeKeeps, SetBridgeKeeps, SetWSBridgeKeeps DEF BridgeStep
  <1>3. CASE Over
    BY <1>3, AudioStays DEF Over
  <1> QED
    BY <1>1, <1>2, <1>3, BrowserKeeps, ConnectionLostKeeps, ConnectionOverKeeps, HoldOrResumeKeeps,
       FinishKeeps, SendTickKeeps, MediaKeeps, AudioStays DEF Next

\* What is checked follows from the invariant.
LEMMA Typed == AudioInv => TypeOK
  <1> SUFFICES ASSUME AudioInv PROVE TypeOK
    OBVIOUS
  <1>1. AudioTypes /\ Frame
    BY DEF AudioInv
  <1>2. \A t \in Threads : \A i \in DOMAIN todo[t] : todo[t][i].op \in Ops /\ todo[t][i].on \in Bridges \cup {None}
    <2> SUFFICES ASSUME NEW t \in Threads, NEW i \in DOMAIN todo[t]
                 PROVE  todo[t][i].op \in Ops /\ todo[t][i].on \in Bridges \cup {None}
      OBVIOUS
    <2>1. todo[t] \in Seq(Chores)
      BY <1>1 DEF AudioTypes
    <2>2. todo[t][i] \in Chores
      BY <2>1
    <2> QED
      BY <2>2 DEF Chores
  <1>3. /\ \A i \in DOMAIN finishing : finishing[i] \in BOOLEAN
        /\ \A i \in DOMAIN delivered : delivered[i] \in BOOLEAN
    BY <1>1 DEF AudioTypes
  <1>4. \A f \in {capture, registered, listed, taping, taped, crashed} : f \in BOOLEAN
    BY <1>1 DEF AudioTypes
  <1> QED
    BY <1>1, <1>2, <1>3, <1>4 DEF AudioTypes, Frame, TypeOK

\* Nobody at work has nothing left to release.
LEMMA NothingLeft == AudioInv => Released
  <1> SUFFICES ASSUME AudioInv, Quiet, ~registered, ~crashed
               PROVE  /\ \A b \in Bridges : conn[b] \in {"none", "closed"} /\ codecOf[b] # "open"
                      /\ state = "ended" => ~capture /\ codec = "closed" /\ room # "open"
                      /\ plan.recording => Len(delivered) = IF taped THEN 1 ELSE 0
    BY DEF Released
  <1>1. AudioTypes /\ Owned /\ Ending /\ Finishing /\ plan \in Plans
    BY DEF AudioInv, AudioTypes
  <1>2. ASSUME NEW t \in Threads
        PROVE  /\ \A x \in Items(t) : x.op \in Asked \cup {"activate", "drain"}
               /\ t \in Bridges => todo[t] # Setting
    <2>1. /\ t \in Bridges => Script(t) \in {<<>>, Looking}
          /\ \A x \in Elements(Script(t)) : x.op \in Asked \cup {"activate", "drain"}
      BY <1>1, ScriptTypes
    <2>2. todo[t] \in {<<>>, Script(t)}
      BY DEF Quiet
    <2>3. Looking # Setting /\ <<>> # Setting
      BY Onward DEF Looking, Setting
    <2> QED
      BY <2>1, <2>2, <2>3, SmallScripts DEF Items
  <1>3. \A b \in Bridges, op \in {"close", "closeCodec"} : ~Closing(op, b)
    <2>1. \A b \in Bridges : b \in Threads
      BY DEF Threads
    <2> QED
      BY <1>2, <2>1 DEF Closing, Item, Asked
  <1>4. \A t \in Threads : /\ ~Awaits(t, "closeManagerCodec") /\ ~Awaits(t, "takeCodec")
                           /\ ~Awaits(t, "detach") /\ ~Awaits(t, "finalize")
    BY <1>2 DEF Awaits, Asked
  <1>5. ASSUME NEW b \in Bridges PROVE conn[b] \in {"none", "closed"} /\ codecOf[b] # "open"
    <2>1. conn[b] \in {"none", "open", "failed", "closed"}
      BY <1>1 DEF AudioTypes
    <2> QED
      BY <1>1, <1>3, <2>1 DEF Owned
  <1>6. state = "ended" => ~capture /\ codec = "closed" /\ room # "open"
    BY <1>1, <1>4 DEF AudioTypes, Ending
  <1>7. ASSUME plan.recording PROVE Len(delivered) = IF taped THEN 1 ELSE 0
    <2>1. finishing = <<>>
      BY DEF Quiet
    <2>2. Len(finishing) # 1
      BY <2>1
    <2> QED
      BY <1>1, <1>4, <1>7, <2>2 DEF Finishing
  <1> QED
    BY <1>5, <1>6, <1>7

\* Every thread knows what it has to do, and everything is of its type.
THEOREM AudioTypesHold == Spec => []TypeOK
  <1>1. Init => AudioInv
    BY AudioInit
  <1>2. AudioInv /\ [Next]_vars => AudioInv'
    BY AudioStep
  <1>3. AudioInv => TypeOK
    BY Typed
  <1> QED
    BY <1>1, <1>2, <1>3, PTL DEF Spec

\* However the swap of bridges, removeCall, teardownAllCalls, the refusal of a late bridge and the end of the
\* call are interleaved: when the call is gone and nobody is at work, all that was opened for it is closed, and
\* its recording was handed over once.
THEOREM AllIsReleased == Spec => []Released
  <1>1. Init => AudioInv
    BY AudioInit
  <1>2. AudioInv /\ [Next]_vars => AudioInv'
    BY AudioStep
  <1>3. AudioInv => Released
    BY NothingLeft
  <1> QED
    BY <1>1, <1>2, <1>3, PTL DEF Spec

\* No close of a bridge hangs up a call that is still in the registry: who closes one while it is, has
\* silenced it before (Session.setBridge and setWSBridge).
THEOREM ClosingHangsUpNoCall == Spec => []ClosingKeepsCall
  <1>1. Init => AudioInv
    BY AudioInit
  <1>2. AudioInv /\ [Next]_vars => AudioInv'
    BY AudioStep
  <1>3. AudioInv => ClosingKeepsCall
    BY DEF AudioInv, Silent
  <1> QED
    BY <1>1, <1>2, <1>3, PTL DEF Spec
=============================================================================
