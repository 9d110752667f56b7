------------------------------- MODULE Fabric -------------------------------
(***************************************************************************)
(* The fabric that chooses a provider for a session (fabric.go): a catalog *)
(* with the health of each provider, routing by weight or by score, the    *)
(* chain of fallbacks, and the administration of the catalog (ai_api.go).  *)
(* Sessions resolve a provider, fall back when it fails and complete.      *)
(***************************************************************************)
EXTENDS Integers, Sequences, FiniteSets

CONSTANTS Callers,     \* sessions that ask for a provider
          MaxCount,    \* outcomes of a provider that are counted, a bound
          NoProvider

Providers == {"grok", "gemini", "loopback"}

ASSUME FabricAssumption == NoProvider \notin Providers /\ MaxCount \in Nat /\ IsFiniteSet(Callers)

VARIABLES enabled, weighted,    \* of each provider: is it enabled, has it a weight
          successes, failures,
          active,               \* ActiveSessions
          using                 \* history: the provider each session has got

counts == <<successes, failures>>
catalog == <<enabled, weighted>>
fabricVars == <<catalog, counts, active, using>>

FabricTypeOK ==
    /\ enabled \in [Providers -> BOOLEAN] /\ weighted \in [Providers -> BOOLEAN]
    /\ successes \in [Providers -> 0..MaxCount] /\ failures \in [Providers -> 0..MaxCount]
    /\ active \in [Providers -> 0..Cardinality(Callers)]
    /\ using \in [Callers -> Providers \cup {NoProvider}]

FabricInit ==
    /\ enabled = [p \in Providers |-> TRUE]
    /\ weighted = [p \in Providers |-> p # "loopback"]
    /\ successes = [p \in Providers |-> 0] /\ failures = [p \in Providers |-> 0]
    /\ active = [p \in Providers |-> 0]
    /\ using = [c \in Callers |-> NoProvider]

\* Who speaks a language, or is of a quality; nothing is required by "".
Serves(p, need) ==
    CASE need = ""        -> TRUE
      [] need = "fr-FR"   -> p = "gemini"
      [] need = "economy" -> p = "loopback"

\* Cost and latency, ten times the score, and the quality.
CostScore(p) == CASE p = "grok" -> 875 [] p = "gemini" -> 950 [] p = "loopback" -> 1000
LatencyScore(p) == CASE p = "grok" -> 800 [] p = "gemini" -> 500 [] p = "loopback" -> 1900
QualityScore(p) == CASE p = "grok" -> 1000 [] p = "gemini" -> 500 [] p = "loopback" -> 100

\* Health in percent; a failure that leaves less than the floor makes it the floor.
Health(s, f) == IF s + f = 0 THEN 100 ELSE (100 * s) \div (s + f)
HealthOf(p) == Health(successes[p], failures[p])

Score(p, policy) ==
    CASE policy = "cost_first" -> CostScore(p) * 7 + HealthOf(p) * 30
      [] policy = "latency"    -> LatencyScore(p) * 7 + HealthOf(p) * 30
      [] policy = "Premium"    -> QualityScore(p) * 6 + LatencyScore(p) * 2 + HealthOf(p) * 20
      [] policy = "primary"    -> CostScore(p) * 3 + LatencyScore(p) * 3 + QualityScore(p) * 2 + HealthOf(p) * 20

Policies == {"Weighted", "cost_first", "latency", "Premium", "primary"}
Needs == {"", "fr-FR", "economy"}

Eligible(need) == {p \in Providers : enabled[p] /\ HealthOf(p) >= 20 /\ Serves(p, need)}

\* By weight a provider of some weight is drawn; otherwise one of the best score is taken.
Candidates(need, policy) ==
    LET some == {p \in Eligible(need) : weighted[p]}
        by == IF policy = "Weighted" THEN "primary" ELSE policy
    IN  IF policy = "Weighted" /\ some # {} THEN some
        ELSE {p \in Eligible(need) : \A q \in Eligible(need) : Score(q, by) <= Score(p, by)}

ResolveProvider(c) ==
    /\ using[c] = NoProvider
    /\ \E need \in Needs, policy \in Policies : \E p \in Candidates(need, policy) :
           /\ using' = [using EXCEPT ![c] = p]
           /\ active' = [active EXCEPT ![p] = @ + 1]
    /\ UNCHANGED <<catalog, counts>>

Chain(p) == CASE p = "grok" -> <<"gemini", "loopback">> [] p = "gemini" -> <<"loopback">> [] p = "loopback" -> <<>>

\* As if the session were not taken off.
LeaveNot(p) == active

Leave(p) == [active EXCEPT ![p] = @ - 1]

\* The failed provider is left, and the first of its chain that is healthy taken, if there is one.
HandleFallback(c) ==
    /\ using[c] # NoProvider /\ failures[using[c]] < MaxCount
    /\ failures' = [failures EXCEPT ![using[c]] = @ + 1]
    /\ LET p == using[c]
           able == {i \in DOMAIN Chain(p) : enabled[Chain(p)[i]] /\ HealthOf(Chain(p)[i]) >= 50}
       IN  \/ /\ able = {}
              /\ using' = [using EXCEPT ![c] = NoProvider]
              /\ active' = Leave(p)
           \/ \E i \in able :
                  /\ \A j \in able : i <= j
                  /\ using' = [using EXCEPT ![c] = Chain(p)[i]]
                  /\ active' = [Leave(p) EXCEPT ![Chain(p)[i]] = @ + 1]
    /\ UNCHANGED <<catalog, successes>>

CompleteSession(c) ==
    /\ using[c] # NoProvider
    /\ LET p == using[c]
       IN  /\ active' = [active EXCEPT ![p] = IF @ - 1 < 0 THEN 0 ELSE @ - 1]
           /\ \/ successes[p] < MaxCount /\ successes' = [successes EXCEPT ![p] = @ + 1] /\ UNCHANGED failures
              \/ failures[p] < MaxCount /\ failures' = [failures EXCEPT ![p] = @ + 1] /\ UNCHANGED successes
    /\ using' = [using EXCEPT ![c] = NoProvider]
    /\ UNCHANGED catalog

\* updateProvider writes back what the request leaves out as it read it, maybe long ago: any values.
SetProviderStatus(p) ==
    /\ \E e, w \in BOOLEAN : enabled' = [enabled EXCEPT ![p] = e] /\ weighted' = [weighted EXCEPT ![p] = w]
    /\ UNCHANGED <<counts, active, using>>

FabricNext ==
    \/ \E c \in Callers : ResolveProvider(c) \/ HandleFallback(c) \/ CompleteSession(c)
    \/ \E p \in Providers : SetProviderStatus(p)

-----------------------------------------------------------------------------
(* The catalog's count of active sessions is the number of sessions that   *)
(* have the provider, however many fall back, complete and are turned away *)
(* at once (HandleFallback, CompleteSession).                              *)
ActiveIsSessions ==
    \A p \in Providers : active[p] = Cardinality({c \in Callers : using[c] = p})
=============================================================================
