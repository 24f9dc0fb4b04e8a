------------------------ MODULE ExecutionPolicyProofs ------------------------
(***************************************************************************)
(* Proofs about ExecutionPolicy: what a request in flight looks like, that *)
(* the two guardrails exclude each other, that a host executes under       *)
(* settings that stood at some moment of its claim, and that the events    *)
(* about the real_apply switch say how it stands.                          *)
(***************************************************************************)
EXTENDS ExecutionPolicy, SequenceTheorems, WellFoundedInduction, TLAPS

(* Every set of natural numbers that is not empty has a least element.     *)
LEMMA LeastOf ==
  ASSUME NEW S \in SUBSET Nat, S # {}
  PROVE  \E m \in S : \A k \in S : m <= k
<1>1. PICK R : R = OpToRel(<, Nat)
  OBVIOUS
<1>2. R = {p \in Nat \X Nat : p[1] < p[2]}
  BY <1>1 DEF OpToRel
<1>3. IsWellFoundedOn(R, Nat)
  BY <1>1, NatLessThanWellFounded, Zenon
<1>4. PICK m \in S : \A k \in S : ~(<<k, m>> \in R)
  BY <1>3, WFMin
<1>5. ASSUME NEW k \in S PROVE m <= k
  <2>1. m \in Nat /\ k \in Nat /\ ~(<<k, m>> \in R)
    BY <1>4
  <2>2. k < m => <<k, m>> \in R
    BY <1>2, <2>1
  <2> QED
    BY <2>1, <2>2
<1> QED
  BY <1>5

(* The first check that holds gives the outcome.                           *)
LEMMA FirstCheck ==
  ASSUME NEW n \in Nat, NEW checks, DOMAIN checks = 1..n,
         NEW k \in 1..n, checks[k][1]
  PROVE  \E i \in 1..n : /\ checks[i][1]
                         /\ \A j \in 1..(i - 1) : ~checks[j][1]
                         /\ FirstOf(checks) = checks[i][2]
<1> DEFINE S == {i \in 1..n : checks[i][1]}
           IsFirst(i) == checks[i][1] /\ \A j \in 1..(i - 1) : ~checks[j][1]
<1>1. PICK m \in S : \A i \in S : m <= i
  <2>1. k \in S /\ S \in SUBSET Nat
    OBVIOUS
  <2> HIDE DEF S
  <2> QED
    BY <2>1, LeastOf
<1>2. m \in DOMAIN checks /\ IsFirst(m)
  BY <1>1
<1>3. PICK i : i = CHOOSE j \in DOMAIN checks : IsFirst(j)
  OBVIOUS
<1>4. i \in DOMAIN checks /\ IsFirst(i)
  BY <1>2, <1>3
<1>5. FirstOf(checks) = checks[i][2]
  BY <1>3 DEF FirstOf
<1> QED
  BY <1>4, <1>5

(* What an outcome says of what a Linux host was told: it installs only if *)
(* mode, switch, name and guardrails let it, and names a check that failed. *)
LEMMA LinuxOutcomes ==
  ASSUME machine \in Machine,
         NEW works \in BOOLEAN, NEW done \in BOOLEAN, NEW o,
         o = LinuxOutcome(works, done)
  PROVE  /\ o = "installed" =>
              /\ Mode = "apply" /\ RealApply /\ machine.safe
              /\ Allowed(Told("patterns"))
              /\ Told("security_only") = "on" => machine.security
              /\ Told("security_and_critical") = "on" =>
                   machine.security \/ machine.critical
         /\ o = "real-apply-disabled" => ~RealApply
         /\ o = "not-allowed" => ~Allowed(Told("patterns"))
         /\ o = "security-only" => Told("security_only") = "on"
         /\ o = "security-and-critical" =>
              Told("security_and_critical") = "on"
         /\ o \in {"installed", "real-apply-disabled", "not-allowed",
                   "security-only", "security-and-critical", "dry-run",
                   "error", "invalid-name", "latest"}
<1> DEFINE checks ==
      << <<Mode # "apply" /\ works, "dry-run">>,
         <<Mode # "apply", "error">>,
         <<~RealApply /\ done, "real-apply-disabled">>,
         <<~RealApply, "error">>,
         <<~machine.safe, "invalid-name">>,
         <<~Allowed(Told("patterns")), "not-allowed">>,
         <<works /\ installed, "latest">>,
         <<Told("security_only") = "on" /\ ~HasSecurityCandidate(works),
           "security-only">>,
         <<Told("security_and_critical") = "on" /\ ~machine.critical
             /\ ~HasSecurityCandidate(works), "security-and-critical">>,
         <<done, "installed">>,
         <<TRUE, "error">> >>
<1>1. DOMAIN checks = 1..11 /\ 11 \in Nat /\ checks[11][1]
  OBVIOUS
<1>2. o = FirstOf(checks)
  BY DEF LinuxOutcome
<1>3. PICK i \in 1..11 : /\ checks[i][1]
                         /\ \A j \in 1..(i - 1) : ~checks[j][1]
                         /\ o = checks[i][2]
  <2> HIDE DEF checks
  <2>1. PICK n, c : n \in Nat /\ n = 11 /\ c = checks
    OBVIOUS
  <2>2. DOMAIN c = 1..n /\ n \in 1..n /\ c[n][1]
    BY <1>1, <2>1
  <2>3. \E i \in 1..n : /\ c[i][1]
                        /\ \A j \in 1..(i - 1) : ~c[j][1]
                        /\ FirstOf(c) = c[i][2]
    BY <2>2, FirstCheck
  <2> QED
    BY <1>2, <2>1, <2>3
<1> QED
  BY <1>3 DEF HasSecurityCandidate

-----------------------------------------------------------------------------
(* The steps of requests.                                                  *)

Words == Texts \cup {"", "unset", "other", "failed", "applied",
                     "reboot-required", "reboot-scheduled"}
Event == [key : Keys \cup {"job"}, value : Words]
AStep == [op : {"see", "fill", "put", "trace", "note", "save"},
          key : Keys \cup {"job"}, value : Words, list : Seq(Event)]
Sound(s) ==
  /\ s.op \in {"see", "fill", "put"} => s.key \in Keys
  /\ s.op = "put" => s.value \in Values(s.key)
  /\ s.op = "fill" => s.key \in Filled
Other(k) == IF k = "security_only" THEN "security_and_critical"
            ELSE "security_only"
Pair == {"security_only", "security_and_critical"}
PutsOn(s) == s.op = "put" /\ s.key \in Pair /\ s.value = "on"
PutsOff(s) == s.op = "put" /\ s.key \in Pair /\ s.value = "off"
Paired(todo) ==
  \A i \in DOMAIN todo : PutsOn(todo[i]) =>
    /\ i + 1 \in DOMAIN todo
    /\ PutsOff(todo[i + 1]) /\ todo[i + 1].key = Other(todo[i].key)
WellFormed(todo) ==
  /\ todo \in Seq(AStep)
  /\ \A i \in DOMAIN todo : Sound(todo[i])
  /\ Paired(todo)

(* A suffix of a request.                                                  *)
LEMMA SuffixIs ==
  ASSUME NEW S, NEW s \in Seq(S), NEW n \in 1..(Len(s) + 1), NEW r,
         r = SubSeq(s, n, Len(s))
  PROVE  /\ r \in Seq(S) /\ Len(r) = Len(s) - n + 1
         /\ \A i \in DOMAIN r : i + n - 1 \in DOMAIN s /\ r[i] = s[i + n - 1]
         /\ \A i \in DOMAIN s : i >= n =>
              i - n + 1 \in DOMAIN r /\ r[i - n + 1] = s[i]
<1>1. Len(s) \in Nat /\ DOMAIN s = 1..Len(s) /\ n \in Int /\ Len(s) \in Int
  BY LenProperties
<1>2. \A i \in n..Len(s) : s[i] \in S
  BY <1>1, ElementOfSeq
<1>3. /\ r \in Seq(S) /\ Len(r) = Len(s) - n + 1
      /\ \A i \in 1..(Len(s) - n + 1) : r[i] = s[n + i - 1]
  BY <1>1, <1>2, SubSeqProperties
<1>4. DOMAIN r = 1..(Len(s) - n + 1)
  BY <1>3, LenProperties
<1> QED
  BY <1>1, <1>3, <1>4

(* A suffix of a well-formed request is well-formed.                       *)
LEMMA SuffixWellFormed ==
  ASSUME NEW s, WellFormed(s), NEW n \in 1..(Len(s) + 1)
  PROVE  WellFormed(SubSeq(s, n, Len(s)))
<1>1. PICK r : r = SubSeq(s, n, Len(s))
  OBVIOUS
<1>2. /\ r \in Seq(AStep)
      /\ \A i \in DOMAIN r : i + n - 1 \in DOMAIN s /\ r[i] = s[i + n - 1]
      /\ \A i \in DOMAIN s : i >= n =>
           i - n + 1 \in DOMAIN r /\ r[i - n + 1] = s[i]
  BY <1>1, SuffixIs DEF WellFormed
<1>3. \A i \in DOMAIN r : i \in Nat /\ i >= 1
  BY <1>2, LenProperties
<1>4. Paired(r)
  <2> SUFFICES ASSUME NEW i \in DOMAIN r, PutsOn(r[i])
               PROVE  /\ i + 1 \in DOMAIN r
                      /\ PutsOff(r[i + 1]) /\ r[i + 1].key = Other(r[i].key)
    BY DEF Paired
  <2>1. PICK k : k = i + n - 1
    OBVIOUS
  <2>2. /\ k \in DOMAIN s /\ r[i] = s[k] /\ k + 1 \in DOMAIN s
        /\ PutsOff(s[k + 1]) /\ s[k + 1].key = Other(s[k].key)
    BY <1>2, <2>1 DEF WellFormed, Paired
  <2>3. k + 1 >= n /\ (k + 1) - n + 1 = i + 1
    BY <1>3, <2>1
  <2> QED
    BY <1>2, <2>2, <2>3
<1> QED
  BY <1>1, <1>2, <1>4 DEF WellFormed

(* What is passed over changes nothing; what is left is a suffix.          *)
LEMMA RestIs ==
  ASSUME NEW S, NEW todo \in Seq(S), NEW p, NEW seen, NEW rows
  PROVE  \E n \in 1..(Len(todo) + 1) :
           /\ Rest(p, todo, seen, rows) = SubSeq(todo, n, Len(todo))
           /\ \A i \in 1..(n - 1) : NoOp(p, todo, todo[i], seen, rows)
<1> DEFINE Passed(i) == NoOp(p, todo, todo[i], seen, rows)
           IsNext(n) == /\ \A i \in 1..(n - 1) : Passed(i)
                        /\ n <= Len(todo) => ~Passed(n)
           L == {n \in 1..(Len(todo) + 1) : n <= Len(todo) => ~Passed(n)}
<1>1. Len(todo) \in Nat
  BY LenProperties
<1> HIDE DEF Passed
<1>2. PICK m \in L : \A k \in L : m <= k
  <2>1. Len(todo) + 1 \in L /\ L \in SUBSET Nat
    BY <1>1
  <2> HIDE DEF L
  <2> QED
    BY <2>1, LeastOf
<1>3. m \in 1..(Len(todo) + 1) /\ IsNext(m)
  BY <1>1, <1>2
<1> HIDE DEF IsNext
<1>4. PICK n : n = CHOOSE k \in 1..(Len(todo) + 1) : IsNext(k)
  OBVIOUS
<1>5. n \in 1..(Len(todo) + 1) /\ IsNext(n)
  BY <1>3, <1>4
<1>6. Rest(p, todo, seen, rows) = SubSeq(todo, n, Len(todo))
  BY <1>4 DEF Rest, IsNext, Passed
<1> QED
  BY <1>5, <1>6 DEF IsNext, Passed

(* So is the concatenation of two of them.                                 *)
LEMMA ConcatWellFormed ==
  ASSUME NEW s, NEW t, WellFormed(s), WellFormed(t)
  PROVE  WellFormed(s \o t)
<1>1. PICK r : r = s \o t
  OBVIOUS
<1>2. /\ s \in Seq(AStep) /\ t \in Seq(AStep) /\ r \in Seq(AStep)
      /\ Len(s) \in Nat /\ DOMAIN s = 1..Len(s)
      /\ Len(t) \in Nat /\ DOMAIN t = 1..Len(t)
      /\ DOMAIN r = 1..(Len(s) + Len(t))
      /\ \A i \in 1..(Len(s) + Len(t)) :
           r[i] = IF i <= Len(s) THEN s[i] ELSE t[i - Len(s)]
  BY <1>1, ConcatProperties, LenProperties DEF WellFormed
<1>3. ASSUME NEW i \in DOMAIN r
      PROVE  Sound(r[i])
  <2>1. \/ i \in DOMAIN s /\ r[i] = s[i]
        \/ i - Len(s) \in DOMAIN t /\ r[i] = t[i - Len(s)]
    BY <1>2
  <2> QED
    BY <2>1 DEF WellFormed
<1>4. ASSUME NEW i \in DOMAIN r, PutsOn(r[i])
      PROVE  /\ i + 1 \in DOMAIN r
             /\ PutsOff(r[i + 1]) /\ r[i + 1].key = Other(r[i].key)
  <2>1. CASE i <= Len(s)
    <3>1. /\ i \in DOMAIN s /\ r[i] = s[i] /\ i + 1 \in DOMAIN s
          /\ PutsOff(s[i + 1]) /\ s[i + 1].key = Other(s[i].key)
      BY <1>2, <1>4, <2>1 DEF WellFormed, Paired
    <3> QED
      BY <1>2, <3>1
  <2>2. CASE i > Len(s)
    <3>1. PICK k : k = i - Len(s)
      OBVIOUS
    <3>0. k \in DOMAIN t /\ r[i] = t[k]
      BY <1>2, <2>2, <3>1
    <3>2. /\ k \in DOMAIN t /\ r[i] = t[k] /\ k + 1 \in DOMAIN t
          /\ PutsOff(t[k + 1]) /\ t[k + 1].key = Other(t[k].key)
      BY <1>4, <3>0 DEF WellFormed, Paired
    <3>3. i + 1 \in DOMAIN r /\ r[i + 1] = t[k + 1]
      BY <1>2, <2>2, <3>1, <3>2
    <3> QED
      BY <3>2, <3>3
  <2> QED
    BY <1>2, <2>1, <2>2
<1> QED
  BY <1>1, <1>2, <1>3, <1>4 DEF WellFormed, Paired

(* One step, of a switch, of a guardrail, or of the others.                *)
LEMMA StepWellFormed ==
  ASSUME NEW op \in {"see", "put", "trace", "note"},
         NEW k \in Keys \cup {"job"}, NEW v \in Words,
         op \in {"see", "put"} => k \in Keys,
         op = "put" => v \in Values(k) /\ (k \in Pair => v # "on")
  PROVE  WellFormed(Step(op, k, v))
<1>1. PICK s : s = [op |-> op, key |-> k, value |-> v, list |-> <<>>]
  OBVIOUS
<1>2. s \in AStep
  BY <1>1, EmptySeq DEF AStep
<1>3. Step(op, k, v) = <<s>>
  BY <1>1 DEF Step
<1>4. <<s>> \in Seq(AStep) /\ DOMAIN <<s>> = {1} /\ <<s>>[1] = s
  BY <1>2
<1>5. Sound(s) /\ ~PutsOn(s)
  BY <1>1 DEF Sound, PutsOn
<1> QED
  BY <1>3, <1>4, <1>5 DEF WellFormed, Paired

(* So is an empty one.                                                     *)
LEMMA NoneWellFormed == WellFormed(<<>>)
BY EmptySeq DEF WellFormed, Paired

(* The values of the keys, and what the normalisations return.             *)
LEMMA ValuesAreWords ==
  /\ \A k \in Keys : Values(k) \subseteq Texts
  /\ Texts \subseteq Words
  /\ {"on", "off"} \subseteq Texts
  /\ Pair \subseteq Switches /\ Switches \subseteq Keys
  /\ \A k \in Switches : Values(k) = {"on", "off"}
  /\ {"mode", "group", "patterns", "reboot_policy"} \subseteq Keys
  /\ Values("group") = Values("mode")
  /\ \A v : NormalizedMode(v) \in Values("mode")
  /\ \A v : NormalizedPolicy(v) \in Values("reboot_policy")
  /\ Values("patterns") = {"any", "listed"}
BY DEF Values, Texts, Words, Keys, Switches, Pair, NormalizedMode,
       NormalizedPolicy

(* Turning a guardrail on turns the other one off next.                    *)
LEMMA GuardrailWellFormed ==
  ASSUME NEW k \in Pair, NEW v \in {"on", "off"}
  PROVE  WellFormed(Guardrail(k, Other(k), v))
<1>0. /\ Other(k) \in Pair /\ Other(k) \in Keys /\ k \in Keys
      /\ v \in Values(k) /\ "off" \in Values(Other(k)) /\ v \in Words
      /\ "off" \in Words
  BY ValuesAreWords DEF Other, Pair
<1>1. CASE v = "off"
  <2>1. WellFormed(Put(k, v))
    BY <1>0, <1>1, StepWellFormed DEF Put
  <2>2. Guardrail(k, Other(k), v) = Put(k, v) \o <<>>
    BY <1>1 DEF Guardrail
  <2> QED
    BY <2>1, <2>2, NoneWellFormed, ConcatWellFormed
<1>2. CASE v = "on"
  <2>1. PICK s, u :
          /\ s = [op |-> "put", key |-> k, value |-> "on", list |-> <<>>]
          /\ u = [op |-> "put", key |-> Other(k), value |-> "off",
                  list |-> <<>>]
    OBVIOUS
  <2>2. s \in AStep /\ u \in AStep
    BY <1>0, <1>2, <2>1, EmptySeq DEF AStep
  <2>3. PICK r : r = Guardrail(k, Other(k), v)
    OBVIOUS
  <2>4. /\ r \in Seq(AStep) /\ DOMAIN r = {1, 2}
        /\ r[1] = s /\ r[2] = u
    <3>1. Put(k, v) = <<s>> /\ Put(Other(k), "off") = <<u>>
      BY <1>2, <2>1 DEF Put, Step
    <3>2. r = <<s>> \o <<u>>
      BY <1>2, <2>3, <3>1 DEF Guardrail
    <3>3. <<s>> \in Seq(AStep) /\ <<u>> \in Seq(AStep)
      BY <2>2
    <3>4. /\ r \in Seq(AStep) /\ Len(r) = 2
          /\ r[1] = s /\ r[2] = u
      BY <3>2, <3>3, ConcatProperties
    <3> QED
      BY <3>4, LenProperties
  <2>5. Sound(s) /\ Sound(u) /\ ~PutsOn(u) /\ PutsOff(u) /\ s.key = k
        /\ u.key = Other(k)
    BY <1>0, <1>2, <2>1 DEF Sound, PutsOn, PutsOff
  <2> QED
    BY <2>3, <2>4, <2>5 DEF WellFormed, Paired
<1> QED
  BY <1>1, <1>2

(* The requests of operators, of a claim and of a result.                  *)
LEMMA SeeWellFormed == ASSUME NEW k \in Keys PROVE WellFormed(See(k))
<1>1. "" \in Words
  BY DEF Words
<1> QED
  BY <1>1, StepWellFormed DEF See

(* The reads of GET /settings/execution-mode.                              *)
LEMMA ShowWellFormed == WellFormed(Show)
<1>1. \A k \in Keys : WellFormed(See(k))
  BY SeeWellFormed
<1>2. {"real_apply", "security_only", "security_and_critical", "patterns",
       "reboot_policy", "scan_apply", "download_install"} \subseteq Keys
  BY DEF Keys, Switches
<1> QED
  BY <1>1, <1>2, NoneWellFormed, ConcatWellFormed DEF Show

(* The steps of an update.                                                 *)
LEMMA UpdateWellFormed == ASSUME NEW b \in Bodies PROVE WellFormed(Update(b))
<1>1. /\ \A k \in Keys : b[k] \in Words
      /\ \A k \in Switches \cup {"patterns"} :
           b[k] = "unset" \/ b[k] \in Values(k)
  <2>1. b \in Body /\ \A k \in Keys \ {"mode", "reboot_policy"} :
                        b[k] \in Values(k) \cup {"unset"}
    BY ConstantsOK
  <2>2. Switches \cup {"patterns"} \subseteq Keys \ {"mode", "reboot_policy"}
    BY DEF Keys, Switches
  <2> QED
    BY <2>1, <2>2 DEF Body, Words
<1>2. \A k \in Keys : WellFormed(See(k))
  BY SeeWellFormed
<1>3. ASSUME NEW k \in Keys, NEW v \in Values(k), k \notin Pair
      PROVE  WellFormed(Put(k, v))
  BY <1>3, StepWellFormed, ValuesAreWords DEF Put
<1>4. ASSUME NEW k \in Keys, NEW v \in Words
      PROVE  WellFormed(Trace(k, v))
  BY StepWellFormed DEF Trace
<1>5. ASSUME NEW k \in Switches \ Pair, NEW v \in Values(k)
      PROVE  WellFormed(Switch(k, v)) /\ WellFormed(Put(k, v) \o Trace(k, v))
  <2>1. k \in Keys /\ v \in Words
    BY ValuesAreWords
  <2>2. WellFormed(See(k)) /\ WellFormed(Put(k, v)) /\ WellFormed(Trace(k, v))
    BY <1>2, <1>3, <1>4, <1>5, <2>1
  <2> QED
    BY <2>2, ConcatWellFormed DEF Switch
<1>6. WellFormed(RebootPolicy(b["reboot_policy"]))
  <2>1. PICK k : k = "reboot_policy"
    OBVIOUS
  <2>2. k \in Keys /\ k \notin Pair /\ NormalizedPolicy(b[k]) \in Values(k)
    BY <2>1, ValuesAreWords DEF Pair
  <2>3. /\ WellFormed(See(k)) /\ WellFormed(Put(k, NormalizedPolicy(b[k])))
        /\ WellFormed(Trace(k, b[k]))
    BY <1>1, <1>2, <1>3, <1>4, <2>2
  <2> QED
    BY <2>1, <2>3, ConcatWellFormed DEF RebootPolicy
<1>7. /\ WellFormed(Put("group", NormalizedMode(b["mode"])))
      /\ WellFormed(Put("mode", NormalizedMode(b["mode"])))
  <2>1. {"mode", "group"} \subseteq Keys \ Pair
    BY ValuesAreWords DEF Pair
  <2>2. /\ NormalizedMode(b["mode"]) \in Values("mode")
        /\ NormalizedMode(b["mode"]) \in Values("group")
    BY ValuesAreWords
  <2> QED
    BY <1>3, <2>1, <2>2
<1>8. /\ WellFormed(Given(b, "real_apply",
                          Switch("real_apply", b["real_apply"])))
      /\ WellFormed(Given(b, "download_install",
                          Switch("download_install", b["download_install"])))
      /\ WellFormed(Given(b, "scan_apply",
                          Put("scan_apply", b["scan_apply"])
                          \o Trace("scan_apply", b["scan_apply"])))
  <2>1. {"real_apply", "download_install", "scan_apply"} \subseteq
          Switches \ Pair
    BY DEF Switches, Pair
  <2> QED
    BY <1>1, <1>5, <2>1, NoneWellFormed DEF Given
<1>9. /\ WellFormed(Given(b, "security_only",
                 Guardrail("security_only", "security_and_critical",
                           b["security_only"])))
      /\ WellFormed(Given(b, "security_and_critical",
                 Guardrail("security_and_critical", "security_only",
                           b["security_and_critical"])))
  <2>1. \A k \in Pair : b[k] = "unset" \/ b[k] \in {"on", "off"}
    BY <1>1, ValuesAreWords
  <2>2. \A k \in Pair : b[k] # "unset" =>
          WellFormed(Guardrail(k, Other(k), b[k]))
    BY <2>1, GuardrailWellFormed
  <2>3. /\ "security_only" \in Pair /\ "security_and_critical" \in Pair
        /\ Other("security_only") = "security_and_critical"
        /\ Other("security_and_critical") = "security_only"
    BY DEF Pair, Other
  <2> QED
    BY <2>2, <2>3, NoneWellFormed DEF Given
<1>10. WellFormed(Given(b, "patterns", Put("patterns", b["patterns"])))
  <2>1. "patterns" \in Keys \ Pair
    BY ValuesAreWords DEF Pair
  <2> QED
    BY <1>1, <1>3, <2>1, NoneWellFormed DEF Given
<1>11. WellFormed(Given(b, "reboot_policy", RebootPolicy(b["reboot_policy"])))
  BY <1>6, NoneWellFormed DEF Given
<1>12. WellFormed(See("scan_apply"))
  BY <1>2, ValuesAreWords DEF Keys, Switches
<1> QED
  BY <1>7, <1>8, <1>9, <1>10, <1>11, <1>12, ShowWellFormed, NoneWellFormed,
     ConcatWellFormed DEF Update

(* A result's steps: events, and a policy that is read.                    *)
LEMMA ResultWellFormed == WellFormed(ResultNotes)
<1>1. \A v \in {"failed", "applied", "reboot-required", "reboot-scheduled"} :
        WellFormed(Note(v))
  BY StepWellFormed DEF Note, Words
<1>2. WellFormed(See("reboot_policy"))
  BY SeeWellFormed, ValuesAreWords
<1> QED
  BY <1>1, <1>2, NoneWellFormed, ConcatWellFormed DEF ResultNotes

(* A claim's steps: reads.                                                 *)
LEMMA ClaimWellFormed ==
  ASSUME NEW s PROVE WellFormed(ClaimReads(s))
<1>1. \A k \in Keys : WellFormed(See(k))
  BY SeeWellFormed
<1>2. {"real_apply", "security_only", "security_and_critical", "patterns",
       "reboot_policy", "scan_apply", "download_install", "mode", "group"}
        \subseteq Keys
  BY DEF Keys, Switches
<1> QED
  BY <1>1, <1>2, NoneWellFormed, ConcatWellFormed DEF ClaimReads

(* Which steps they have.                                                  *)
Reads(k) == [op |-> "see", key |-> k, value |-> "", list |-> <<>>]
(* A read reads its key.                                                   *)
LEMMA ReadsIs == \A k : Reads(k).op = "see" /\ Reads(k).key = k
BY Zenon DEF Reads

(* The steps of one read.                                                  *)
LEMMA SeeRange == ASSUME NEW k PROVE Range(See(k)) = {Reads(k)}
<1>1. PICK s : s = Reads(k)
  OBVIOUS
<1>2. See(k) = <<s>>
  BY <1>1 DEF See, Step, Reads
<1> QED
  BY <1>1, <1>2 DEF Range

(* The steps of a concatenation.                                           *)
LEMMA ConcatRange ==
  ASSUME NEW s, NEW t, WellFormed(s), WellFormed(t)
  PROVE  Range(s \o t) = Range(s) \cup Range(t)
BY RangeConcatenation DEF WellFormed

ClaimKeys(s) ==
  (IF Prevents(s) THEN {} ELSE {"reboot_policy"})
  \cup (IF Linux THEN {"mode"} \cup (IF machine.grouped THEN {"group"} ELSE {})
        ELSE {})
  \cup {"real_apply", "security_only", "security_and_critical", "patterns",
        "scan_apply", "download_install"}

(* A claim reads the keys of ClaimKeys, each once.                         *)
LEMMA ClaimRange ==
  ASSUME NEW s PROVE Range(ClaimReads(s)) = {Reads(k) : k \in ClaimKeys(s)}
<1>1. \A k \in Keys : WellFormed(See(k)) /\ Range(See(k)) = {Reads(k)}
  BY SeeWellFormed, SeeRange
<1>2. {"real_apply", "security_only", "security_and_critical", "patterns",
       "reboot_policy", "scan_apply", "download_install", "mode", "group"}
        \subseteq Keys
  BY DEF Keys, Switches
<1>3. Range(<<>>) = {}
  BY DEF Range
<1>4. PICK a, b :
        /\ a = IF Prevents(s) THEN <<>> ELSE See("reboot_policy")
        /\ b = IF ~Linux THEN <<>>
               ELSE See("mode")
                    \o (IF machine.grouped THEN See("group") ELSE <<>>)
  OBVIOUS
<1>5. /\ WellFormed(a)
      /\ Range(a) = IF Prevents(s) THEN {} ELSE {Reads("reboot_policy")}
  BY <1>1, <1>2, <1>3, <1>4, NoneWellFormed
<1>6. PICK g : g = IF machine.grouped THEN See("group") ELSE <<>>
  OBVIOUS
<1>7. /\ WellFormed(g)
      /\ Range(g) = IF machine.grouped THEN {Reads("group")} ELSE {}
  BY <1>1, <1>2, <1>3, <1>6, NoneWellFormed
<1>8. /\ WellFormed(b)
      /\ Range(b) = IF Linux THEN {Reads("mode")} \cup Range(g) ELSE {}
  <2>1. /\ WellFormed(See("mode") \o g)
        /\ Range(See("mode") \o g) = {Reads("mode")} \cup Range(g)
    BY <1>1, <1>2, <1>7, ConcatWellFormed, ConcatRange
  <2>2. b = IF ~Linux THEN <<>> ELSE See("mode") \o g
    BY <1>4, <1>6
  <2> QED
    BY <1>3, <2>1, <2>2, NoneWellFormed
<1>9. ClaimReads(s) = a \o b \o See("real_apply") \o See("security_only")
        \o See("security_and_critical") \o See("patterns")
        \o See("scan_apply") \o See("download_install")
  BY <1>4 DEF ClaimReads
<1>10. Range(ClaimReads(s)) =
         Range(a) \cup Range(b)
         \cup {Reads("real_apply"), Reads("security_only"),
               Reads("security_and_critical"), Reads("patterns"),
               Reads("scan_apply"), Reads("download_install")}
  <2>1. WellFormed(a \o b) /\ Range(a \o b) = Range(a) \cup Range(b)
    BY <1>5, <1>8, ConcatWellFormed, ConcatRange
  <2>2. ASSUME NEW x, NEW k \in Keys, WellFormed(x)
        PROVE  /\ WellFormed(x \o See(k))
               /\ Range(x \o See(k)) = Range(x) \cup {Reads(k)}
    BY <1>1, <2>2, ConcatWellFormed, ConcatRange
  <2>3. PICK c : c = a \o b
    OBVIOUS
  <2>4. PICK d : d = c \o See("real_apply") \o See("security_only")
                      \o See("security_and_critical")
    OBVIOUS
  <2>5. /\ WellFormed(d)
        /\ Range(d) = Range(c) \cup {Reads("real_apply"),
             Reads("security_only"), Reads("security_and_critical")}
    BY <1>2, <2>1, <2>2, <2>3, <2>4
  <2>6. ClaimReads(s) = d \o See("patterns") \o See("scan_apply")
                          \o See("download_install")
    BY <1>9, <2>3, <2>4
  <2>7. Range(ClaimReads(s)) = Range(d) \cup {Reads("patterns"),
          Reads("scan_apply"), Reads("download_install")}
    BY <1>2, <2>2, <2>5, <2>6
  <2> QED
    BY <2>1, <2>3, <2>5, <2>7
<1> QED
  BY <1>5, <1>7, <1>8, <1>10 DEF ClaimKeys

(* A result only reads and notes.                                          *)
LEMMA ResultRange ==
  ASSUME NEW e \in Range(ResultNotes)
  PROVE  e.op = "see" \/ (e.op = "note" /\ e.key = "job")
<1>1. ASSUME NEW v \in {"failed", "applied", "reboot-required",
                        "reboot-scheduled"}
      PROVE  /\ WellFormed(Note(v))
             /\ \A x \in Range(Note(v)) : x.op = "note" /\ x.key = "job"
  <2>1. PICK s : s = [op |-> "note", key |-> "job", value |-> v,
                      list |-> <<>>]
    OBVIOUS
  <2>2. Note(v) = <<s>>
    BY <2>1 DEF Note, Step
  <2>3. Range(Note(v)) = {s}
    BY <2>2 DEF Range
  <2>4. WellFormed(Note(v))
    BY StepWellFormed DEF Note, Words
  <2> QED
    BY <2>1, <2>3, <2>4
<1>2. /\ WellFormed(See("reboot_policy"))
      /\ \A x \in Range(See("reboot_policy")) : x.op = "see"
  <2>1. PICK k, s : k \in Keys /\ k = "reboot_policy" /\ s = Reads(k)
    BY ValuesAreWords
  <2>2. WellFormed(See(k)) /\ Range(See(k)) = {s} /\ s.op = "see"
    BY <2>1, SeeWellFormed, SeeRange DEF Reads
  <2> QED
    BY <2>1, <2>2
<1>3. Range(<<>>) = {}
  BY DEF Range
<1> DEFINE Light(x) == /\ WellFormed(x)
                       /\ \A y \in Range(x) :
                            y.op = "see" \/ (y.op = "note" /\ y.key = "job")
<1>4. /\ Light(Note("failed")) /\ Light(Note("applied"))
      /\ Light(Note("reboot-required")) /\ Light(Note("reboot-scheduled"))
      /\ Light(See("reboot_policy")) /\ Light(<<>>)
  BY <1>1, <1>2, <1>3, NoneWellFormed
<1>5. \A x, y : Light(x) /\ Light(y) => Light(x \o y)
  BY ConcatWellFormed, ConcatRange
<1> HIDE DEF Light
<1>6. Light(ResultNotes)
  BY <1>4, <1>5 DEF ResultNotes
<1> QED
  BY <1>6 DEF Light

-----------------------------------------------------------------------------
(* The requests in flight.                                                 *)
CallsTyped ==
  /\ DOMAIN calls = Threads
  /\ \A p \in Threads :
       /\ DOMAIN calls[p] = {"todo", "seen"}
       /\ WellFormed(calls[p].todo)
       /\ DOMAIN calls[p].seen \subseteq Keys

(* A request goes on to its next step that changes something.              *)
LEMMA AdvanceIs ==
  ASSUME CallsTyped, NEW p \in Threads, calls[p].todo # <<>>, NEW seen,
         DOMAIN seen \subseteq Keys, NEW rows, Advance(p, seen, rows)
  PROVE  /\ CallsTyped'
         /\ \A q \in Threads : q # p => calls'[q] = calls[q]
         /\ Range(calls'[p].todo) \subseteq Range(calls[p].todo)
         /\ \A i \in DOMAIN calls[p].todo :
              \/ i = 1
              \/ NoOp(p, Tail(calls[p].todo), calls[p].todo[i], seen, rows)
              \/ calls[p].todo[i] \in Range(calls'[p].todo)
         /\ p = Agent => calls'[p].seen = seen
<1>1. PICK s, u, r : /\ s = calls[p].todo /\ u = Tail(s)
                     /\ r = Rest(p, u, seen, rows)
  OBVIOUS
<1>2. /\ s \in Seq(AStep) /\ s # <<>> /\ WellFormed(s)
      /\ Len(s) \in Nat \ {0} /\ DOMAIN s = 1..Len(s)
  BY <1>1, EmptySeq, LenProperties DEF CallsTyped, WellFormed
<1>3. /\ u = SubSeq(s, 2, Len(s)) /\ u \in Seq(AStep) /\ Len(u) = Len(s) - 1
      /\ \A i \in 1..Len(u) : u[i] = s[i + 1]
      /\ DOMAIN u = 1..Len(u)
  BY <1>1, <1>2, TailIsSubSeq, HeadTailProperties, LenProperties
<1>4. WellFormed(u)
  <2>1. 2 \in 1..(Len(s) + 1)
    BY <1>2
  <2> QED
    BY <1>2, <1>3, <2>1, SuffixWellFormed
<1>5. PICK n \in 1..(Len(u) + 1) :
        /\ r = SubSeq(u, n, Len(u))
        /\ \A i \in 1..(n - 1) : NoOp(p, u, u[i], seen, rows)
  BY <1>1, <1>3, RestIs
<1>6. /\ r \in Seq(AStep) /\ WellFormed(r)
      /\ \A i \in DOMAIN r : i + n - 1 \in DOMAIN u /\ r[i] = u[i + n - 1]
      /\ \A i \in DOMAIN u : i >= n =>
           i - n + 1 \in DOMAIN r /\ r[i - n + 1] = u[i]
  <2>1. WellFormed(r)
    BY <1>4, <1>5, SuffixWellFormed
  <2>2. /\ r \in Seq(AStep) /\ Len(r) = Len(u) - n + 1
        /\ \A i \in DOMAIN r : i + n - 1 \in DOMAIN u /\ r[i] = u[i + n - 1]
        /\ \A i \in DOMAIN u : i >= n =>
             i - n + 1 \in DOMAIN r /\ r[i - n + 1] = u[i]
    <3>1. u \in Seq(AStep) /\ r = SubSeq(u, n, Len(u))
      BY <1>3, <1>5
    <3> QED
      BY <3>1, SuffixIs
  <2> QED
    BY <2>1, <2>2
<1>7. calls' = [calls EXCEPT ![p] = IF r = <<>> /\ p # Agent THEN Idle
                                    ELSE [todo |-> r, seen |-> seen]]
  BY <1>1 DEF Advance
<1>8. /\ DOMAIN calls' = Threads
      /\ calls'[p] = IF r = <<>> /\ p # Agent THEN Idle
                     ELSE [todo |-> r, seen |-> seen]
      /\ \A q \in Threads : q # p => calls'[q] = calls[q]
  BY <1>7 DEF CallsTyped
<1>9. /\ calls'[p].todo = r /\ DOMAIN calls'[p] = {"todo", "seen"}
      /\ DOMAIN calls'[p].seen \subseteq Keys
      /\ p = Agent => calls'[p].seen = seen
  BY <1>8 DEF Idle
<1>10. CallsTyped'
  BY <1>6, <1>8, <1>9 DEF CallsTyped
<1>11. Range(r) \subseteq Range(s)
  <2>1. ASSUME NEW i \in DOMAIN r PROVE r[i] \in Range(s)
    <3>1. PICK k \in DOMAIN u : r[i] = u[k]
      BY <1>6
    <3>2. k + 1 \in DOMAIN s /\ s[k + 1] = u[k]
      BY <1>2, <1>3
    <3> QED
      BY <3>1, <3>2 DEF Range
  <2> QED
    BY <2>1 DEF Range
<1>12. ASSUME NEW i \in DOMAIN s, i # 1
       PROVE  NoOp(p, u, s[i], seen, rows) \/ s[i] \in Range(r)
  <2>1. PICK k : k = i - 1
    OBVIOUS
  <2>2. k \in DOMAIN u /\ u[k] = s[i]
    BY <1>2, <1>3, <1>12, <2>1
  <2>3. CASE k < n
    <3>1. k \in 1..(n - 1)
      BY <1>3, <2>2, <2>3
    <3> QED
      BY <1>5, <2>2, <3>1
  <2>4. CASE k >= n
    BY <1>6, <2>2, <2>4 DEF Range
  <2> QED
    BY <1>3, <2>2, <2>3, <2>4
<1> QED
  BY <1>1, <1>8, <1>9, <1>10, <1>11, <1>12

(* A step that is rewritten in place.                                      *)
LEMMA HeadIs ==
  ASSUME CallsTyped, NEW p \in Threads, calls[p].todo # <<>>,
         NEW new \in AStep, Sound(new), new.op # "put",
         calls' = [calls EXCEPT ![p] =
                     [calls[p] EXCEPT !.todo =
                        [calls[p].todo EXCEPT ![1] = new]]]
  PROVE  /\ CallsTyped'
         /\ \A q \in Threads : q # p => calls'[q] = calls[q]
         /\ calls'[p].seen = calls[p].seen
         /\ DOMAIN calls'[p].todo = DOMAIN calls[p].todo
         /\ 1 \in DOMAIN calls[p].todo
         /\ calls'[p].todo[1] = new
         /\ \A i \in DOMAIN calls[p].todo :
              i # 1 => calls'[p].todo[i] = calls[p].todo[i]
<1>1. PICK s, r : s = calls[p].todo /\ r = [s EXCEPT ![1] = new]
  OBVIOUS
<1>2. /\ s \in Seq(AStep) /\ s # <<>> /\ WellFormed(s)
      /\ Len(s) \in Nat \ {0} /\ DOMAIN s = 1..Len(s) /\ 1 \in DOMAIN s
  <2>1. /\ s \in Seq(AStep) /\ s # <<>> /\ WellFormed(s)
    BY <1>1 DEF CallsTyped, WellFormed
  <2> QED
    BY <2>1, EmptySeq, LenProperties
<1>3. /\ r \in Seq(AStep) /\ DOMAIN r = DOMAIN s /\ r[1] = new
      /\ \A i \in DOMAIN s : i # 1 => r[i] = s[i]
  BY <1>1, <1>2, ExceptSeq
<1>4. WellFormed(r)
  <2>1. ASSUME NEW i \in DOMAIN r, PutsOn(r[i])
        PROVE  /\ i + 1 \in DOMAIN r
               /\ PutsOff(r[i + 1]) /\ r[i + 1].key = Other(r[i].key)
    <3>1. i # 1 /\ i \in DOMAIN s /\ r[i] = s[i]
      BY <1>3, <2>1 DEF PutsOn
    <3>2. /\ i + 1 \in DOMAIN s /\ PutsOff(s[i + 1])
          /\ s[i + 1].key = Other(s[i].key)
      BY <1>2, <2>1, <3>1 DEF WellFormed, Paired
    <3>3. i + 1 # 1
      BY <1>2, <3>1
    <3> QED
      BY <1>3, <3>1, <3>2, <3>3
  <2> QED
    BY <1>2, <1>3, <2>1 DEF WellFormed, Paired
<1>5. /\ DOMAIN calls' = Threads /\ calls'[p].todo = r
      /\ calls'[p].seen = calls[p].seen
      /\ DOMAIN calls'[p] = {"todo", "seen"}
      /\ \A q \in Threads : q # p => calls'[q] = calls[q]
  BY <1>1 DEF CallsTyped
<1> QED
  BY <1>1, <1>2, <1>3, <1>4, <1>5 DEF CallsTyped

(* What a getter keeps.                                                    *)
LEMMA NoticedIs ==
  ASSUME CallsTyped, NEW p \in Threads, NEW k \in Keys, NEW v
  PROVE  DOMAIN Noticed(p, k, v) \subseteq Keys
<1>1. DOMAIN calls[p].seen \subseteq Keys
  BY DEF CallsTyped
<1>2. CASE Unused(p, calls[p].todo, k)
  BY <1>1, <1>2 DEF Noticed
<1>3. CASE ~Unused(p, calls[p].todo, k)
  <2>1. PICK f : f = calls[p].seen
    OBVIOUS
  <2>2. Noticed(p, k, v) =
          [x \in DOMAIN f \cup {k} |-> IF x = k THEN v ELSE f[x]]
    BY <1>3, <2>1 DEF Noticed
  <2> QED
    BY <1>1, <2>1, <2>2
<1> QED
  BY <1>2, <1>3

(* The list of events keeps its limit.                                     *)
LEMMA RecordedIs ==
  ASSUME NEW list \in Seq(Event), NEW k \in Keys \cup {"job"}, NEW v \in Words
  PROVE  /\ Recorded(list, k, v) \in Seq(Event)
         /\ Len(Recorded(list, k, v)) =
              IF Len(list) + 1 <= EventLimit THEN Len(list) + 1
              ELSE EventLimit
         /\ Recorded(list, k, v)[1] = [key |-> k, value |-> v]
         /\ \A i \in 2..Len(Recorded(list, k, v)) :
              Recorded(list, k, v)[i] = list[i - 1]
<1>1. PICK e, all, n :
        /\ e = [key |-> k, value |-> v] /\ all = <<e>> \o list
        /\ n = IF Len(all) <= EventLimit THEN Len(all) ELSE EventLimit
  OBVIOUS
<1>2. e \in Event /\ <<e>> \in Seq(Event)
  BY <1>1 DEF Event
<1>3. /\ Len(list) \in Nat /\ all \in Seq(Event) /\ Len(all) = Len(list) + 1
      /\ all[1] = e /\ \A i \in 2..Len(all) : all[i] = list[i - 1]
  BY <1>1, <1>2, ConcatProperties, LenProperties
<1>4. EventLimit \in Nat \ {0}
  BY ConstantsOK
<1>5. n \in 1..Len(all) /\ n \in Int /\ 1 \in Int
  BY <1>1, <1>3, <1>4
<1>6. \A i \in 1..n : all[i] \in Event
  BY <1>3, <1>5, ElementOfSeq
<1>7. PICK r : r = SubSeq(all, 1, n)
  OBVIOUS
<1>8. /\ r \in Seq(Event) /\ Len(r) = n /\ \A i \in 1..n : r[i] = all[i]
  BY <1>5, <1>6, <1>7, SubSeqProperties
<1>9. Recorded(list, k, v) = r
  BY <1>1, <1>7 DEF Recorded
<1> QED
  BY <1>1, <1>3, <1>4, <1>5, <1>8, <1>9

-----------------------------------------------------------------------------
(* Types.                                                                  *)
TypeInv ==
  /\ machine \in Machines
  /\ DOMAIN settings = Keys
  /\ \A k \in Keys : settings[k] \in Values(k) \cup {"unset"}
  /\ events \in Seq(Event) /\ Len(events) <= EventLimit
  /\ CallsTyped
  /\ DOMAIN agent = {"pc", "under", "outcome", "reboot"}
  /\ agent.pc \in {"idle", "claim", "report", "result"}
  /\ agent.under \in {"none", "allows", "forbids"}
  /\ agent.pc = "claim" => DOMAIN stored = Keys
  /\ patch \in {"pending", "approved", "absent"}
  /\ installed \in BOOLEAN /\ crossed \in BOOLEAN /\ cut \in BOOLEAN
  /\ operations \in 0..MaxOperations /\ jobs \in 0..MaxJobs

(* The step a request is at.                                               *)
LEMMA AtIs ==
  ASSUME CallsTyped, NEW p \in Threads, NEW ops, At(p, ops)
  PROVE  /\ calls[p].todo # <<>> /\ 1 \in DOMAIN calls[p].todo
         /\ Head(calls[p].todo) = calls[p].todo[1]
         /\ calls[p].todo[1].op \in ops
         /\ calls[p].todo[1] \in AStep /\ Sound(calls[p].todo[1])
<1>1. PICK s : s = calls[p].todo
  OBVIOUS
<1>2. s # <<>> /\ Head(s).op \in ops /\ WellFormed(s) /\ s \in Seq(AStep)
  BY <1>1 DEF At, CallsTyped, WellFormed
<1>3. Len(s) \in Nat \ {0} /\ DOMAIN s = 1..Len(s) /\ Head(s) = s[1]
  BY <1>2, EmptySeq, LenProperties
<1>4. 1 \in DOMAIN s /\ s[1] \in AStep /\ Sound(s[1])
  BY <1>2, <1>3, ElementOfSeq DEF WellFormed
<1> QED
  BY <1>1, <1>2, <1>3, <1>4

(* A commit of a row keeps the rows typed.                                 *)
LEMMA StoreIs ==
  ASSUME TypeInv, NEW k \in Keys, NEW v \in Values(k), Store(k, v)
  PROVE  /\ DOMAIN settings' = Keys
         /\ \A x \in Keys : settings'[x] \in Values(x) \cup {"unset"}
         /\ settings'[k] = v
         /\ \A x \in Keys : x # k => settings'[x] = settings[x]
         /\ ~Claiming => stored' = stored
         /\ Claiming => /\ DOMAIN stored' = Keys
                        /\ v \in stored'[k]
                        /\ \A x \in Keys : stored[x] \subseteq stored'[x]
BY DEF TypeInv, Store, Claiming

(* The defaults are values; the guardrails' one is off.                    *)
LEMMA DefaultIs ==
  /\ \A k \in Filled : Default(k) \in Values(k) /\ k \in Keys
  /\ \A k \in Pair : Default(k) = "off"
  /\ Default("mode") = "dry-run" /\ Default("group") = "unset"
BY DEF Filled, Default, LinuxDefault, WindowsDefault, Values, Keys, Switches,
       Pair

(* Where a getter goes: it stores a default or has its value.              *)
LEMMA GetIs ==
  ASSUME TypeInv, NEW p \in Threads, Get(p), NEW k,
         k = calls[p].todo[1].key
  PROVE  /\ At(p, {"see"}) /\ k \in Keys
         /\ \/ /\ settings[k] = "unset" /\ k \in Filled
               /\ \E new \in AStep :
                    /\ Sound(new) /\ new.op = "fill" /\ new.key = k
                    /\ calls' = [calls EXCEPT ![p] =
                         [calls[p] EXCEPT !.todo =
                            [calls[p].todo EXCEPT ![1] = new]]]
            \/ \E v, seen :
                 /\ v = IF settings[k] = "unset" THEN Default(k)
                        ELSE settings[k]
                 /\ settings[k] = "unset" => k \notin Filled
                 /\ seen = Noticed(p, k, v)
                 /\ Advance(p, seen, settings)
<1>1. PICK s : s = calls[p].todo[1]
  OBVIOUS
<1>2. /\ At(p, {"see"}) /\ s = Head(calls[p].todo) /\ s.op = "see"
      /\ s \in AStep /\ Sound(s) /\ k = s.key /\ k \in Keys
  BY <1>1, AtIs DEF Get, TypeInv, Sound
<1>3. CASE settings[k] = "unset" /\ k \in Filled
  <2>1. PICK new : new = [s EXCEPT !.op = "fill"]
    OBVIOUS
  <2>2. new \in AStep /\ Sound(new) /\ new.op = "fill" /\ new.key = k
    BY <1>2, <1>3, <2>1 DEF AStep, Sound
  <2>3. calls' = [calls EXCEPT ![p].todo[1].op = "fill"]
    BY <1>2, <1>3 DEF Get
  <2>4. calls' = [calls EXCEPT ![p] =
                    [calls[p] EXCEPT !.todo =
                       [calls[p].todo EXCEPT ![1] = new]]]
    BY <1>1, <2>1, <2>3
  <2> QED
    BY <1>2, <1>3, <2>2, <2>4
<1>4. CASE ~(settings[k] = "unset" /\ k \in Filled)
  BY <1>2, <1>4 DEF Get
<1> QED
  BY <1>2, <1>3, <1>4

(* The first half of an event: the list is read.                           *)
LEMMA ReadEventsIs ==
  ASSUME TypeInv, NEW p \in Threads, ReadEvents(p)
  PROVE  /\ At(p, {"trace", "note"})
         /\ \E new \in AStep :
              /\ Sound(new) /\ new.op = "save" /\ new.list = events
              /\ new.key = calls[p].todo[1].key
              /\ new.value = calls[p].todo[1].value
              /\ calls' = [calls EXCEPT ![p] =
                   [calls[p] EXCEPT !.todo =
                      [calls[p].todo EXCEPT ![1] = new]]]
<1>1. PICK s, new : /\ s = calls[p].todo[1]
                    /\ new = [s EXCEPT !.op = "save", !.list = events]
  OBVIOUS
<1>2. At(p, {"trace", "note"}) /\ s \in AStep
  BY <1>1, AtIs DEF ReadEvents, TypeInv
<1>3. /\ new \in AStep /\ new.op = "save" /\ new.list = events
      /\ new.key = s.key /\ new.value = s.value
  BY <1>1, <1>2 DEF AStep, TypeInv
<1>4. Sound(new)
  BY <1>3 DEF Sound
<1>5. calls' = [calls EXCEPT ![p] =
                  [calls[p] EXCEPT !.todo =
                     [calls[p].todo EXCEPT ![1] = new]]]
  BY <1>1 DEF ReadEvents
<1> QED
  BY <1>1, <1>2, <1>3, <1>4, <1>5

(* A request's step keeps the types.                                       *)
LEMMA RequestTypes ==
  ASSUME TypeInv, NEW p \in Threads, RequestNext(p) PROVE TypeInv'
<1>0. CallsTyped
  BY DEF TypeInv
<1>1. CASE Get(p)
  <2>1. PICK k : k = calls[p].todo[1].key
    OBVIOUS
  <2>2. CallsTyped'
    <3>1. ASSUME NEW v, NEW seen, seen = Noticed(p, k, v), k \in Keys,
                 calls[p].todo # <<>>, Advance(p, seen, settings)
          PROVE  CallsTyped'
      BY <1>0, <3>1, NoticedIs, AdvanceIs
    <3>2. At(p, {"see"}) /\ k \in Keys /\ calls[p].todo # <<>>
      BY <1>0, <1>1, <2>1, GetIs, AtIs
    <3>3. ASSUME NEW new \in AStep, Sound(new), new.op = "fill",
                 calls' = [calls EXCEPT ![p] =
                   [calls[p] EXCEPT !.todo =
                      [calls[p].todo EXCEPT ![1] = new]]]
          PROVE  CallsTyped'
      BY <1>0, <3>2, <3>3, HeadIs
    <3> QED
      BY <1>1, <2>1, <3>1, <3>2, <3>3, GetIs
  <2> QED
    BY <1>1, <2>2 DEF Get, TypeInv
<1>2. CASE Fill(p)
  <2>1. PICK k : k = calls[p].todo[1].key
    OBVIOUS
  <2>2. /\ At(p, {"fill"}) /\ calls[p].todo # <<>> /\ k \in Filled
        /\ Head(calls[p].todo).key = k
    BY <1>0, <1>2, <2>1, AtIs DEF Fill, Sound
  <2>3. /\ Store(k, Default(k)) /\ Default(k) \in Values(k) /\ k \in Keys
        /\ Advance(p, Noticed(p, k, Default(k)), settings')
        /\ crossed' = (crossed \/ settings[k] # "unset")
    BY <1>2, <2>2, DefaultIs DEF Fill
  <2>4. CallsTyped'
    BY <1>0, <2>2, <2>3, NoticedIs, AdvanceIs
  <2>5. /\ DOMAIN settings' = Keys
        /\ \A x \in Keys : settings'[x] \in Values(x) \cup {"unset"}
        /\ agent.pc = "claim" => DOMAIN stored' = Keys
    BY <2>3, StoreIs DEF TypeInv
  <2> QED
    BY <1>2, <2>3, <2>4, <2>5 DEF Fill, TypeInv
<1>3. CASE Set(p)
  <2>1. PICK s : s = calls[p].todo[1]
    OBVIOUS
  <2>2. /\ At(p, {"put"}) /\ calls[p].todo # <<>>
        /\ Head(calls[p].todo) = s /\ s.key \in Keys
        /\ s.value \in Values(s.key)
    BY <1>0, <1>3, <2>1, AtIs DEF Set, Sound
  <2>3. Store(s.key, s.value) /\ Advance(p, calls[p].seen, settings')
    BY <1>3, <2>2 DEF Set
  <2>4. CallsTyped'
    BY <1>0, <2>2, <2>3, AdvanceIs DEF CallsTyped
  <2>5. /\ DOMAIN settings' = Keys
        /\ \A x \in Keys : settings'[x] \in Values(x) \cup {"unset"}
        /\ agent.pc = "claim" => DOMAIN stored' = Keys
    BY <2>2, <2>3, StoreIs DEF TypeInv
  <2> QED
    BY <1>3, <2>4, <2>5 DEF Set, TypeInv
<1>4. CASE ReadEvents(p)
  <2>1. CallsTyped'
    BY <1>0, <1>4, ReadEventsIs, AtIs, HeadIs
  <2> QED
    BY <1>4, <2>1 DEF ReadEvents, TypeInv
<1>5. CASE SaveEvents(p)
  <2>1. PICK s : s = calls[p].todo[1]
    OBVIOUS
  <2>2. /\ calls[p].todo # <<>> /\ Head(calls[p].todo) = s /\ s \in AStep
    BY <1>0, <1>5, <2>1, AtIs DEF SaveEvents
  <2>3. /\ events' = Recorded(s.list, s.key, s.value)
        /\ crossed' \in BOOLEAN
        /\ Advance(p, calls[p].seen, settings)
    BY <1>5, <2>2 DEF SaveEvents, TypeInv
  <2>4. CallsTyped'
    BY <1>0, <2>2, <2>3, AdvanceIs DEF CallsTyped
  <2>5. events' \in Seq(Event) /\ Len(events') <= EventLimit
    <3>1. /\ s.list \in Seq(Event) /\ s.key \in Keys \cup {"job"}
          /\ s.value \in Words
      BY <2>2 DEF AStep
    <3>2. Len(s.list) \in Nat /\ EventLimit \in Nat
      BY <3>1, LenProperties, ConstantsOK
    <3>3. /\ events' \in Seq(Event)
          /\ Len(events') = IF Len(s.list) + 1 <= EventLimit
                            THEN Len(s.list) + 1 ELSE EventLimit
      BY <2>3, <3>1, RecordedIs
    <3> QED
      BY <3>2, <3>3
  <2> QED
    BY <1>5, <2>3, <2>4, <2>5 DEF SaveEvents, TypeInv
<1> QED
  BY <1>1, <1>2, <1>3, <1>4, <1>5 DEF RequestNext

(* A request begins.                                                       *)
LEMMA BeginIs ==
  ASSUME TypeInv, NEW o \in Operators, NEW todo, WellFormed(todo),
         Begin(o, todo)
  PROVE  /\ CallsTyped'
         /\ \A q \in Threads : q # o => calls'[q] = calls[q]
         /\ calls[o] = Idle
         /\ operations' \in 0..MaxOperations
         /\ UNCHANGED <<machine, settings, events, patch, agent, installed,
                        stored, cut, jobs>>
<1>1. todo \in Seq(AStep)
  BY DEF WellFormed
<1>2. PICK n \in 1..(Len(todo) + 1) :
        Rest(o, todo, <<>>, settings) = SubSeq(todo, n, Len(todo))
  BY <1>1, RestIs
<1>3. WellFormed(Rest(o, todo, <<>>, settings))
  BY <1>2, SuffixWellFormed
<1>4. /\ calls' = [calls EXCEPT ![o].todo = Rest(o, todo, <<>>, settings)]
      /\ operations' = operations + 1 /\ operations < MaxOperations
      /\ operations \in 0..MaxOperations /\ o \in Threads
      /\ MaxOperations \in Nat
  BY ConstantsOK DEF Begin, TypeInv, Threads
<1>5. CallsTyped' /\ \A q \in Threads : q # o => calls'[q] = calls[q]
  BY <1>3, <1>4 DEF TypeInv, CallsTyped
<1> QED
  BY <1>4, <1>5 DEF Begin

(* A new request keeps the types.                                          *)
LEMMA OperatorTypes ==
  ASSUME TypeInv, NEW o \in Operators, OperatorNext(o) PROVE TypeInv'
<1>1. ASSUME NEW b \in Bodies, UpdateSettings(o, b) PROVE TypeInv'
  <2>1. crossed' \in BOOLEAN
    BY <1>1 DEF UpdateSettings, TypeInv
  <2> QED
    BY <1>1, <2>1, UpdateWellFormed, BeginIs DEF UpdateSettings, TypeInv
<1>2. CASE ShowSettings(o)
  BY <1>2, ShowWellFormed, BeginIs DEF ShowSettings, TypeInv
<1> QED
  BY <1>1, <1>2 DEF OperatorNext

(* The agent's thread takes up a new list of steps.                        *)
LEMMA AgentCallIs ==
  ASSUME CallsTyped, NEW todo, WellFormed(todo), NEW seen,
         DOMAIN seen \subseteq Keys,
         calls' = [calls EXCEPT ![Agent] = [todo |-> todo, seen |-> seen]]
  PROVE  /\ CallsTyped'
         /\ \A q \in Threads : q # Agent => calls'[q] = calls[q]
         /\ calls'[Agent].todo = todo /\ calls'[Agent].seen = seen
<1>1. Agent \in Threads
  BY DEF Threads
<1> QED
  BY <1>1 DEF CallsTyped

(* What a claim begins with.                                               *)
LEMMA ClaimIs ==
  ASSUME TypeInv, Claim
  PROVE  \E schedule \in {"allows", "forbids"} :
           /\ agent' = [Resting EXCEPT !.pc = "claim", !.under = schedule]
           /\ agent'.pc = "claim" /\ agent'.under = schedule
           /\ CallsTyped'
           /\ \A q \in Threads : q # Agent => calls'[q] = calls[q]
           /\ calls'[Agent].todo = ClaimReads(schedule)
           /\ DOMAIN calls'[Agent].seen =
                IF Prevents(schedule) THEN {"reboot_policy"} ELSE {}
           /\ Prevents(schedule) =>
                calls'[Agent].seen["reboot_policy"] = "manual"
<1>1. PICK schedule \in {"allows", "forbids"} :
        /\ agent' = [Resting EXCEPT !.pc = "claim", !.under = schedule]
        /\ calls' = [calls EXCEPT ![Agent] =
                      [todo |-> ClaimReads(schedule),
                       seen |-> IF Prevents(schedule)
                                THEN [k \in {"reboot_policy"} |-> "manual"]
                                ELSE <<>>]]
  BY DEF Claim
<1>2. PICK seen : seen = IF Prevents(schedule)
                         THEN [k \in {"reboot_policy"} |-> "manual"] ELSE <<>>
  OBVIOUS
<1>3. /\ DOMAIN seen = IF Prevents(schedule) THEN {"reboot_policy"} ELSE {}
      /\ Prevents(schedule) => seen["reboot_policy"] = "manual"
      /\ DOMAIN seen \subseteq Keys
  BY <1>2, ValuesAreWords
<1>4. /\ CallsTyped'
      /\ \A q \in Threads : q # Agent => calls'[q] = calls[q]
      /\ calls'[Agent].todo = ClaimReads(schedule)
      /\ calls'[Agent].seen = seen
  BY <1>1, <1>2, <1>3, ClaimWellFormed, AgentCallIs DEF TypeInv
<1>5. agent'.pc = "claim" /\ agent'.under = schedule
  BY <1>1 DEF Resting
<1> QED
  BY <1>1, <1>3, <1>4, <1>5

(* The agent's steps keep the types.                                       *)
LEMMA AgentTypes == TypeInv /\ AgentNext => TypeInv'
<1> SUFFICES ASSUME TypeInv, AgentNext PROVE TypeInv'
  OBVIOUS
<1>0. jobs \in 0..MaxJobs /\ MaxJobs \in Nat
  BY ConstantsOK DEF TypeInv
<1>1. CASE Claim
  <2>1. PICK schedule \in {"allows", "forbids"} :
          /\ agent' = [Resting EXCEPT !.pc = "claim", !.under = schedule]
          /\ CallsTyped'
    BY <1>1, ClaimIs
  <2>2. /\ DOMAIN agent' = {"pc", "under", "outcome", "reboot"}
        /\ agent'.pc = "claim" /\ agent'.under = schedule
    BY <2>1 DEF Resting
  <2>3. jobs' \in 0..MaxJobs /\ DOMAIN stored' = Keys
    BY <1>0, <1>1 DEF Claim
  <2> QED
    BY <1>1, <2>1, <2>2, <2>3 DEF Claim, TypeInv
<1>2. CASE Execute
  <2>1. /\ DOMAIN agent' = DOMAIN agent /\ agent'.pc = "report"
        /\ agent'.under = agent.under /\ installed' \in BOOLEAN
    BY <1>2 DEF Execute, TypeInv
  <2> QED
    BY <1>2, <2>1 DEF Execute, TypeInv, CallsTyped
<1>3. CASE Result
  <2>1. CallsTyped'
    <3>1. DOMAIN <<>> \subseteq Keys
      OBVIOUS
    <3> QED
      BY <1>3, <3>1, ResultWellFormed, AgentCallIs DEF Result, TypeInv
  <2>2. patch' \in {"pending", "approved", "absent"}
    BY <1>3 DEF Result, PatchAfterResult, TypeInv
  <2>3. /\ DOMAIN agent' = {"pc", "under", "outcome", "reboot"}
        /\ agent'.pc = "result" /\ agent'.under = "none"
    BY <1>3 DEF Result, Resting
  <2> QED
    BY <1>3, <2>1, <2>2, <2>3 DEF Result, TypeInv
<1>4. CASE Answered
  <2>1. CallsTyped'
    <3>1. DOMAIN <<>> \subseteq Keys
      OBVIOUS
    <3>2. calls' = [calls EXCEPT ![Agent] = [todo |-> <<>>, seen |-> <<>>]]
      BY <1>4 DEF Answered, Idle
    <3> QED
      BY <3>1, <3>2, NoneWellFormed, AgentCallIs DEF TypeInv
  <2> QED
    BY <1>4, <2>1 DEF Answered, Resting, TypeInv
<1>5. CASE Inventory
  BY <1>5 DEF Inventory, TypeInv, CallsTyped
<1> QED
  BY <1>1, <1>2, <1>3, <1>4, <1>5 DEF AgentNext

(* So do a review and a restart.                                           *)
LEMMA RestTypes == TypeInv /\ (Approve \/ Restart) => TypeInv'
<1> SUFFICES ASSUME TypeInv, Approve \/ Restart PROVE TypeInv'
  OBVIOUS
<1>1. CASE Approve
  BY <1>1 DEF Approve, TypeInv, CallsTyped
<1>2. CASE Restart
  <2>1. CallsTyped'
    <3>1. \A p \in Threads : calls'[p] \in {calls[p], Idle}
      BY <1>2 DEF Restart
    <3>2. DOMAIN calls' = Threads
      BY <1>2 DEF Restart
    <3>3. /\ DOMAIN Idle = {"todo", "seen"} /\ WellFormed(Idle.todo)
          /\ DOMAIN Idle.seen \subseteq Keys
      BY NoneWellFormed DEF Idle
    <3> QED
      BY <3>1, <3>2, <3>3 DEF TypeInv, CallsTyped
  <2>2. operations' \in 0..MaxOperations /\ cut' \in BOOLEAN
    BY <1>2, ConstantsOK DEF Restart, TypeInv
  <2>3. /\ DOMAIN agent' = {"pc", "under", "outcome", "reboot"}
        /\ agent'.pc \in {"idle", "claim", "report", "result"}
        /\ agent'.under \in {"none", "allows", "forbids"}
        /\ agent'.pc = "claim" => DOMAIN stored' = Keys
    BY <1>2 DEF Restart, Resting, TypeInv
  <2> QED
    BY <1>2, <2>1, <2>2, <2>3 DEF Restart, TypeInv
<1> QED
  BY <1>1, <1>2

(* The types hold at first.                                                *)
LEMMA InitTypes == Init => TypeInv
<1> SUFFICES ASSUME Init PROVE TypeInv
  OBVIOUS
<1>1. /\ DOMAIN settings = Keys
      /\ \A k \in Keys : settings[k] \in Values(k) \cup {"unset"}
  BY ConstantsOK DEF Init
<1>2. events \in Seq(Event) /\ Len(events) <= EventLimit
  <2>1. <<>> \in Seq(Event) /\ Len(<<>>) = 0 /\ EventLimit \in Nat \ {0}
    BY EmptySeq, ConstantsOK
  <2>2. "real_apply" \in Keys \cup {"job"} /\ "on" \in Words
    BY ValuesAreWords DEF Keys, Switches
  <2>3. PICK list, k, v : list = <<>> /\ k = "real_apply" /\ v = "on"
    OBVIOUS
  <2>4. /\ list \in Seq(Event) /\ Len(list) = 0
        /\ k \in Keys \cup {"job"} /\ v \in Words
    BY <2>1, <2>2, <2>3
  <2>5. /\ Recorded(list, k, v) \in Seq(Event)
        /\ Len(Recorded(list, k, v)) =
             IF Len(list) + 1 <= EventLimit THEN Len(list) + 1 ELSE EventLimit
    BY <2>4, RecordedIs
  <2>6. events \in {Recorded(list, k, v), <<>>}
    BY <2>3 DEF Init
  <2>7. CASE events = <<>>
    <3>1. events = list /\ EventLimit \in Nat
      BY <2>1, <2>3, <2>7
    <3> QED
      BY <2>4, <3>1
  <2>8. CASE events = Recorded(list, k, v)
    <3>1. PICK n, m : n = Len(list) /\ m = EventLimit
      OBVIOUS
    <3>2. n = 0 /\ m \in Nat \ {0}
      BY <2>1, <2>4, <3>1
    <3>3. /\ events \in Seq(Event)
          /\ Len(events) = IF n + 1 <= m THEN n + 1 ELSE m
      BY <2>5, <2>8, <3>1
    <3> QED
      BY <3>1, <3>2, <3>3
  <2> QED
    BY <2>6, <2>7, <2>8
<1>3. CallsTyped
  BY NoneWellFormed DEF Init, CallsTyped, Idle
<1>4. /\ DOMAIN agent = {"pc", "under", "outcome", "reboot"}
      /\ agent.pc = "idle" /\ agent.under = "none"
  BY DEF Init, Resting
<1>5. operations \in 0..MaxOperations /\ jobs \in 0..MaxJobs
  BY ConstantsOK DEF Init
<1>6. /\ machine \in Machines /\ patch = "approved"
      /\ installed = FALSE /\ crossed = FALSE /\ cut = FALSE
  BY DEF Init
<1> QED
  BY <1>1, <1>2, <1>3, <1>4, <1>5, <1>6 DEF TypeInv

(* Every step keeps the types.                                             *)
LEMMA TypeStep == TypeInv /\ [Next]_vars => TypeInv'
<1> SUFFICES ASSUME TypeInv, [Next]_vars PROVE TypeInv'
  OBVIOUS
<1>1. CASE UNCHANGED vars
  BY <1>1 DEF vars, TypeInv, CallsTyped
<1> QED
  BY <1>1, OperatorTypes, RequestTypes, AgentTypes, RestTypes DEF Next

(* The types, with the shape of every request in flight.                   *)
THEOREM TypeInvariant == Spec => []TypeInv
BY InitTypes, TypeStep, PTL DEF Spec

(* The rows hold only values their getters understand, whatever mode or    *)
(* policy a request asks for, and the list of events keeps its limit.      *)
THEOREM TypeCorrect == Spec => []TypeOK
<1>1. TypeInv => TypeOK
  <2> SUFFICES ASSUME TypeInv PROVE TypeOK
    OBVIOUS
  <2>1. ASSUME NEW p \in Threads, NEW i \in DOMAIN calls[p].todo
        PROVE  [op |-> calls[p].todo[i].op, key |-> calls[p].todo[i].key]
                 \in StepType
    <3>1. calls[p].todo \in Seq(AStep)
      BY DEF TypeInv, CallsTyped, WellFormed
    <3>2. calls[p].todo[i] \in AStep
      BY <3>1, LenProperties, ElementOfSeq
    <3> QED
      BY <3>2 DEF AStep, StepType
  <2> QED
    BY <2>1, ConstantsOK DEF TypeInv, TypeOK
<1> QED
  BY TypeInvariant, <1>1, PTL

-----------------------------------------------------------------------------
(* The two guardrails.                                                     *)

(* What a step of a request does to the writes still to come: the one it   *)
(* is at may be done, the others stay, and none is added.                  *)
LEMMA WritesStay ==
  ASSUME TypeInv, NEW p \in Threads, RequestNext(p)
  PROVE  /\ CallsTyped /\ CallsTyped' /\ calls[p].todo # <<>>
         /\ \A q \in Threads : q # p => calls'[q] = calls[q]
         /\ \A i \in DOMAIN calls[p].todo :
              i # 1 /\ calls[p].todo[i].op = "put"
                => calls[p].todo[i] \in Range(calls'[p].todo)
         /\ \A e \in Range(calls'[p].todo) :
              e.op = "put" => e \in Range(calls[p].todo)
         /\ ~Set(p) => calls[p].todo[1].op # "put"
<1>0. CallsTyped /\ CallsTyped'
  BY RequestTypes DEF TypeInv
<1> DEFINE Kept ==
      /\ \A q \in Threads : q # p => calls'[q] = calls[q]
      /\ \A i \in DOMAIN calls[p].todo :
           i # 1 /\ calls[p].todo[i].op = "put"
             => calls[p].todo[i] \in Range(calls'[p].todo)
      /\ \A e \in Range(calls'[p].todo) :
           e.op = "put" => e \in Range(calls[p].todo)
<1>1. ASSUME NEW seen, NEW rows, DOMAIN seen \subseteq Keys,
             calls[p].todo # <<>>, Advance(p, seen, rows)
      PROVE  Kept
  <2>1. /\ \A q \in Threads : q # p => calls'[q] = calls[q]
        /\ Range(calls'[p].todo) \subseteq Range(calls[p].todo)
        /\ \A i \in DOMAIN calls[p].todo :
              \/ i = 1
              \/ NoOp(p, Tail(calls[p].todo), calls[p].todo[i], seen, rows)
              \/ calls[p].todo[i] \in Range(calls'[p].todo)
    BY <1>0, <1>1, AdvanceIs
  <2>2. \A u, s : s.op = "put" => ~NoOp(p, u, s, seen, rows)
    BY DEF NoOp
  <2> QED
    BY <2>1, <2>2
<1>2. ASSUME NEW new \in AStep, Sound(new), new.op # "put",
             calls[p].todo # <<>>,
             calls' = [calls EXCEPT ![p] =
                         [calls[p] EXCEPT !.todo =
                            [calls[p].todo EXCEPT ![1] = new]]]
      PROVE  Kept
  <2>1. /\ \A q \in Threads : q # p => calls'[q] = calls[q]
        /\ DOMAIN calls'[p].todo = DOMAIN calls[p].todo
        /\ calls'[p].todo[1] = new
        /\ \A i \in DOMAIN calls[p].todo :
             i # 1 => calls'[p].todo[i] = calls[p].todo[i]
    BY <1>0, <1>2, HeadIs
  <2> QED
    BY <1>2, <2>1 DEF Range
<1>3. CASE Get(p)
  <2>1. PICK k : k = calls[p].todo[1].key
    OBVIOUS
  <2>2. /\ calls[p].todo # <<>> /\ calls[p].todo[1].op = "see" /\ k \in Keys
    BY <1>0, <1>3, <2>1, GetIs, AtIs
  <2>3. ASSUME NEW v, NEW seen, seen = Noticed(p, k, v),
               Advance(p, seen, settings)
        PROVE  Kept
    <3>1. DOMAIN seen \subseteq Keys
      BY <1>0, <2>2, <2>3, NoticedIs
    <3> QED
      BY <1>1, <2>2, <2>3, <3>1
  <2>4. Kept
    <3> HIDE DEF Kept
    <3> QED
      BY <1>2, <1>3, <2>1, <2>2, <2>3, GetIs
  <2> QED
    BY <1>0, <2>2, <2>4
<1>4. CASE Fill(p)
  <2>1. PICK k : k = calls[p].todo[1].key
    OBVIOUS
  <2>2. /\ calls[p].todo # <<>> /\ k \in Keys
        /\ Head(calls[p].todo).key = k /\ calls[p].todo[1].op = "fill"
    BY <1>0, <1>4, <2>1, AtIs DEF Fill, Sound
  <2>3. Advance(p, Noticed(p, k, Default(k)), settings')
    BY <1>4, <2>2 DEF Fill
  <2>4. Kept
    BY <1>0, <1>1, <2>2, <2>3, NoticedIs
  <2> QED
    BY <1>0, <2>2, <2>4
<1>5. CASE Set(p)
  <2>1. calls[p].todo # <<>> /\ Advance(p, calls[p].seen, settings')
    BY <1>0, <1>5, AtIs DEF Set
  <2>2. DOMAIN calls[p].seen \subseteq Keys
    BY <1>0 DEF CallsTyped
  <2> QED
    BY <1>0, <1>1, <1>5, <2>1, <2>2
<1>6. CASE ReadEvents(p)
  <2>1. calls[p].todo # <<>> /\ calls[p].todo[1].op # "put"
    BY <1>0, <1>6, ReadEventsIs, AtIs
  <2>2. Kept
    BY <1>2, <1>6, <2>1, ReadEventsIs
  <2> QED
    BY <1>0, <2>1, <2>2
<1>7. CASE SaveEvents(p)
  <2>1. /\ calls[p].todo # <<>> /\ Advance(p, calls[p].seen, settings)
        /\ calls[p].todo[1].op = "save"
    BY <1>0, <1>7, AtIs DEF SaveEvents
  <2>2. DOMAIN calls[p].seen \subseteq Keys
    BY <1>0 DEF CallsTyped
  <2> QED
    BY <1>0, <1>1, <2>1, <2>2
<1> QED
  BY <1>3, <1>4, <1>5, <1>6, <1>7 DEF RequestNext

(* A host's thread writes no setting; while both guardrails are on, some   *)
(* update has still to turn one off, or a restart cut one short.           *)
NoPut == \A e \in Range(calls[Agent].todo) : e.op # "put"
BothOn == settings["security_only"] = "on"
          /\ settings["security_and_critical"] = "on"
OffToCome ==
  \E o \in Operators : \E e \in Range(calls[o].todo) : PutsOff(e)
PairInv == TypeInv /\ NoPut /\ (BothOn => cut \/ OffToCome)

(* A write that turns a guardrail off and is not the one done stays.       *)
LEMMA OffStays ==
  ASSUME TypeInv, NEW p \in Threads, RequestNext(p), OffToCome,
         ~PutsOff(calls[p].todo[1])
  PROVE  OffToCome'
<1>1. PICK o \in Operators : \E e \in Range(calls[o].todo) : PutsOff(e)
  BY DEF OffToCome
<1>e. PICK e \in Range(calls[o].todo) : PutsOff(e)
  BY <1>1
<1>2. CASE o # p
  <2>1. calls'[o] = calls[o]
    BY <1>2, WritesStay DEF Threads
  <2> QED
    BY <1>e, <2>1 DEF OffToCome
<1>3. CASE o = p
  <2>1. PICK i \in DOMAIN calls[p].todo : e = calls[p].todo[i]
    BY <1>e, <1>3 DEF Range
  <2>2. i # 1 /\ calls[p].todo[i].op = "put"
    BY <1>e, <2>1 DEF PutsOff
  <2>3. e \in Range(calls'[p].todo)
    BY <2>1, <2>2, WritesStay
  <2> QED
    BY <1>e, <1>3, <2>3 DEF OffToCome
<1> QED
  BY <1>2, <1>3

(* A request's step: a guardrail that goes on has the other one's end next *)
(* in its request.                                                         *)
LEMMA PairRequests ==
  ASSUME PairInv, NEW p \in Threads, RequestNext(p) PROVE PairInv'
<1>0. /\ TypeInv /\ TypeInv' /\ CallsTyped /\ Agent \in Threads
      /\ calls[p].todo # <<>> /\ cut' = cut
  <2>1. cut' = cut
    BY DEF RequestNext, Get, Fill, Set, ReadEvents, SaveEvents
  <2> QED
    BY <2>1, RequestTypes, WritesStay DEF PairInv, Threads
<1>1. NoPut'
  <2>1. CASE p = Agent
    BY <1>0, <2>1, WritesStay DEF PairInv, NoPut
  <2>2. CASE p # Agent
    <3>1. calls'[Agent] = calls[Agent]
      BY <1>0, <2>2, WritesStay
    <3> QED
      BY <3>1 DEF PairInv, NoPut
  <2> QED
    BY <2>1, <2>2
<1>2. PICK s : s = calls[p].todo[1]
  OBVIOUS
<1>3. /\ 1 \in DOMAIN calls[p].todo /\ Head(calls[p].todo) = s
      /\ s \in AStep /\ Sound(s) /\ s \in Range(calls[p].todo)
  <2>1. calls[p].todo \in Seq(AStep) /\ WellFormed(calls[p].todo)
    BY <1>0 DEF CallsTyped, WellFormed
  <2>2. 1 \in DOMAIN calls[p].todo /\ Head(calls[p].todo) = calls[p].todo[1]
    BY <1>0, <2>1, EmptySeq, LenProperties
  <2> QED
    BY <1>2, <2>1, <2>2, ElementOfSeq, LenProperties DEF WellFormed, Range
<1>4. {"security_only", "security_and_critical"} \subseteq Keys
  BY ValuesAreWords DEF Pair
<1>5. CASE ~PutsOff(s) /\ \A k \in Pair : settings'[k] \in {settings[k], "off"}
  <2>1. BothOn' => BothOn
    BY <1>5 DEF BothOn, Pair
  <2>2. OffToCome => OffToCome'
    BY <1>0, <1>2, <1>5, OffStays
  <2> QED
    BY <1>0, <1>1, <2>1, <2>2 DEF PairInv
<1>6. CASE Get(p) \/ ReadEvents(p) \/ SaveEvents(p)
  <2>1. settings' = settings /\ s.op # "put"
    BY <1>2, <1>6, AtIs, <1>0 DEF Get, ReadEvents, SaveEvents
  <2> QED
    BY <1>5, <2>1 DEF PutsOff
<1>7. CASE Fill(p)
  <2>1. s.op = "fill" /\ s.key \in Filled
    BY <1>0, <1>2, <1>3, <1>7, AtIs DEF Fill, Sound
  <2>2. Store(s.key, Default(s.key)) /\ s.key \in Keys
    BY <1>3, <1>7, <2>1, DefaultIs DEF Fill
  <2>3. \A k \in Pair : settings'[k] \in {settings[k], "off"}
    BY <1>0, <2>1, <2>2, StoreIs, DefaultIs, <1>4 DEF Pair
  <2> QED
    BY <1>5, <2>1, <2>3 DEF PutsOff
<1>8. CASE Set(p)
  <2>1. s.op = "put" /\ s.key \in Keys /\ s.value \in Values(s.key)
    BY <1>0, <1>2, <1>3, <1>8, AtIs DEF Set, Sound
  <2>2. Store(s.key, s.value)
    BY <1>3, <1>8 DEF Set
  <2>3. /\ settings'[s.key] = s.value
        /\ \A x \in Keys : x # s.key => settings'[x] = settings[x]
    BY <1>0, <2>1, <2>2, StoreIs
  <2>4. CASE PutsOff(s)
    <3>1. ~BothOn'
      BY <2>3, <2>4 DEF PutsOff, Pair, BothOn
    <3> QED
      BY <1>0, <1>1, <3>1 DEF PairInv
  <2>5. CASE PutsOn(s)
    <3>1. p \in Operators
      BY <1>3, <2>1 DEF PairInv, NoPut, Threads
    <3>2. 2 \in DOMAIN calls[p].todo /\ PutsOff(calls[p].todo[2])
      <4>1. 1 + 1 = 2
        OBVIOUS
      <4> QED
        BY <1>0, <1>2, <1>3, <2>5, <4>1 DEF CallsTyped, WellFormed, Paired
    <3>3. calls[p].todo[2] \in Range(calls'[p].todo)
      BY <1>0, <3>2, WritesStay DEF PutsOff
    <3>4. OffToCome'
      BY <3>1, <3>2, <3>3 DEF OffToCome
    <3> QED
      BY <1>0, <1>1, <3>4 DEF PairInv
  <2>6. CASE s.key \notin Pair
    <3>1. \A k \in Pair : settings'[k] = settings[k]
      BY <1>4, <2>3, <2>6 DEF Pair
    <3> QED
      BY <1>5, <2>6, <3>1 DEF PutsOff
  <2> QED
    BY <2>1, <2>4, <2>5, <2>6, ValuesAreWords DEF PutsOn, PutsOff
<1> QED
  BY <1>6, <1>7, <1>8 DEF RequestNext

(* The other steps store nothing; a restart cuts the updates in flight.    *)
LEMMA PairOthers ==
  ASSUME PairInv, ~\E p \in Threads : RequestNext(p), Next PROVE PairInv'
<1>0. TypeInv /\ CallsTyped /\ Agent \notin Operators
  BY ConstantsOK DEF PairInv, TypeInv
<1>t. TypeInv'
  BY <1>0, TypeStep
<1>1. CASE \E o \in Operators : OperatorNext(o)
  <2>0. PICK o \in Operators : \E todo : WellFormed(todo) /\ Begin(o, todo)
    BY <1>1, UpdateWellFormed, ShowWellFormed
       DEF OperatorNext, UpdateSettings, ShowSettings
  <2>1. PICK todo : WellFormed(todo) /\ Begin(o, todo)
    BY <2>0
  <2>2. /\ \A q \in Threads : q # o => calls'[q] = calls[q]
        /\ calls[o] = Idle /\ settings' = settings /\ cut' = cut
    BY <1>0, <2>1, BeginIs
  <2>3. NoPut'
    BY <1>0, <2>2 DEF PairInv, NoPut, Threads
  <2>4. OffToCome => OffToCome'
    <3>1. ASSUME NEW q \in Operators, NEW e \in Range(calls[q].todo),
                 PutsOff(e)
          PROVE  OffToCome'
      <4>1. q # o
        BY <2>2, <3>1 DEF Idle, Range
      <4>2. calls'[q] = calls[q]
        BY <2>2, <4>1 DEF Threads
      <4> QED
        BY <3>1, <4>2 DEF OffToCome
    <3> QED
      BY <3>1 DEF OffToCome
  <2> QED
    BY <1>t, <2>2, <2>3, <2>4 DEF PairInv, BothOn
<1>2. ASSUME settings' = settings, cut' = cut, NoPut',
             \A q \in Threads : q # Agent => calls'[q] = calls[q]
      PROVE  PairInv'
  <2>1. \A o \in Operators : calls'[o] = calls[o]
    BY <1>0, <1>2 DEF Threads
  <2> QED
    BY <1>t, <1>2, <2>1 DEF PairInv, BothOn, OffToCome
<1>3. CASE Claim
  <2>1. /\ \A q \in Threads : q # Agent => calls'[q] = calls[q]
        /\ \E s : calls'[Agent].todo = ClaimReads(s)
    BY <1>0, <1>3, ClaimIs
  <2>2. NoPut'
    <3>1. PICK s : calls'[Agent].todo = ClaimReads(s)
      BY <2>1
    <3>2. ASSUME NEW e \in Range(calls'[Agent].todo) PROVE e.op # "put"
      <4>1. \E k : e = Reads(k)
        BY <3>1, <3>2, ClaimRange
      <4> QED
        BY <4>1, ReadsIs
    <3> QED
      BY <3>2 DEF NoPut
  <2> QED
    BY <1>2, <1>3, <2>1, <2>2 DEF Claim
<1>4. CASE Execute \/ Inventory \/ Approve
  <2>1. calls' = calls /\ settings' = settings /\ cut' = cut
    BY <1>4 DEF Execute, Inventory, Approve
  <2> QED
    BY <1>2, <2>1 DEF PairInv, NoPut
<1>5. CASE Result
  <2>1. DOMAIN <<>> \subseteq Keys
    OBVIOUS
  <2>2. /\ \A q \in Threads : q # Agent => calls'[q] = calls[q]
        /\ calls'[Agent].todo = ResultNotes
    BY <1>0, <1>5, <2>1, ResultWellFormed, AgentCallIs DEF Result
  <2>3. NoPut'
    BY <2>2, ResultRange DEF NoPut
  <2> QED
    BY <1>2, <1>5, <2>2, <2>3 DEF Result
<1>6. CASE Answered
  <2>1. DOMAIN <<>> \subseteq Keys
    OBVIOUS
  <2>2. calls' = [calls EXCEPT ![Agent] = [todo |-> <<>>, seen |-> <<>>]]
    BY <1>6 DEF Answered, Idle
  <2>3. /\ \A q \in Threads : q # Agent => calls'[q] = calls[q]
        /\ calls'[Agent].todo = <<>>
    BY <1>0, <2>1, <2>2, NoneWellFormed, AgentCallIs
  <2>4. NoPut'
    BY <2>3 DEF NoPut, Range
  <2> QED
    BY <1>2, <1>6, <2>3, <2>4 DEF Answered
<1>7. CASE Restart
  <2>1. \A p \in Threads : calls'[p] \in {calls[p], Idle}
    BY <1>7 DEF Restart
  <2>2. NoPut'
    <3>1. calls'[Agent] \in {calls[Agent], Idle}
      BY <2>1 DEF Threads
    <3> QED
      BY <3>1 DEF PairInv, NoPut, Idle, Range
  <2>3. OffToCome => \E o \in Operators : Writing(o)
    <3>1. ASSUME NEW o \in Operators, NEW e \in Range(calls[o].todo),
                 PutsOff(e)
          PROVE  Writing(o)
      BY <3>1 DEF Range, PutsOff, Writing
    <3> QED
      BY <3>1 DEF OffToCome
  <2>4. /\ settings' = settings
        /\ cut' = (cut \/ \E o \in Operators : Writing(o))
    BY <1>7 DEF Restart
  <2> QED
    BY <1>t, <2>2, <2>3, <2>4 DEF PairInv, BothOn
<1> QED
  BY <1>1, <1>3, <1>4, <1>5, <1>6, <1>7 DEF Next, AgentNext

(* However updates overlap, the two guardrails are not both on once no     *)
(* update is in flight and none was cut short, if no row of the start has  *)
(* them both on: the setters never write such a pair.                      *)
THEOREM GuardrailsHold ==
  ASSUME \A rows \in FirstRows :
           {rows["security_only"], rows["security_and_critical"]} # {"on"}
  PROVE  Spec => []GuardrailsExclusive
<1>1. Init => PairInv
  <2> SUFFICES ASSUME Init PROVE PairInv
    OBVIOUS
  <2>1. NoPut
    BY DEF Init, NoPut, Threads, Idle, Range
  <2>2. ~BothOn
    BY DEF Init, BothOn
  <2> QED
    BY <2>1, <2>2, InitTypes DEF PairInv
<1>2. PairInv /\ [Next]_vars => PairInv'
  <2> SUFFICES ASSUME PairInv, [Next]_vars PROVE PairInv'
    OBVIOUS
  <2>1. CASE UNCHANGED vars
    <3>1. TypeInv'
      BY TypeStep DEF PairInv
    <3> QED
      BY <2>1, <3>1 DEF vars, PairInv, NoPut, BothOn, OffToCome
  <2> QED
    BY <2>1, PairRequests, PairOthers
<1>3. PairInv => GuardrailsExclusive
  <2> SUFFICES ASSUME PairInv, ~cut, \A o \in Operators : ~Writing(o)
               PROVE  {settings["security_only"],
                       settings["security_and_critical"]} # {"on"}
    BY DEF GuardrailsExclusive
  <2>1. ~OffToCome
    <3>1. ASSUME NEW o \in Operators, NEW e \in Range(calls[o].todo),
                 PutsOff(e)
          PROVE  FALSE
      BY <3>1 DEF Range, PutsOff, Writing
    <3> QED
      BY <3>1 DEF OffToCome
  <2> QED
    BY <2>1 DEF PairInv, BothOn
<1> QED
  BY <1>1, <1>2, <1>3, PTL DEF Spec

-----------------------------------------------------------------------------
(* What a claim tells the host.                                            *)

(* What a claim has read: a value a row had since it began, the default of *)
(* a missing row, or the policy its schedule imposes.                      *)
Learns(seen, under, keys, values) ==
  \A k \in DOMAIN seen :
    /\ k \in Filled => seen[k] \in Values(k)
    /\ IF k = "reboot_policy" /\ Prevents(under) THEN seen[k] = "manual"
       ELSE /\ k \in keys
            /\ \/ seen[k] \in values[k]
               \/ k \in {"mode", "group"} /\ seen[k] = Default(k)

(* A claim only reads; what the host will use was read or still will be;   *)
(* while it reads, the rows are among the values they had since it began.  *)
ClaimReadsOn(todo, seen, under) ==
  /\ under # "none"
  /\ \A e \in Range(todo) : e.op \in {"see", "fill"}
                            /\ e.key \in ClaimKeys(under)
  /\ \A k \in UsedByHost \cap ClaimKeys(under) :
       k \in DOMAIN seen \/ \E e \in Range(todo) : e.key = k
  /\ Learns(seen, under, ClaimKeys(under), stored)
  /\ todo # <<>> => \A k \in Keys : settings[k] \in stored[k]
ClaimInv ==
  agent.pc = "claim" =>
    ClaimReadsOn(calls[Agent].todo, calls[Agent].seen, agent.under)
ClaimKnows == TypeInv /\ ClaimInv /\ HostObeys /\ RebootAuthorised

(* The first check that fails gives the outcome on Windows too.            *)
LEMMA WuaOutcomes ==
  ASSUME NEW found \in BOOLEAN, NEW done \in BOOLEAN, installed \in BOOLEAN
  PROVE  WuaInstall(found, done) \in {"error", "latest", "installed"}
<1> DEFINE checks == << <<~done, "error">>,
                        <<installed \/ ~found, "latest">>,
                        <<TRUE, "installed">> >>
<1>1. DOMAIN checks = 1..3 /\ 3 \in Nat /\ checks[3][1]
  OBVIOUS
<1>2. WuaInstall(found, done) = FirstOf(checks)
  BY DEF WuaInstall
<1>3. \E i \in 1..3 : FirstOf(checks) = checks[i][2]
  <2> HIDE DEF checks
  <2>1. PICK n, c : n \in Nat /\ n = 3 /\ c = checks
    OBVIOUS
  <2>2. DOMAIN c = 1..n /\ n \in 1..n /\ c[n][1]
    BY <1>1, <2>1
  <2>3. \E i \in 1..n : /\ c[i][1]
                        /\ \A j \in 1..(i - 1) : ~c[j][1]
                        /\ FirstOf(c) = c[i][2]
    BY <2>2, FirstCheck
  <2> QED
    BY <2>1, <2>3
<1> QED
  BY <1>2, <1>3

(* Windows installs with both of its switches on, and refuses or only      *)
(* scans with one of them off.                                             *)
LEMMA WindowsOutcomes ==
  ASSUME machine \in Machine, installed \in BOOLEAN,
         NEW found \in BOOLEAN, NEW done \in BOOLEAN, NEW o,
         o = WindowsOutcome(found, done), NEW scan, NEW install,
         scan = RuntimeFlag(Told("scan_apply"), machine.enable_real_apply),
         install = RuntimeFlag(Told("download_install"),
                               machine.enable_real_apply)
  PROVE  /\ o = "installed" => scan = "on" /\ install = "on"
         /\ o = "windows-disabled" => scan # "on"
         /\ o = "scan-only" => install # "on"
         /\ o \in {"installed", "windows-disabled", "scan-only", "error",
                   "latest"}
<1>0. PICK w, v : /\ w = WuaInstall(found, done)
                  /\ v = IF done THEN "scan-only" ELSE "error"
  OBVIOUS
<1>v. v \in {"scan-only", "error"}
  BY <1>0
<1>w. w \in {"error", "latest", "installed"}
  BY <1>0, WuaOutcomes
<1> DEFINE checks ==
      << <<scan # "on", "windows-disabled">>,
         <<install # "on", v>>,
         <<TRUE, w>> >>
<1>1. DOMAIN checks = 1..3 /\ 3 \in Nat /\ checks[3][1]
  OBVIOUS
<1>2. o = FirstOf(checks)
  BY <1>0 DEF WindowsOutcome
<1>3. PICK i \in 1..3 : /\ checks[i][1]
                        /\ \A j \in 1..(i - 1) : ~checks[j][1]
                        /\ o = checks[i][2]
  <2> HIDE DEF checks
  <2>1. PICK n, c : n \in Nat /\ n = 3 /\ c = checks
    OBVIOUS
  <2>2. DOMAIN c = 1..n /\ n \in 1..n /\ c[n][1]
    BY <1>1, <2>1
  <2>3. \E i \in 1..n : /\ c[i][1]
                        /\ \A j \in 1..(i - 1) : ~c[j][1]
                        /\ FirstOf(c) = c[i][2]
    BY <2>2, FirstCheck
  <2> QED
    BY <1>2, <2>1, <2>3
<1>4. CASE i = 1
  BY <1>3, <1>4
<1>5. CASE i = 2
  BY <1>3, <1>5, <1>v
<1>6. CASE i = 3
  <2>1. o = w
    BY <1>3, <1>6
  <2>2. 1 \in 1..(i - 1) /\ 2 \in 1..(i - 1)
    BY <1>6
  <2>3. scan = "on" /\ install = "on"
    BY <1>3, <2>2
  <2> QED
    BY <1>w, <2>1, <2>3
<1> QED
  BY <1>4, <1>5, <1>6

(* At the end of a claim, what the host was told was so at some moment.    *)
LEMMA HostKnows ==
  ASSUME ClaimInv, agent.pc = "claim", calls[Agent].todo = <<>>
  PROVE  /\ Linux =>
              \A k \in {"real_apply", "security_only",
                        "security_and_critical", "patterns"} :
                Told(k) \in Values(k) /\ Told(k) \in stored[k]
         /\ ~Linux =>
              \A k \in {"scan_apply", "download_install"} :
                Told(k) \in Values(k) /\ Told(k) \in stored[k]
         /\ Linux /\ Mode = "apply" =>
              Was("mode", "apply") \/ (machine.grouped /\ Was("group", "apply"))
         /\ Told("reboot_policy") = "maintenance-window" =>
              agent.under # "forbids"
              /\ Was("reboot_policy", "maintenance-window")
<1>1. PICK seen, under, keys :
        /\ seen = calls[Agent].seen /\ under = agent.under
        /\ keys = ClaimKeys(under)
  OBVIOUS
<1>2. /\ \A k \in UsedByHost \cap keys : k \in DOMAIN seen
      /\ Learns(seen, under, keys, stored)
  <2>1. Range(<<>>) = {}
    BY DEF Range
  <2> QED
    BY <1>1, <2>1 DEF ClaimInv, ClaimReadsOn
<1>3. \A k : Told(k) = IF k \in DOMAIN seen THEN seen[k] ELSE "unset"
  BY <1>1 DEF Told
<1>4. ASSUME NEW k \in UsedByHost \cap keys, k \in Filled,
             k # "reboot_policy"
      PROVE  Told(k) \in Values(k) /\ Told(k) \in stored[k]
  <2>1. k \in DOMAIN seen /\ k \notin {"mode", "group"}
    BY <1>2, <1>4 DEF Filled
  <2> QED
    BY <1>2, <1>3, <1>4, <2>1 DEF Learns
<1>5. /\ {"real_apply", "security_only", "security_and_critical", "patterns",
          "scan_apply", "download_install"} \subseteq keys
      /\ Linux => "mode" \in keys
      /\ "group" \in keys => machine.grouped
  BY <1>1 DEF ClaimKeys
<1>6. {"real_apply", "security_only", "security_and_critical", "patterns",
       "scan_apply", "download_install"} \subseteq Filled
  BY DEF Filled, Keys, Switches
<1>7. Linux => /\ {"real_apply", "security_only", "security_and_critical",
                   "patterns", "mode", "group"} \subseteq UsedByHost
  BY DEF UsedByHost, Keys, Switches
<1>8. ~Linux => {"scan_apply", "download_install"} \subseteq UsedByHost
  BY DEF UsedByHost
<1>9. ASSUME Linux, Mode = "apply"
      PROVE  Was("mode", "apply") \/ (machine.grouped /\ Was("group", "apply"))
  <2>1. CASE Told("group") = "unset"
    <3>1. Told("mode") = "apply"
      BY <1>9, <2>1 DEF Mode
    <3>2. "mode" \in DOMAIN seen /\ seen["mode"] = "apply"
      BY <1>3, <3>1
    <3>3. seen["mode"] \in stored["mode"]
      BY <1>2, <3>2, DefaultIs DEF Learns
    <3> QED
      BY <3>2, <3>3 DEF Was
  <2>2. CASE Told("group") # "unset"
    <3>1. Told("group") = "apply"
      BY <1>9, <2>2 DEF Mode
    <3>2. "group" \in DOMAIN seen /\ seen["group"] = "apply"
      BY <1>3, <3>1
    <3>3. seen["group"] \in stored["group"] /\ "group" \in keys
      BY <1>2, <3>2, DefaultIs DEF Learns
    <3> QED
      BY <1>5, <3>2, <3>3 DEF Was
  <2> QED
    BY <2>1, <2>2
<1>10. ASSUME Told("reboot_policy") = "maintenance-window"
       PROVE  /\ agent.under # "forbids"
              /\ Was("reboot_policy", "maintenance-window")
  <2>1. /\ "reboot_policy" \in DOMAIN seen
        /\ seen["reboot_policy"] = "maintenance-window"
    BY <1>3, <1>10
  <2>2. ~Prevents(under) /\ seen["reboot_policy"] \in stored["reboot_policy"]
    BY <1>2, <2>1 DEF Learns
  <2> QED
    BY <1>1, <2>1, <2>2 DEF Prevents, Was
<1> QED
  BY <1>4, <1>5, <1>6, <1>7, <1>8, <1>9, <1>10

(* The host does what it was told, and only then.                          *)
LEMMA ExecuteObeys ==
  ASSUME TypeInv, ClaimInv, Execute PROVE HostObeys' /\ RebootAuthorised'
<1>1. /\ agent.pc = "claim" /\ calls[Agent].todo = <<>>
      /\ UNCHANGED <<machine, stored>>
      /\ machine \in Machine /\ installed \in BOOLEAN
      /\ DOMAIN agent = {"pc", "under", "outcome", "reboot"}
  BY ConstantsOK DEF Execute, TypeInv
<1>2. PICK works \in BOOLEAN, done \in BOOLEAN, required \in BOOLEAN,
           shutdown \in BOOLEAN :
        LET outcome == IF Linux THEN LinuxOutcome(works, done)
                       ELSE WindowsOutcome(works, done)
        IN  /\ agent' = [agent EXCEPT
                           !.pc = "report", !.outcome = outcome,
                           !.reboot = RebootAfter(outcome, required, shutdown)]
            /\ installed' = (installed \/ outcome = "installed")
  BY DEF Execute
<1>3. PICK o, r : /\ o = IF Linux THEN LinuxOutcome(works, done)
                         ELSE WindowsOutcome(works, done)
                  /\ r = RebootAfter(o, required, shutdown)
  OBVIOUS
<1>4. /\ agent'.outcome = o /\ agent'.reboot = r
      /\ agent'.under = agent.under
  BY <1>1, <1>2, <1>3
<1>5. r = "scheduled" =>
        Told("reboot_policy") = "maintenance-window" /\ machine.reboots
  BY <1>3 DEF RebootAfter, SchedulesReboot
<1>6. RebootAuthorised'
  BY <1>1, <1>4, <1>5, HostKnows DEF RebootAuthorised, Was
<1>7. \A k : HeldOn(k)' = HeldOn(k) /\ \A v : Was(k, v)' = Was(k, v)
  BY <1>1 DEF HeldOn, Was
<1>8. CASE Linux
  <2>1. /\ o = "installed" =>
              /\ Mode = "apply" /\ RealApply /\ machine.safe
              /\ Allowed(Told("patterns"))
              /\ Told("security_only") = "on" => machine.security
              /\ Told("security_and_critical") = "on" =>
                   machine.security \/ machine.critical
        /\ o = "real-apply-disabled" => ~RealApply
        /\ o = "not-allowed" => ~Allowed(Told("patterns"))
        /\ o = "security-only" => Told("security_only") = "on"
        /\ o = "security-and-critical" =>
             Told("security_and_critical") = "on"
        /\ o \in {"installed", "real-apply-disabled", "not-allowed",
                  "security-only", "security-and-critical", "dry-run",
                  "error", "invalid-name", "latest"}
    <3>1. o = LinuxOutcome(works, done)
      BY <1>3, <1>8
    <3> QED
      BY <1>1, <3>1, LinuxOutcomes
  <2>2. /\ \A k \in {"real_apply", "security_only",
                     "security_and_critical", "patterns"} :
             Told(k) \in Values(k) /\ Told(k) \in stored[k]
        /\ Mode = "apply" =>
             Was("mode", "apply") \/ (machine.grouped /\ Was("group", "apply"))
    BY <1>1, <1>8, HostKnows
  <2>3. RealApply <=> Told("real_apply") = "on"
    BY <2>2 DEF RealApply, RuntimeFlag, Values, Switches
  <2>4. Allowed(Told("patterns")) <=>
          Told("patterns") # "listed" \/ machine.listed
    BY <2>2 DEF Allowed, Values, Switches
  <2>5. o = "installed" => HostInstalls
    BY <1>8, <2>1, <2>2, <2>3, <2>4 DEF HostInstalls, HeldOn, Was, Allowed
  <2>6. /\ o = "real-apply-disabled" => ~HeldOn("real_apply")
        /\ o = "not-allowed" => Was("patterns", "listed")
        /\ o = "security-only" => Was("security_only", "on")
        /\ o = "security-and-critical" => Was("security_and_critical", "on")
        /\ o # "windows-disabled" /\ o # "scan-only"
    BY <2>1, <2>2, <2>3, <2>4 DEF HeldOn, Was
  <2>7. HostInstalls' = HostInstalls
    BY <1>1 DEF HostInstalls, Linux, HeldOn, Was
  <2>8. HostRefuses'
    BY <1>4, <1>7, <2>6 DEF HostRefuses
  <2> QED
    BY <1>4, <1>6, <2>5, <2>7, <2>8 DEF HostObeys
<1>9. CASE ~Linux
  <2>1. PICK scan, install :
          /\ scan = RuntimeFlag(Told("scan_apply"), machine.enable_real_apply)
          /\ install = RuntimeFlag(Told("download_install"),
                                   machine.enable_real_apply)
    OBVIOUS
  <2>2. /\ o = "installed" => scan = "on" /\ install = "on"
        /\ o = "windows-disabled" => scan # "on"
        /\ o = "scan-only" => install # "on"
        /\ o \in {"installed", "windows-disabled", "scan-only", "error",
                  "latest"}
    <3>1. o = WindowsOutcome(works, done)
      BY <1>3, <1>9
    <3> QED
      BY <1>1, <2>1, <3>1, WindowsOutcomes
  <2>3. \A k \in {"scan_apply", "download_install"} :
          Told(k) \in Values(k) /\ Told(k) \in stored[k]
    BY <1>1, <1>9, HostKnows
  <2>4. scan = Told("scan_apply") /\ install = Told("download_install")
    BY <2>1, <2>3 DEF RuntimeFlag, Values, Switches
  <2>5. o = "installed" => HostInstalls
    BY <1>9, <2>2, <2>3, <2>4 DEF HostInstalls, Was
  <2>6. /\ o = "windows-disabled" => ~HeldOn("scan_apply")
        /\ o = "scan-only" => ~HeldOn("download_install")
    BY <2>2, <2>3, <2>4 DEF HeldOn
  <2>7. HostInstalls' = HostInstalls
    BY <1>1 DEF HostInstalls, Linux, HeldOn, Was
  <2>8. HostRefuses'
    BY <1>4, <1>7, <2>2, <2>6 DEF HostRefuses
  <2> QED
    BY <1>4, <1>6, <2>5, <2>7, <2>8 DEF HostObeys
<1> QED
  BY <1>8, <1>9

(* The platform of a host does not change, nor what it uses.               *)
LEMMA HostSame ==
  ASSUME machine' = machine
  PROVE  /\ Linux' = Linux /\ UsedByHost' = UsedByHost
         /\ \A u : ClaimKeys(u)' = ClaimKeys(u)
BY DEF Linux, UsedByHost, ClaimKeys

(* A report stands until its result: the history of its claim is kept.     *)
LEMMA ReportStands ==
  ASSUME HostObeys, RebootAuthorised, agent' = agent, machine' = machine,
         agent.pc = "report" => stored' = stored
  PROVE  HostObeys' /\ RebootAuthorised'
<1>1. CASE agent.pc = "report"
  <2>1. /\ \A k : HeldOn(k)' = HeldOn(k) /\ \A v : Was(k, v)' = Was(k, v)
        /\ HostInstalls' = HostInstalls
    BY <1>1 DEF HeldOn, Was, HostInstalls, Linux
  <2>2. HostRefuses' = HostRefuses
    BY <2>1 DEF HostRefuses
  <2> QED
    BY <1>1, <2>1, <2>2 DEF HostObeys, RebootAuthorised
<1>2. CASE agent.pc # "report"
  BY <1>2 DEF HostObeys, RebootAuthorised
<1> QED
  BY <1>1, <1>2

(* A step of a request stores at most one row, and a claim under way keeps *)
(* what it stores.                                                         *)
LEMMA RowsMove ==
  ASSUME TypeInv, NEW p \in Threads, RequestNext(p)
  PROVE  /\ agent' = agent /\ machine' = machine
         /\ agent.pc = "report" => stored' = stored
         /\ agent.pc = "claim" =>
              /\ \A x \in Keys : stored[x] \subseteq stored'[x]
              /\ calls[Agent].todo # <<>>
                   /\ (\A x \in Keys : settings[x] \in stored[x])
                   => \A x \in Keys : settings'[x] \in stored'[x]
<1>0. CallsTyped
  BY DEF TypeInv
<1>1. agent' = agent /\ machine' = machine
  BY DEF RequestNext, Get, Fill, Set, ReadEvents, SaveEvents
<1>2. \/ UNCHANGED <<settings, stored>>
      \/ \E k \in Keys : \E v \in Values(k) : Store(k, v)
  <2>1. CASE Get(p) \/ ReadEvents(p) \/ SaveEvents(p)
    BY <2>1 DEF Get, ReadEvents, SaveEvents
  <2>2. CASE Fill(p)
    <3>1. PICK k : k = calls[p].todo[1].key
      OBVIOUS
    <3>2. k \in Filled /\ Head(calls[p].todo).key = k
      BY <1>0, <2>2, <3>1, AtIs DEF Fill, Sound
    <3> QED
      BY <2>2, <3>2, DefaultIs DEF Fill
  <2>3. CASE Set(p)
    <3>1. PICK s : s = calls[p].todo[1]
      OBVIOUS
    <3>2. /\ Head(calls[p].todo) = s /\ s.key \in Keys
          /\ s.value \in Values(s.key)
      BY <1>0, <2>3, <3>1, AtIs DEF Set, Sound
    <3> QED
      BY <2>3, <3>2 DEF Set
  <2> QED
    BY <2>1, <2>2, <2>3 DEF RequestNext
<1>3. CASE UNCHANGED <<settings, stored>>
  BY <1>1, <1>3
<1>4. ASSUME NEW k \in Keys, NEW v \in Values(k), Store(k, v)
      PROVE  /\ agent.pc = "report" => stored' = stored
             /\ agent.pc = "claim" =>
                  /\ \A x \in Keys : stored[x] \subseteq stored'[x]
                  /\ calls[Agent].todo # <<>>
                       /\ (\A x \in Keys : settings[x] \in stored[x])
                       => \A x \in Keys : settings'[x] \in stored'[x]
  <2>1. /\ settings'[k] = v
        /\ \A x \in Keys : x # k => settings'[x] = settings[x]
        /\ ~Claiming => stored' = stored
        /\ Claiming => /\ v \in stored'[k]
                       /\ \A x \in Keys : stored[x] \subseteq stored'[x]
    BY <1>4, StoreIs
  <2>2. CASE Claiming
    <3>1. /\ agent.pc = "claim" /\ calls[Agent].todo # <<>>
      BY <2>2 DEF Claiming
    <3>2. ASSUME \A x \in Keys : settings[x] \in stored[x], NEW x \in Keys
          PROVE  settings'[x] \in stored'[x]
      <4>1. CASE x = k
        BY <2>1, <2>2, <4>1
      <4>2. CASE x # k
        BY <2>1, <2>2, <3>2, <4>2
      <4> QED
        BY <4>1, <4>2
    <3> QED
      BY <2>1, <2>2, <3>1, <3>2
  <2>3. CASE ~Claiming
    <3>1. stored' = stored
      BY <2>1, <2>3
    <3>2. agent.pc = "claim" => calls[Agent].todo = <<>>
      BY <2>3 DEF Claiming
    <3> QED
      BY <3>1, <3>2
  <2> QED
    BY <2>2, <2>3
<1> QED
  BY <1>1, <1>2, <1>3, <1>4

(* What was learnt stays so while the history grows.                       *)
LEMMA LearnsMore ==
  ASSUME NEW seen, NEW under, NEW keys, NEW values, NEW more,
         keys \subseteq Keys, Learns(seen, under, keys, values),
         \A x \in Keys : values[x] \subseteq more[x]
  PROVE  Learns(seen, under, keys, more)
BY DEF Learns

(* Another thread's step leaves a claim as it was.                         *)
LEMMA ClaimUndisturbed ==
  ASSUME TypeInv, ClaimInv, NEW p \in Threads, RequestNext(p), p # Agent
  PROVE  ClaimInv'
<1> SUFFICES ASSUME agent.pc = "claim"
             PROVE  ClaimReadsOn(calls[Agent].todo, calls[Agent].seen,
                                 agent.under)'
  BY RowsMove DEF ClaimInv
<1>1. /\ calls'[Agent] = calls[Agent] /\ agent' = agent
      /\ machine' = machine
  BY WritesStay, RowsMove DEF Threads
<1>2. ClaimReadsOn(calls[Agent].todo, calls[Agent].seen, agent.under)
  BY DEF ClaimInv
<1>3. PICK todo, seen, under : /\ todo = calls[Agent].todo
                               /\ seen = calls[Agent].seen
                               /\ under = agent.under
  OBVIOUS
<1>4. /\ UsedByHost' = UsedByHost
      /\ \A u : ClaimKeys(u)' = ClaimKeys(u)
  BY <1>1, HostSame
<1>5. ClaimKeys(under) \subseteq Keys
  BY DEF ClaimKeys, Keys, Switches
<1>6. /\ Learns(seen, under, ClaimKeys(under), stored')
      /\ todo # <<>> => \A k \in Keys : settings'[k] \in stored'[k]
  BY <1>2, <1>3, <1>5, RowsMove, LearnsMore DEF ClaimReadsOn
<1>7. /\ under # "none"
      /\ \A e \in Range(todo) : e.op \in {"see", "fill"}
                                /\ e.key \in ClaimKeys(under)
      /\ \A k \in UsedByHost \cap ClaimKeys(under) :
           k \in DOMAIN seen \/ \E e \in Range(todo) : e.key = k
  BY <1>2, <1>3 DEF ClaimReadsOn
<1>8. /\ agent'.under = under /\ calls'[Agent].todo = todo
      /\ calls'[Agent].seen = seen
  BY <1>1, <1>3
<1> QED
  BY <1>4, <1>6, <1>7, <1>8 DEF ClaimReadsOn, Learns

(* A claim's thread takes up one more value and goes on.                   *)
LEMMA LearnsOne ==
  ASSUME CallsTyped, ClaimInv, agent.pc = "claim", calls[Agent].todo # <<>>,
         NEW k, k = calls[Agent].todo[1].key, NEW v, NEW seen,
         seen = Noticed(Agent, k, v), NEW rows, Advance(Agent, seen, rows),
         NEW values, \A x \in Keys : stored[x] \subseteq values[x],
         k \in Filled => v \in Values(k),
         v \in values[k] \/ (k \in {"mode", "group"} /\ v = Default(k))
  PROVE  /\ calls'[Agent].seen = seen
         /\ \A e \in Range(calls'[Agent].todo) :
              e.op \in {"see", "fill"} /\ e.key \in ClaimKeys(agent.under)
         /\ \A x \in UsedByHost \cap ClaimKeys(agent.under) :
              \/ x \in DOMAIN seen
              \/ \E e \in Range(calls'[Agent].todo) : e.key = x
         /\ Learns(seen, agent.under, ClaimKeys(agent.under), values)
<1>1. PICK todo, old, under, keys :
        /\ todo = calls[Agent].todo /\ old = calls[Agent].seen
        /\ under = agent.under /\ keys = ClaimKeys(under)
  OBVIOUS
<1>2. ClaimReadsOn(todo, old, under)
  BY <1>1 DEF ClaimInv
<1>3. /\ keys \subseteq Keys
      /\ Prevents(under) => "reboot_policy" \notin keys
  BY <1>1 DEF ClaimKeys, Keys, Switches
<1>4. Agent \in Threads /\ 1 \in DOMAIN todo /\ todo[1] \in Range(todo)
  <2>1. todo \in Seq(AStep) /\ todo # <<>>
    BY <1>1 DEF CallsTyped, WellFormed, Threads
  <2>2. 1 \in DOMAIN todo
    BY <2>1, EmptySeq, LenProperties
  <2> QED
    BY <2>2 DEF Range, Threads
<1>5. k \in keys /\ k \in Keys
  BY <1>1, <1>2, <1>3, <1>4 DEF ClaimReadsOn
<1>6. IF k \notin UsedByHost THEN seen = old
      ELSE /\ DOMAIN seen = DOMAIN old \cup {k} /\ seen[k] = v
           /\ \A x \in DOMAIN old : x # k => seen[x] = old[x]
  <2>1. Unused(Agent, calls[Agent].todo, k) <=> k \notin UsedByHost
    BY DEF Unused
  <2>2. CASE k \notin UsedByHost
    BY <1>1, <2>1, <2>2 DEF Noticed
  <2>3. CASE k \in UsedByHost
    <3>1. seen = [x \in DOMAIN old \cup {k} |-> IF x = k THEN v ELSE old[x]]
      BY <1>1, <2>1, <2>3 DEF Noticed
    <3> QED
      BY <2>3, <3>1
  <2> QED
    BY <2>2, <2>3
<1>7. DOMAIN seen \subseteq Keys
  BY <1>4, <1>5, NoticedIs
<1>8. /\ Range(calls'[Agent].todo) \subseteq Range(todo)
      /\ \A i \in DOMAIN todo :
           \/ i = 1
           \/ NoOp(Agent, Tail(todo), todo[i], seen, rows)
           \/ todo[i] \in Range(calls'[Agent].todo)
      /\ calls'[Agent].seen = seen
  BY <1>1, <1>4, <1>7, AdvanceIs
<1>9. ASSUME NEW x \in UsedByHost \cap keys
      PROVE  x \in DOMAIN seen \/ \E e \in Range(calls'[Agent].todo) : e.key = x
  <2>1. CASE x \in DOMAIN old
    BY <1>6, <2>1
  <2>2. CASE x \notin DOMAIN old
    <3>1. PICK e \in Range(todo) : e.key = x
      BY <1>1, <1>2, <2>2 DEF ClaimReadsOn
    <3>2. PICK i \in DOMAIN todo : e = todo[i]
      BY <3>1 DEF Range
    <3>3. CASE i = 1
      BY <1>1, <1>6, <3>1, <3>2, <3>3
    <3>4. CASE i # 1
      <4>1. ~NoOp(Agent, Tail(todo), e, seen, rows)
        <5>1. e.op \in {"see", "fill"}
          BY <1>2, <3>1 DEF ClaimReadsOn
        <5>2. ~Unused(Agent, Tail(todo), x)
          BY DEF Unused
        <5> QED
          BY <3>1, <5>1, <5>2 DEF NoOp
      <4> QED
        BY <1>8, <3>1, <3>2, <3>4, <4>1
    <3> QED
      BY <3>3, <3>4
  <2> QED
    BY <2>1, <2>2
<1>10. Learns(seen, under, keys, values)
  <2>1. Learns(old, under, keys, values)
    BY <1>1, <1>2, <1>3, LearnsMore DEF ClaimReadsOn
  <2>2. CASE k \notin UsedByHost
    BY <1>6, <2>1, <2>2
  <2>3. CASE k \in UsedByHost
    <3>1. ASSUME NEW x \in DOMAIN seen
          PROVE  /\ x \in Filled => seen[x] \in Values(x)
                 /\ IF x = "reboot_policy" /\ Prevents(under)
                    THEN seen[x] = "manual"
                    ELSE /\ x \in keys
                         /\ \/ seen[x] \in values[x]
                            \/ x \in {"mode", "group"} /\ seen[x] = Default(x)
      <4>1. CASE x = k
        BY <1>3, <1>5, <1>6, <2>3, <4>1
      <4>2. CASE x # k
        <5>1. x \in DOMAIN old /\ seen[x] = old[x]
          BY <1>6, <2>3, <4>2
        <5> QED
          BY <2>1, <5>1 DEF Learns
      <4> QED
        BY <4>1, <4>2
    <3> QED
      BY <3>1 DEF Learns
  <2> QED
    BY <2>2, <2>3
<1> QED
  BY <1>1, <1>2, <1>8, <1>9, <1>10 DEF ClaimReadsOn

(* Its own step: the row it reads, or the default it stores.               *)
LEMMA ClaimGoesOn ==
  ASSUME TypeInv, ClaimInv, RequestNext(Agent) PROVE ClaimInv'
<1> SUFFICES ASSUME agent.pc = "claim"
             PROVE  ClaimReadsOn(calls[Agent].todo, calls[Agent].seen,
                                 agent.under)'
  BY RowsMove DEF ClaimInv, Threads
<1>0. Agent \in Threads
  BY DEF Threads
<1>1. /\ agent' = agent /\ machine' = machine /\ CallsTyped
      /\ calls[Agent].todo # <<>>
      /\ \A x \in Keys : stored[x] \subseteq stored'[x]
  BY <1>0, RowsMove, WritesStay
<1>2. PICK todo, seen, under, k :
        /\ todo = calls[Agent].todo /\ seen = calls[Agent].seen
        /\ under = agent.under /\ k = todo[1].key
  OBVIOUS
<1>3. ClaimReadsOn(todo, seen, under)
  BY <1>2 DEF ClaimInv
<1>4. /\ 1 \in DOMAIN todo /\ todo[1].op \in {"see", "fill"} /\ k \in Keys
      /\ k \in ClaimKeys(under) /\ Head(todo) = todo[1]
      /\ settings[k] \in stored[k]
      /\ todo[1].op = "fill" => k \in Filled
  <2>1. todo \in Seq(AStep) /\ todo # <<>> /\ WellFormed(todo)
    BY <1>0, <1>1, <1>2 DEF CallsTyped, WellFormed
  <2>2. 1 \in DOMAIN todo /\ Head(todo) = todo[1]
    BY <2>1, EmptySeq, LenProperties
  <2>3. todo[1] \in Range(todo) /\ Sound(todo[1])
    BY <2>1, <2>2 DEF WellFormed, Range
  <2>4. ClaimKeys(under) \subseteq Keys
    BY DEF ClaimKeys, Keys, Switches
  <2> QED
    BY <1>2, <1>3, <2>1, <2>2, <2>3, <2>4 DEF ClaimReadsOn, Sound
<1>5. \A x \in Keys : settings'[x] \in stored'[x]
  BY <1>0, <1>1, <1>2, <1>3, RowsMove DEF ClaimReadsOn
<1>6. /\ UsedByHost' = UsedByHost
      /\ \A u : ClaimKeys(u)' = ClaimKeys(u)
  BY <1>1, HostSame
<1>7. ASSUME NEW v, NEW more, more = Noticed(Agent, k, v),
             NEW rows, Advance(Agent, more, rows),
             k \in Filled => v \in Values(k),
             v \in stored'[k] \/ (k \in {"mode", "group"} /\ v = Default(k))
      PROVE  ClaimReadsOn(calls[Agent].todo, calls[Agent].seen, agent.under)'
  <2>1. /\ calls'[Agent].seen = more
        /\ \A e \in Range(calls'[Agent].todo) :
             e.op \in {"see", "fill"} /\ e.key \in ClaimKeys(under)
        /\ \A x \in UsedByHost \cap ClaimKeys(under) :
             \/ x \in DOMAIN more
             \/ \E e \in Range(calls'[Agent].todo) : e.key = x
        /\ Learns(more, under, ClaimKeys(under), stored')
    BY <1>1, <1>2, <1>7, LearnsOne
  <2>2. under # "none" /\ agent'.under = under
    BY <1>1, <1>2, <1>3 DEF ClaimReadsOn
  <2> QED
    BY <1>5, <1>6, <2>1, <2>2 DEF ClaimReadsOn, Learns
<1>8. CASE Get(Agent)
  <2>1. ASSUME NEW new \in AStep, new.op = "fill", new.key = k, Sound(new),
               calls' = [calls EXCEPT ![Agent] =
                   [calls[Agent] EXCEPT !.todo =
                      [calls[Agent].todo EXCEPT ![1] = new]]]
        PROVE  ClaimReadsOn(calls[Agent].todo, calls[Agent].seen,
                            agent.under)'
    <3>1. /\ calls'[Agent].seen = seen
          /\ DOMAIN calls'[Agent].todo = DOMAIN todo
          /\ calls'[Agent].todo[1] = new
          /\ \A i \in DOMAIN todo : i # 1 => calls'[Agent].todo[i] = todo[i]
      <4>1. /\ calls'[Agent].seen = calls[Agent].seen
            /\ DOMAIN calls'[Agent].todo = DOMAIN calls[Agent].todo
            /\ calls'[Agent].todo[1] = new
            /\ \A i \in DOMAIN calls[Agent].todo :
                 i # 1 => calls'[Agent].todo[i] = calls[Agent].todo[i]
        BY <1>0, <1>1, <2>1, HeadIs
      <4> QED
        BY <1>2, <4>1
    <3>2. PICK next : next = calls'[Agent].todo
      OBVIOUS
    <3>3. \A e \in Range(next) : e.op \in {"see", "fill"}
                                 /\ e.key \in ClaimKeys(under)
      BY <1>3, <1>4, <2>1, <3>1, <3>2 DEF Range, ClaimReadsOn
    <3>4. ASSUME NEW x \in UsedByHost \cap ClaimKeys(under)
          PROVE  x \in DOMAIN seen \/ \E e \in Range(next) : e.key = x
      <4>1. CASE x \in DOMAIN seen
        BY <4>1
      <4>2. CASE \E e \in Range(todo) : e.key = x
        <5>1. PICK i \in DOMAIN todo : todo[i].key = x
          BY <4>2 DEF Range
        <5>2. i \in DOMAIN next /\ next[i].key = x
          BY <1>2, <2>1, <3>1, <3>2, <5>1
        <5> QED
          BY <5>2 DEF Range
      <4> QED
        BY <1>3, <4>1, <4>2 DEF ClaimReadsOn
    <3>5. /\ under # "none" /\ agent'.under = under
          /\ Learns(seen, under, ClaimKeys(under), stored)
      BY <1>1, <1>2, <1>3 DEF ClaimReadsOn
    <3>6. stored' = stored
      BY <1>8 DEF Get
    <3> QED
      BY <1>5, <1>6, <3>1, <3>2, <3>3, <3>4, <3>5, <3>6
         DEF ClaimReadsOn, Learns
  <2>2. ASSUME NEW v, NEW more,
               v = IF settings[k] = "unset" THEN Default(k) ELSE settings[k],
               settings[k] = "unset" => k \notin Filled,
               more = Noticed(Agent, k, v), Advance(Agent, more, settings)
        PROVE  ClaimReadsOn(calls[Agent].todo, calls[Agent].seen,
                            agent.under)'
    <3>1. k \in Filled => v \in Values(k)
      BY <1>4, <2>2 DEF TypeInv
    <3>2. v \in stored'[k] \/ (k \in {"mode", "group"} /\ v = Default(k))
      BY <1>1, <1>4, <2>2 DEF Filled
    <3> QED
      BY <1>7, <2>2, <3>1, <3>2
  <2> QED
    BY <1>0, <1>2, <1>8, <2>1, <2>2, GetIs
<1>9. CASE Fill(Agent)
  <2>1. todo[1].op = "fill" /\ Head(calls[Agent].todo).key = k
    BY <1>0, <1>1, <1>2, <1>4, <1>9, AtIs DEF Fill
  <2>2. /\ Store(k, Default(k))
        /\ Advance(Agent, Noticed(Agent, k, Default(k)), settings')
    BY <1>9, <2>1 DEF Fill
  <2>3. k \in Filled /\ Default(k) \in Values(k)
    BY <1>4, <2>1, DefaultIs
  <2>4. settings'[k] = Default(k)
    BY <1>4, <2>2, <2>3, StoreIs
  <2> QED
    BY <1>4, <1>5, <1>7, <2>2, <2>3, <2>4
<1>10. CASE Set(Agent) \/ ReadEvents(Agent) \/ SaveEvents(Agent)
  <2>1. todo[1].op \in {"put", "trace", "note", "save"}
    BY <1>0, <1>1, <1>2, <1>10, AtIs DEF Set, ReadEvents, SaveEvents
  <2> QED
    BY <1>4, <2>1
<1> QED
  BY <1>8, <1>9, <1>10 DEF RequestNext

(* A claim begins with everything it will tell the host still to be read.  *)
LEMMA ClaimBegins == ASSUME TypeInv, Claim PROVE ClaimInv'
<1>1. PICK under \in {"allows", "forbids"} :
        /\ agent'.pc = "claim" /\ agent'.under = under
        /\ calls'[Agent].todo = ClaimReads(under)
        /\ DOMAIN calls'[Agent].seen =
             IF Prevents(under) THEN {"reboot_policy"} ELSE {}
        /\ Prevents(under) => calls'[Agent].seen["reboot_policy"] = "manual"
  BY ClaimIs
<1>2. /\ machine' = machine /\ settings' = settings
      /\ stored' = [k \in Keys |-> {settings[k]}]
  BY DEF Claim
<1>3. /\ UsedByHost' = UsedByHost
      /\ \A u : ClaimKeys(u)' = ClaimKeys(u)
  BY <1>2, HostSame
<1>4. PICK todo, seen : /\ todo = calls'[Agent].todo
                        /\ seen = calls'[Agent].seen
  OBVIOUS
<1>5. Range(todo) = {Reads(k) : k \in ClaimKeys(under)}
  BY <1>1, <1>4, ClaimRange
<1>6. /\ \A e \in Range(todo) : e.op \in {"see", "fill"}
                                /\ e.key \in ClaimKeys(under)
      /\ \A k \in ClaimKeys(under) : \E e \in Range(todo) : e.key = k
  BY <1>5, ReadsIs
<1>7. Learns(seen, under, ClaimKeys(under), stored')
  <2>1. "manual" \in Values("reboot_policy")
    BY DEF Values, Switches
  <2> QED
    BY <1>1, <1>4, <2>1 DEF Learns
<1>8. \A k \in Keys : settings'[k] \in stored'[k]
  BY <1>2
<1>9. ClaimReadsOn(calls[Agent].todo, calls[Agent].seen, agent.under)'
  BY <1>1, <1>3, <1>4, <1>6, <1>7, <1>8 DEF ClaimReadsOn, Learns
<1> QED
  BY <1>9 DEF ClaimInv

(* A claim, its execution and its report, at every step of the system.     *)
LEMMA ClaimKnowsStep == ClaimKnows /\ [Next]_vars => ClaimKnows'
<1> SUFFICES ASSUME ClaimKnows, [Next]_vars PROVE ClaimKnows'
  OBVIOUS
<1>0. TypeInv /\ TypeInv' /\ ClaimInv /\ HostObeys /\ RebootAuthorised
  BY TypeStep DEF ClaimKnows
<1>a. Agent \in Threads /\ Agent \notin Operators
  BY ConstantsOK DEF Threads
<1>1. ASSUME agent' = agent, machine' = machine, settings' = settings,
             stored' = stored, calls'[Agent] = calls[Agent]
      PROVE  ClaimKnows'
  <2>1. HostObeys' /\ RebootAuthorised'
    BY <1>0, <1>1, ReportStands
  <2>2. ClaimInv'
    <3>1. /\ UsedByHost' = UsedByHost
          /\ \A u : ClaimKeys(u)' = ClaimKeys(u)
      BY <1>1, HostSame
    <3> QED
      BY <1>0, <1>1, <3>1 DEF ClaimInv, ClaimReadsOn, Learns
  <2> QED
    BY <1>0, <2>1, <2>2 DEF ClaimKnows
<1>2. CASE UNCHANGED vars
  BY <1>1, <1>2 DEF vars
<1>3. ASSUME NEW o \in Operators, OperatorNext(o) PROVE ClaimKnows'
  <2>1. \E todo : WellFormed(todo) /\ Begin(o, todo)
    BY <1>3, UpdateWellFormed, ShowWellFormed
       DEF OperatorNext, UpdateSettings, ShowSettings
  <2>2. /\ calls'[Agent] = calls[Agent]
        /\ UNCHANGED <<machine, settings, agent, stored>>
    BY <1>0, <1>a, <2>1, BeginIs
  <2> QED
    BY <1>1, <2>2
<1>4. ASSUME NEW p \in Threads, RequestNext(p) PROVE ClaimKnows'
  <2>1. ClaimInv'
    BY <1>0, <1>4, ClaimUndisturbed, ClaimGoesOn
  <2>2. /\ agent' = agent /\ machine' = machine
        /\ agent.pc = "report" => stored' = stored
    BY <1>0, <1>4, RowsMove
  <2> QED
    BY <1>0, <2>1, <2>2, ReportStands DEF ClaimKnows
<1>5. ASSUME agent'.pc \in {"idle", "result"} PROVE ClaimKnows'
  BY <1>0, <1>5 DEF ClaimKnows, ClaimInv, HostObeys, RebootAuthorised
<1>6. CASE Claim
  <2>1. agent'.pc = "claim"
    BY <1>0, <1>6, ClaimIs
  <2> QED
    BY <1>0, <1>6, <2>1, ClaimBegins
       DEF ClaimKnows, HostObeys, RebootAuthorised
<1>7. CASE Execute
  <2>1. agent'.pc = "report"
    BY <1>0, <1>7 DEF Execute, TypeInv
  <2> QED
    BY <1>0, <1>7, <2>1, ExecuteObeys DEF ClaimKnows, ClaimInv
<1>8. CASE Result \/ Answered
  BY <1>5, <1>8 DEF Result, Answered, Resting
<1>9. CASE Inventory \/ Approve
  <2>1. /\ agent' = agent /\ machine' = machine /\ settings' = settings
        /\ stored' = stored /\ calls' = calls
    BY <1>9 DEF Inventory, Approve
  <2> QED
    BY <1>1, <2>1
<1>10. CASE Restart
  <2>1. CASE Claiming \/ agent.pc \in {"report", "result"}
    <3>1. agent' = Resting
      BY <1>10, <2>1 DEF Restart
    <3> QED
      BY <1>5, <3>1 DEF Resting
  <2>2. CASE ~(Claiming \/ agent.pc \in {"report", "result"})
    <3>1. /\ agent' = agent /\ machine' = machine /\ settings' = settings
          /\ stored' = stored /\ calls'[Agent] = calls[Agent]
      BY <1>a, <1>10, <2>2 DEF Restart
    <3> QED
      BY <1>1, <3>1
  <2> QED
    BY <2>1, <2>2
<1> QED
  BY <1>2, <1>3, <1>4, <1>6, <1>7, <1>8, <1>9, <1>10 DEF Next, AgentNext

(* What a claim told the host is known, and the host obeys.                *)
LEMMA ClaimInvariant == Spec => []ClaimKnows
<1>1. Init => ClaimKnows
  <2> SUFFICES ASSUME Init PROVE ClaimKnows
    OBVIOUS
  <2>1. agent.pc = "idle"
    BY DEF Init, Resting
  <2> QED
    BY <2>1, InitTypes
       DEF ClaimKnows, ClaimInv, HostObeys, RebootAuthorised
<1> QED
  BY <1>1, ClaimKnowsStep, PTL DEF Spec

(* Whatever updates cross the reads of a claim, a host installs only as    *)
(* the settings allowed at some moment of it and refuses only under a      *)
(* guardrail that stood at some moment of it.                              *)
THEOREM HostObeysHolds == Spec => []HostObeys
<1>1. ClaimKnows => HostObeys
  BY DEF ClaimKnows
<1> QED
  BY <1>1, ClaimInvariant, PTL

(* A job schedules a reboot only on a host that may, under a policy that   *)
(* was the maintenance window during the claim, and never if the schedule  *)
(* forbade it.                                                             *)
THEOREM RebootHolds == Spec => []RebootAuthorised
<1>1. ClaimKnows => RebootAuthorised
  BY DEF ClaimKnows
<1> QED
  BY <1>1, ClaimInvariant, PTL

-----------------------------------------------------------------------------
(* The real_apply switch and its events.                                   *)

(* A write of the switch reads it first and records the event next; in     *)
(* what is left of a request these three stand together.                   *)
Flips(s, ops) == s.key = "real_apply" /\ s.op \in ops
Turns(s) == Flips(s, {"put", "trace", "note", "save"})
Framed(todo) ==
  \A i \in DOMAIN todo :
    /\ Flips(todo[i], {"put"}) =>
         /\ i + 1 \in DOMAIN todo
         /\ Flips(todo[i + 1], {"trace"}) /\ todo[i + 1].value = todo[i].value
         /\ i # 1 => Flips(todo[i - 1], {"see", "fill"})
    /\ Flips(todo[i], {"trace", "note", "save"}) /\ i # 1 =>
         Flips(todo[i - 1], {"put"}) /\ todo[i - 1].value = todo[i].value
Whole(todo) ==
  /\ todo \in Seq(AStep)
  /\ Framed(todo)
  /\ 1 \in DOMAIN todo => ~Turns(todo[1])

(* The end of a framed request is framed.                                  *)
LEMMA FramedEnd ==
  ASSUME NEW s, NEW r, NEW l \in Nat, NEW m \in 1..(l + 1),
         DOMAIN s = 1..l, DOMAIN r = 1..(l - m + 1), Framed(s),
         \A i \in DOMAIN r : r[i] = s[i + m - 1]
  PROVE  Framed(r)
<1> SUFFICES ASSUME NEW i \in DOMAIN r
             PROVE  /\ Flips(r[i], {"put"}) =>
                         /\ i + 1 \in DOMAIN r
                         /\ Flips(r[i + 1], {"trace"})
                         /\ r[i + 1].value = r[i].value
                         /\ i # 1 => Flips(r[i - 1], {"see", "fill"})
                    /\ Flips(r[i], {"trace", "note", "save"}) /\ i # 1 =>
                         /\ Flips(r[i - 1], {"put"})
                         /\ r[i - 1].value = r[i].value
  BY DEF Framed
<1>1. PICK k : k = i + m - 1
  OBVIOUS
<1>2. k \in DOMAIN s /\ r[i] = s[k]
  BY <1>1
<1>3. i # 1 => k # 1 /\ i - 1 \in DOMAIN r /\ r[i - 1] = s[k - 1]
  BY <1>1
<1>4. k + 1 \in DOMAIN s => i + 1 \in DOMAIN r /\ r[i + 1] = s[k + 1]
  BY <1>1
<1> QED
  BY <1>2, <1>3, <1>4 DEF Framed

(* Whole requests can be put together.                                     *)
LEMMA ConcatWhole ==
  ASSUME NEW s, NEW t, Whole(s), Whole(t) PROVE Whole(s \o t)
<1>1. PICK r, l : r = s \o t /\ l = Len(s)
  OBVIOUS
<1>2. /\ s \in Seq(AStep) /\ t \in Seq(AStep) /\ r \in Seq(AStep)
      /\ l \in Nat /\ DOMAIN s = 1..l
      /\ Len(t) \in Nat /\ DOMAIN t = 1..Len(t)
      /\ DOMAIN r = 1..(l + Len(t))
      /\ \A i \in 1..(l + Len(t)) :
           r[i] = IF i <= l THEN s[i] ELSE t[i - l]
  BY <1>1, ConcatProperties, LenProperties DEF Whole
<1>3. ASSUME NEW i \in DOMAIN r
      PROVE  /\ Flips(r[i], {"put"}) =>
                  /\ i + 1 \in DOMAIN r
                  /\ Flips(r[i + 1], {"trace"})
                  /\ r[i + 1].value = r[i].value
                  /\ i # 1 => Flips(r[i - 1], {"see", "fill"})
             /\ Flips(r[i], {"trace", "note", "save"}) /\ i # 1 =>
                  /\ Flips(r[i - 1], {"put"})
                  /\ r[i - 1].value = r[i].value
  <2>1. CASE i <= l
    <3>1. i \in DOMAIN s /\ r[i] = s[i]
      BY <1>2, <2>1
    <3>2. i + 1 \in DOMAIN s => i + 1 \in DOMAIN r /\ r[i + 1] = s[i + 1]
      BY <1>2
    <3>3. i # 1 => r[i - 1] = s[i - 1]
      BY <1>2, <2>1
    <3> QED
      BY <3>1, <3>2, <3>3 DEF Whole, Framed
  <2>2. CASE i > l
    <3>1. PICK k : k = i - l
      OBVIOUS
    <3>2. k \in DOMAIN t /\ r[i] = t[k]
      BY <1>2, <2>2, <3>1
    <3>3. k + 1 \in DOMAIN t => i + 1 \in DOMAIN r /\ r[i + 1] = t[k + 1]
      BY <1>2, <2>2, <3>1
    <3>4. k # 1 => r[i - 1] = t[k - 1]
      BY <1>2, <2>2, <3>1
    <3>5. Turns(t[k]) => k # 1
      BY <3>2 DEF Whole
    <3>6. Flips(t[k], {"put"}) \/ Flips(t[k], {"trace", "note", "save"})
            => k # 1
      BY <3>5 DEF Turns, Flips
    <3> QED
      BY <3>2, <3>3, <3>4, <3>6 DEF Whole, Framed
  <2> QED
    BY <1>2, <2>1, <2>2
<1>4. Framed(r)
  BY <1>3 DEF Framed
<1>5. 1 \in DOMAIN r => ~Turns(r[1])
  <2>1. CASE l = 0
    <3>1. 1 \in DOMAIN r => 1 \in DOMAIN t /\ r[1] = t[1]
      BY <1>2, <2>1
    <3> QED
      BY <3>1 DEF Whole
  <2>2. CASE l # 0
    <3>1. 1 \in DOMAIN s /\ r[1] = s[1]
      BY <1>2, <2>2
    <3> QED
      BY <3>1 DEF Whole
  <2> QED
    BY <2>1, <2>2
<1> QED
  BY <1>1, <1>2, <1>4, <1>5 DEF Whole

(* One step, unless it writes the switch or its event.                     *)
LEMMA StepWhole ==
  ASSUME NEW op \in {"see", "put", "trace", "note"},
         NEW k \in Keys \cup {"job"}, NEW v \in Words,
         k = "real_apply" => op = "see"
  PROVE  Whole(Step(op, k, v))
<1>1. PICK s : s = [op |-> op, key |-> k, value |-> v, list |-> <<>>]
  OBVIOUS
<1>2. s \in AStep
  BY <1>1, EmptySeq DEF AStep
<1>3. Step(op, k, v) = <<s>>
  BY <1>1 DEF Step
<1>4. <<s>> \in Seq(AStep) /\ DOMAIN <<s>> = {1} /\ <<s>>[1] = s
  BY <1>2
<1>5. ~Turns(s) /\ ~Flips(s, {"put"}) /\ ~Flips(s, {"trace", "note", "save"})
  BY <1>1 DEF Turns, Flips
<1> QED
  BY <1>3, <1>4, <1>5 DEF Whole, Framed

(* No step.                                                                *)
LEMMA NoneWhole == Whole(<<>>)
BY EmptySeq DEF Whole, Framed

(* The three steps of the switch.                                          *)
LEMMA SwitchWhole ==
  ASSUME NEW v \in Words PROVE Whole(Switch("real_apply", v))
<1>1. PICK a, b, c :
        /\ a = Reads("real_apply")
        /\ b = [op |-> "put", key |-> "real_apply", value |-> v,
                list |-> <<>>]
        /\ c = [op |-> "trace", key |-> "real_apply", value |-> v,
                list |-> <<>>]
  OBVIOUS
<1>2. "real_apply" \in Keys /\ "" \in Words
  BY DEF Keys, Switches, Words
<1>3. a \in AStep /\ b \in AStep /\ c \in AStep
  <2>1. a \in AStep
    BY <1>1, <1>2, EmptySeq, Zenon DEF AStep, Reads
  <2> QED
    BY <1>1, <1>2, <2>1, EmptySeq DEF AStep
<1>4. /\ See("real_apply") = <<a>> /\ Put("real_apply", v) = <<b>>
      /\ Trace("real_apply", v) = <<c>>
  <2>1. See("real_apply") = <<a>>
    BY <1>1, Zenon DEF See, Step, Reads
  <2> QED
    BY <1>1, <2>1 DEF Put, Trace, Step
<1>5. PICK r : r = <<a>> \o <<b>> \o <<c>>
  OBVIOUS
<1>6. /\ r \in Seq(AStep) /\ DOMAIN r = {1, 2, 3}
      /\ r[1] = a /\ r[2] = b /\ r[3] = c
  <2>1. PICK q : q = <<a>> \o <<b>>
    OBVIOUS
  <2>2. <<a>> \in Seq(AStep) /\ <<b>> \in Seq(AStep) /\ <<c>> \in Seq(AStep)
    BY <1>3
  <2>3. /\ q \in Seq(AStep) /\ Len(q) = 2 /\ q[1] = a /\ q[2] = b
    BY <2>1, <2>2, ConcatProperties
  <2>4. r = q \o <<c>>
    BY <1>5, <2>1
  <2>5. PICK t : t = <<c>>
    OBVIOUS
  <2>6. t \in Seq(AStep) /\ Len(t) = 1 /\ t[1] = c
    BY <2>2, <2>5
  <2>7. /\ q \o t \in Seq(AStep) /\ Len(q \o t) = Len(q) + Len(t)
        /\ \A i \in 1..(Len(q) + Len(t)) :
             (q \o t)[i] = IF i <= Len(q) THEN q[i] ELSE t[i - Len(q)]
    BY <2>3, <2>6, ConcatProperties
  <2>8. /\ r \in Seq(AStep) /\ Len(r) = 3
        /\ \A i \in 1..3 : r[i] = IF i <= 2 THEN q[i] ELSE t[i - 2]
    BY <2>3, <2>4, <2>5, <2>6, <2>7
  <2> QED
    BY <2>3, <2>6, <2>8, LenProperties
<1>7. a.op = "see" /\ a.key = "real_apply"
  BY <1>1, ReadsIs
<1>8. /\ Flips(a, {"see", "fill"}) /\ ~Turns(a) /\ ~Flips(a, {"put"})
      /\ ~Flips(a, {"trace", "note", "save"})
      /\ Flips(b, {"put"}) /\ ~Flips(b, {"trace", "note", "save"})
      /\ Flips(c, {"trace"}) /\ ~Flips(c, {"put"})
      /\ b.value = c.value
  BY <1>1, <1>7 DEF Flips, Turns
<1>9. Framed(r)
  BY <1>6, <1>8 DEF Framed
<1>10. Whole(r)
  BY <1>6, <1>8, <1>9 DEF Whole
<1> QED
  BY <1>4, <1>5, <1>10 DEF Switch

(* The reads of the settings.                                              *)
LEMMA ShowWhole == Whole(Show)
<1>1. \A k \in Keys : Whole(See(k))
  <2>1. "" \in Words
    BY DEF Words
  <2> QED
    BY <2>1, StepWhole DEF See
<1>2. {"real_apply", "security_only", "security_and_critical", "patterns",
       "reboot_policy", "scan_apply", "download_install"} \subseteq Keys
  BY DEF Keys, Switches
<1> QED
  BY <1>1, <1>2, NoneWhole, ConcatWhole DEF Show

(* The steps of an update.                                                 *)
LEMMA UpdateWhole == ASSUME NEW b \in Bodies PROVE Whole(Update(b))
<1>1. /\ \A k \in Keys : b[k] \in Words
      /\ \A v : NormalizedMode(v) \in Words /\ NormalizedPolicy(v) \in Words
  BY ConstantsOK, ValuesAreWords DEF Body, Words
<1>2. ASSUME NEW k \in Keys PROVE Whole(See(k))
  <2>1. "" \in Words
    BY DEF Words
  <2> QED
    BY <2>1, StepWhole DEF See
<1>3. ASSUME NEW k \in Keys \ {"real_apply"}, NEW v \in Words
      PROVE  /\ Whole(Put(k, v)) /\ Whole(Trace(k, v))
             /\ Whole(Put(k, v) \o Trace(k, v)) /\ Whole(Switch(k, v))
  <2>1. Whole(Put(k, v)) /\ Whole(Trace(k, v)) /\ Whole(See(k))
    BY <1>2, StepWhole DEF Put, Trace
  <2> QED
    BY <2>1, ConcatWhole DEF Switch
<1>4. /\ {"mode", "group", "patterns", "reboot_policy", "scan_apply",
          "download_install", "security_only", "security_and_critical"}
            \subseteq Keys \ {"real_apply"}
      /\ "real_apply" \in Keys /\ "off" \in Words
  BY DEF Keys, Switches, Words, Texts, Values
<1>5. ASSUME NEW k \in Keys \ {"real_apply"},
             NEW other \in Keys \ {"real_apply"}, NEW v \in Words
      PROVE  Whole(Guardrail(k, other, v))
  <2>1. Whole(Put(k, v)) /\ Whole(Put(other, "off"))
    BY <1>3, <1>4
  <2> QED
    BY <2>1, NoneWhole, ConcatWhole DEF Guardrail
<1>6. \A k, x : Whole(x) => Whole(Given(b, k, x))
  BY NoneWhole DEF Given
<1>7. Whole(RebootPolicy(b["reboot_policy"]))
  <2>1. PICK k : k = "reboot_policy"
    OBVIOUS
  <2>2. /\ Whole(See(k)) /\ Whole(Put(k, NormalizedPolicy(b[k])))
        /\ Whole(Trace(k, b[k]))
    BY <1>1, <1>2, <1>3, <1>4, <2>1
  <2> QED
    BY <2>1, <2>2, ConcatWhole DEF RebootPolicy
<1>8. /\ Whole(Put("group", NormalizedMode(b["mode"])))
      /\ Whole(Put("mode", NormalizedMode(b["mode"])))
      /\ Whole(See("scan_apply"))
  BY <1>1, <1>2, <1>3, <1>4
<1>9. /\ Whole(Given(b, "real_apply", Switch("real_apply", b["real_apply"])))
      /\ Whole(Given(b, "download_install",
                     Switch("download_install", b["download_install"])))
      /\ Whole(Given(b, "scan_apply",
                     Put("scan_apply", b["scan_apply"])
                     \o Trace("scan_apply", b["scan_apply"])))
      /\ Whole(Given(b, "patterns", Put("patterns", b["patterns"])))
      /\ Whole(Given(b, "reboot_policy", RebootPolicy(b["reboot_policy"])))
  BY <1>1, <1>3, <1>4, <1>6, <1>7, SwitchWhole
<1>10. /\ Whole(Given(b, "security_only",
                 Guardrail("security_only", "security_and_critical",
                           b["security_only"])))
       /\ Whole(Given(b, "security_and_critical",
                 Guardrail("security_and_critical", "security_only",
                           b["security_and_critical"])))
  BY <1>1, <1>4, <1>5, <1>6
<1> QED
  BY <1>8, <1>9, <1>10, ShowWhole, NoneWhole, ConcatWhole DEF Update

(* What stands before a step of the switch is never passed over, so that   *)
(* such a step comes to the front only when the one before it is done.     *)
LEMMA NeverPassed ==
  ASSUME NEW p \in Operators, NEW s, NEW l \in Nat, DOMAIN s = 1..l,
         Framed(s), NEW n \in 2..l, Turns(s[n]), NEW u,
         \A i \in 2..l : \E j \in DOMAIN u : u[j] = s[i],
         NEW seen, NEW rows
  PROVE  ~NoOp(p, u, s[n - 1], seen, rows)
<1> SUFFICES ASSUME NoOp(p, u, s[n - 1], seen, rows) PROVE FALSE
  OBVIOUS
<1>0. n \in DOMAIN s /\ n # 1
  OBVIOUS
<1>1. s[n - 1].op = "see" /\ Unused(p, u, s[n - 1].key)
  <2>1. s[n - 1].op # "trace"
    BY <1>0 DEF Framed, Turns, Flips
  <2> QED
    BY <2>1 DEF NoOp
<1>2. CASE Flips(s[n], {"put"})
  <2>1. /\ Flips(s[n - 1], {"see", "fill"})
        /\ n + 1 \in DOMAIN s /\ Flips(s[n + 1], {"trace"})
    BY <1>0, <1>2 DEF Framed
  <2>2. PICK j \in DOMAIN u : u[j] = s[n + 1]
    <3>1. n + 1 \in 2..l
      BY <2>1
    <3> QED
      BY <3>1
  <2>3. p # Agent
    BY ConstantsOK
  <2> QED
    BY <1>1, <2>1, <2>2, <2>3 DEF Unused, Flips
<1>3. CASE Flips(s[n], {"trace", "note", "save"})
  <2>1. Flips(s[n - 1], {"put"})
    BY <1>0, <1>3 DEF Framed
  <2> QED
    BY <1>1, <2>1 DEF Flips
<1> QED
  BY <1>2, <1>3 DEF Turns, Flips

(* A request goes on: what is left is framed, and a step of the switch is  *)
(* at its front only if it was next.                                       *)
LEMMA FrontIs ==
  ASSUME CallsTyped, NEW p \in Operators, calls[p].todo # <<>>,
         Framed(calls[p].todo), NEW seen, NEW rows, Advance(p, seen, rows)
  PROVE  /\ Framed(calls'[p].todo)
         /\ calls'[p].todo # <<>> =>
              /\ 1 \in DOMAIN calls'[p].todo
              /\ calls'[p].seen = seen
              /\ Turns(calls'[p].todo[1]) =>
                   /\ 2 \in DOMAIN calls[p].todo
                   /\ calls'[p].todo[1] = calls[p].todo[2]
                   /\ Flips(calls[p].todo[2], {"put"}) =>
                        /\ Flips(calls[p].todo[1], {"see", "fill"})
                        /\ ~Unused(p, calls[p].todo, "real_apply")
                   /\ Flips(calls[p].todo[2], {"trace", "note", "save"}) =>
                        /\ Flips(calls[p].todo[1], {"put"})
                        /\ calls[p].todo[1].value = calls[p].todo[2].value
         /\ Flips(calls[p].todo[1], {"put"}) =>
              /\ 2 \in DOMAIN calls[p].todo
              /\ Flips(calls[p].todo[2], {"trace"})
              /\ calls[p].todo[2].value = calls[p].todo[1].value
              /\ \/ /\ calls'[p].todo # <<>>
                    /\ calls'[p].todo[1] = calls[p].todo[2]
                 \/ /\ "real_apply" \in DOMAIN seen
                    /\ seen["real_apply"] = calls[p].todo[1].value
<1>1. PICK s, u, r, l : /\ s = calls[p].todo /\ u = Tail(s) /\ l = Len(s)
                        /\ r = Rest(p, u, seen, rows)
  OBVIOUS
<1>2. /\ s \in Seq(AStep) /\ s # <<>> /\ Framed(s)
      /\ l \in Nat \ {0} /\ DOMAIN s = 1..l /\ p \in Threads /\ p # Agent
  BY <1>1, EmptySeq, LenProperties, ConstantsOK
     DEF CallsTyped, WellFormed, Threads
<1>3. /\ u \in Seq(AStep) /\ Len(u) = l - 1
      /\ \A i \in 1..Len(u) : u[i] = s[i + 1]
      /\ DOMAIN u = 1..Len(u)
  BY <1>1, <1>2, HeadTailProperties, LenProperties
<1>4. PICK k \in 1..(Len(u) + 1) :
        /\ r = SubSeq(u, k, Len(u))
        /\ \A i \in 1..(k - 1) : NoOp(p, u, u[i], seen, rows)
  BY <1>1, <1>3, RestIs
<1>5. /\ r \in Seq(AStep) /\ Len(r) = Len(u) - k + 1
      /\ \A i \in DOMAIN r : i + k - 1 \in DOMAIN u /\ r[i] = u[i + k - 1]
  <2>1. u \in Seq(AStep)
    BY <1>3
  <2> QED
    BY <1>4, <2>1, SuffixIs
<1>6. PICK m : m = k + 1
  OBVIOUS
<1>7. /\ m \in 2..(l + 1) /\ DOMAIN r = 1..(l - m + 1)
      /\ \A i \in DOMAIN r : r[i] = s[i + m - 1]
      /\ \A i \in 2..(m - 1) : NoOp(p, u, s[i], seen, rows)
  <2>1. DOMAIN r = 1..(l - m + 1) /\ m \in 2..(l + 1)
    BY <1>2, <1>3, <1>4, <1>5, <1>6, LenProperties
  <2>2. ASSUME NEW i \in DOMAIN r PROVE r[i] = s[i + m - 1]
    <3>1. PICK j : j = i + k - 1
      OBVIOUS
    <3>2. j \in 1..Len(u) /\ r[i] = u[j] /\ u[j] = s[j + 1]
      BY <1>3, <1>5, <3>1
    <3>3. j + 1 = i + m - 1
      BY <1>4, <1>6, <2>1, <3>1
    <3> QED
      BY <3>2, <3>3
  <2>3. ASSUME NEW i \in 2..(m - 1) PROVE NoOp(p, u, s[i], seen, rows)
    <3>1. PICK j : j = i - 1
      OBVIOUS
    <3>2. j \in 1..(k - 1) /\ j \in 1..Len(u) /\ j + 1 = i
      BY <1>3, <1>4, <1>6, <2>1, <3>1
    <3> QED
      BY <1>3, <1>4, <3>2
  <2> QED
    BY <2>1, <2>2, <2>3
<1>8. calls'[p] = IF r = <<>> THEN Idle ELSE [todo |-> r, seen |-> seen]
  BY <1>1, <1>2 DEF Advance, CallsTyped
<1>9. /\ calls'[p].todo = r
      /\ r # <<>> => calls'[p].seen = seen /\ 1 \in DOMAIN r
  <2>1. r # <<>> => 1 \in DOMAIN r
    BY <1>5, EmptySeq, LenProperties
  <2> QED
    BY <1>8, <2>1 DEF Idle
<1>10. Framed(r)
  <2>1. m \in 1..(l + 1)
    BY <1>2, <1>7
  <2> QED
    BY <1>2, <1>7, <2>1, FramedEnd
<1>11. \A i \in 2..l : \E j \in DOMAIN u : u[j] = s[i]
  <2> SUFFICES ASSUME NEW i \in 2..l PROVE \E j \in DOMAIN u : u[j] = s[i]
    OBVIOUS
  <2>1. PICK j : j = i - 1
    OBVIOUS
  <2>2. j \in 1..Len(u) /\ j + 1 = i
    BY <1>2, <1>3, <2>1
  <2> QED
    BY <1>3, <2>2
<1>12. ASSUME r # <<>>, Turns(r[1])
       PROVE  /\ 2 \in DOMAIN s /\ r[1] = s[2]
              /\ Flips(s[2], {"put"}) =>
                   Flips(s[1], {"see", "fill"}) /\ ~Unused(p, s, "real_apply")
              /\ Flips(s[2], {"trace", "note", "save"}) =>
                   Flips(s[1], {"put"}) /\ s[1].value = s[2].value
  <2>1. r[1] = s[m] /\ m \in 2..l
    BY <1>2, <1>7, <1>9, <1>12
  <2>2. m = 2
    <3> SUFFICES ASSUME m # 2 PROVE FALSE
      OBVIOUS
    <3>1. m - 1 \in 2..(m - 1)
      BY <1>7
    <3>2. NoOp(p, u, s[m - 1], seen, rows)
      BY <1>7, <3>1
    <3> QED
      BY <1>2, <1>11, <1>12, <2>1, <3>2, NeverPassed
  <2>3. 2 \in DOMAIN s /\ r[1] = s[2] /\ 2 - 1 = 1 /\ 2 + 1 = 3
    BY <1>2, <2>1, <2>2
  <2>4. ASSUME Flips(s[2], {"put"})
        PROVE  Flips(s[1], {"see", "fill"}) /\ ~Unused(p, s, "real_apply")
    <3>1. /\ Flips(s[1], {"see", "fill"}) /\ 3 \in DOMAIN s
          /\ Flips(s[3], {"trace"})
      BY <1>2, <2>3, <2>4 DEF Framed
    <3> QED
      BY <1>2, <3>1 DEF Unused, Flips
  <2>5. ASSUME Flips(s[2], {"trace", "note", "save"})
        PROVE  Flips(s[1], {"put"}) /\ s[1].value = s[2].value
    <3>1. 2 # 1 /\ s[2 - 1] = s[1]
      OBVIOUS
    <3> QED
      BY <1>2, <2>3, <2>5, <3>1 DEF Framed
  <2> QED
    BY <2>3, <2>4, <2>5
<1>13. ASSUME Flips(s[1], {"put"})
       PROVE  /\ 2 \in DOMAIN s /\ Flips(s[2], {"trace"})
              /\ s[2].value = s[1].value
              /\ \/ r # <<>> /\ r[1] = s[2]
                 \/ /\ "real_apply" \in DOMAIN seen
                    /\ seen["real_apply"] = s[1].value
  <2>1. 1 \in DOMAIN s /\ 1 + 1 = 2
    BY <1>2
  <2>2. /\ 2 \in DOMAIN s /\ Flips(s[2], {"trace"})
        /\ s[2].value = s[1].value
    BY <1>2, <1>13, <2>1 DEF Framed
  <2>3. CASE m = 2
    <3>1. 1 \in DOMAIN r /\ r[1] = s[2]
      BY <1>2, <1>7, <2>2, <2>3
    <3> QED
      BY <2>2, <3>1, EmptySeq
  <2>4. CASE m # 2
    <3>1. NoOp(p, u, s[2], seen, rows)
      BY <1>7, <2>4
    <3> QED
      BY <2>2, <3>1 DEF NoOp, Flips
  <2> QED
    BY <2>3, <2>4
<1> QED
  BY <1>1, <1>9, <1>10, <1>12, <1>13

(* A request begins framed, and no step of the switch is at its front.     *)
LEMMA BeginsFramed ==
  ASSUME NEW p \in Operators, NEW w, Whole(w), NEW r,
         r = Rest(p, w, <<>>, settings)
  PROVE  /\ Framed(r) /\ Range(r) \subseteq Range(w)
         /\ 1 \in DOMAIN r => ~Turns(r[1])
<1>1. PICK l : l = Len(w)
  OBVIOUS
<1>2. w \in Seq(AStep) /\ Framed(w) /\ l \in Nat /\ DOMAIN w = 1..l
  BY <1>1, LenProperties DEF Whole
<1>3. PICK n \in 1..(l + 1) :
        /\ r = SubSeq(w, n, Len(w))
        /\ \A i \in 1..(n - 1) : NoOp(p, w, w[i], <<>>, settings)
  BY <1>1, <1>2, RestIs
<1>4. /\ r \in Seq(AStep) /\ Len(r) = l - n + 1
      /\ \A i \in DOMAIN r : i + n - 1 \in DOMAIN w /\ r[i] = w[i + n - 1]
  <2>1. w \in Seq(AStep) /\ n \in 1..(Len(w) + 1)
    BY <1>1, <1>2
  <2>2. /\ r \in Seq(AStep) /\ Len(r) = Len(w) - n + 1
        /\ \A i \in DOMAIN r :
             i + n - 1 \in DOMAIN w /\ r[i] = w[i + n - 1]
    BY <1>3, <2>1, SuffixIs
  <2> QED
    BY <1>1, <2>2
<1>5. DOMAIN r = 1..(l - n + 1)
  BY <1>4, LenProperties
<1>6. Framed(r)
  BY <1>2, <1>4, <1>5, FramedEnd
<1>7. Range(r) \subseteq Range(w)
  BY <1>4 DEF Range
<1>8. ASSUME 1 \in DOMAIN r, Turns(r[1]) PROVE FALSE
  <2>1. n \in DOMAIN w /\ r[1] = w[n] /\ n # 1
    <3>1. 1 + n - 1 = n
      OBVIOUS
    <3> QED
      BY <1>4, <1>8, <3>1 DEF Whole
  <2>2. n \in 2..l /\ n - 1 \in 1..(n - 1)
    BY <1>2, <2>1
  <2>3. NoOp(p, w, w[n - 1], <<>>, settings)
    BY <1>3, <2>2
  <2>4. \A i \in 2..l : \E j \in DOMAIN w : w[j] = w[i]
    BY <1>2
  <2> QED
    BY <1>2, <1>8, <2>1, <2>2, <2>3, <2>4, NeverPassed
<1> QED
  BY <1>6, <1>7, <1>8

(* A step that is rewritten in place and still stands where it stood.      *)
LEMMA HeadFramed ==
  ASSUME NEW s, NEW r, NEW l \in Nat, DOMAIN s = 1..l, DOMAIN r = 1..l,
         Framed(s), \A i \in 1..l : i # 1 => r[i] = s[i],
         1 \in 1..l, s[1].op # "put", r[1].op # "put",
         Flips(s[1], {"see", "fill"}) => Flips(r[1], {"see", "fill"})
  PROVE  Framed(r)
<1> SUFFICES ASSUME NEW i \in 1..l
             PROVE  /\ Flips(r[i], {"put"}) =>
                         /\ i + 1 \in 1..l
                         /\ Flips(r[i + 1], {"trace"})
                         /\ r[i + 1].value = r[i].value
                         /\ i # 1 => Flips(r[i - 1], {"see", "fill"})
                    /\ Flips(r[i], {"trace", "note", "save"}) /\ i # 1 =>
                         /\ Flips(r[i - 1], {"put"})
                         /\ r[i - 1].value = r[i].value
  BY DEF Framed
<1>1. CASE i = 1
  BY <1>1 DEF Flips
<1>2. CASE i = 2
  <2>1. i + 1 # 1 /\ i - 1 = 1
    BY <1>2
  <2>2. ~Flips(s[1], {"put"})
    BY DEF Flips
  <2> QED
    BY <1>2, <2>1, <2>2 DEF Framed
<1>3. CASE i # 1 /\ i # 2
  <2>1. i + 1 # 1 /\ i - 1 # 1 /\ i - 1 \in 1..l
    BY <1>3
  <2> QED
    BY <1>3, <2>1 DEF Framed
<1> QED
  BY <1>1, <1>2, <1>3

(* To show the settings changes none of them.                              *)
LEMMA ShowReads == \A e \in Range(Show) : e.op = "see"
<1> DEFINE Quiet(x) ==
      WellFormed(x) /\ \A e \in Range(x) : e.op = "see"
<1>1. \A k \in Keys : Quiet(See(k))
  BY SeeWellFormed, SeeRange, ReadsIs
<1>2. Quiet(<<>>)
  BY NoneWellFormed DEF Range
<1>3. ASSUME NEW x, NEW y, Quiet(x), Quiet(y) PROVE Quiet(x \o y)
  <2>1. Range(x \o y) = Range(x) \cup Range(y)
    BY <1>3, ConcatRange
  <2>2. WellFormed(x \o y)
    BY <1>3, ConcatWellFormed
  <2> QED
    BY <1>3, <2>1, <2>2
<1>4. {"real_apply", "security_only", "security_and_critical", "patterns",
       "reboot_policy", "scan_apply", "download_install"} \subseteq Keys
  BY DEF Keys, Switches
<1> HIDE DEF Quiet
<1>5. Quiet(Show)
  BY <1>1, <1>2, <1>3, <1>4 DEF Show
<1> QED
  BY <1>5 DEF Quiet

(* The list agrees with the switch: the newest event about it says how it  *)
(* stands, and a list with none and with room left means never on.         *)
Settled ==
  /\ \A i \in DOMAIN events :
       /\ events[i].key = "real_apply"
       /\ \A j \in DOMAIN events : events[j].key = "real_apply" => i <= j
       => events[i].value = settings["real_apply"]
  /\ /\ \A i \in DOMAIN events : events[i].key # "real_apply"
     /\ Len(events) < EventLimit
     => settings["real_apply"] # "on"

(* It still does when another event is recorded, even if that pushes the   *)
(* oldest one out.                                                         *)
LEMMA OtherRecorded ==
  ASSUME TypeInv, Settled, NEW k \in Keys \cup {"job"}, k # "real_apply",
         NEW v \in Words, events' = Recorded(events, k, v),
         settings'["real_apply"] = settings["real_apply"]
  PROVE  Settled'
<1>1. PICK f, g, n, l : /\ f = events /\ g = events'
                        /\ n = Len(f) /\ l = EventLimit
  OBVIOUS
<1>2. /\ n \in Nat /\ l \in Nat \ {0} /\ n <= l /\ DOMAIN f = 1..n
  BY <1>1, LenProperties, ConstantsOK DEF TypeInv
<1>3. /\ Len(g) = IF n + 1 <= l THEN n + 1 ELSE l
      /\ g \in Seq(Event) /\ g[1] = [key |-> k, value |-> v]
      /\ \A i \in 2..Len(g) : g[i] = f[i - 1]
  BY <1>1, RecordedIs DEF TypeInv
<1>4. PICK m : m = Len(g)
  OBVIOUS
<1>5. /\ DOMAIN g = 1..m /\ m = IF n + 1 <= l THEN n + 1 ELSE l
      /\ \A i \in 2..m : g[i] = f[i - 1]
      /\ g[1].key # "real_apply"
  BY <1>3, <1>4, LenProperties
<1>6. ASSUME NEW i \in 1..m, g[i].key = "real_apply",
             \A j \in 1..m : g[j].key = "real_apply" => i <= j
      PROVE  g[i].value = settings["real_apply"]
  <2>1. i # 1
    BY <1>5, <1>6
  <2>2. PICK h : h = i - 1
    OBVIOUS
  <2>3. h \in 1..n /\ g[i] = f[h] /\ h < m
    BY <1>2, <1>5, <2>1, <2>2
  <2>4. ASSUME NEW j \in 1..n, f[j].key = "real_apply" PROVE h <= j
    <3>1. CASE j + 1 <= m
      <4>1. j + 1 \in 2..m /\ j + 1 \in 1..m /\ (j + 1) - 1 = j
        BY <1>2, <3>1
      <4>2. g[j + 1] = f[j]
        BY <1>5, <4>1
      <4> QED
        BY <1>6, <2>2, <2>4, <4>1, <4>2
    <3>2. CASE ~(j + 1 <= m)
      BY <1>2, <1>5, <2>3, <3>2
    <3> QED
      BY <3>1, <3>2
  <2> QED
    BY <1>1, <1>2, <1>6, <2>3, <2>4 DEF Settled
<1>7. ASSUME \A i \in 1..m : g[i].key # "real_apply", m < l
      PROVE  settings["real_apply"] # "on"
  <2>1. n < l /\ m = n + 1
    BY <1>2, <1>5, <1>7
  <2>2. ASSUME NEW i \in 1..n PROVE f[i].key # "real_apply"
    <3>1. i + 1 \in 2..m /\ i + 1 \in 1..m /\ (i + 1) - 1 = i
      BY <1>2, <2>1
    <3> QED
      BY <1>5, <1>7, <3>1
  <2> QED
    BY <1>1, <1>2, <2>1, <2>2 DEF Settled
<1> QED
  BY <1>1, <1>4, <1>5, <1>6, <1>7 DEF Settled

(* An event of the switch says how it stands.                              *)
LEMMA OwnRecorded ==
  ASSUME NEW list \in Seq(Event), NEW v \in Words,
         events' = Recorded(list, "real_apply", v),
         settings'["real_apply"] = v
  PROVE  Settled'
<1>0. "real_apply" \in Keys \cup {"job"} /\ Len(list) \in Nat
  BY LenProperties DEF Keys, Switches
<1>1. PICK g, m : g = events' /\ m = Len(g)
  OBVIOUS
<1>2. /\ g \in Seq(Event) /\ g[1] = [key |-> "real_apply", value |-> v]
      /\ m = IF Len(list) + 1 <= EventLimit THEN Len(list) + 1
             ELSE EventLimit
  BY <1>0, <1>1, RecordedIs
<1>3. m \in Nat \ {0} /\ DOMAIN g = 1..m
  BY <1>0, <1>1, <1>2, LenProperties, ConstantsOK
<1>4. ASSUME NEW i \in 1..m,
             \A j \in 1..m : g[j].key = "real_apply" => i <= j
      PROVE  g[i].value = v
  <2>1. 1 \in 1..m /\ g[1].key = "real_apply" /\ g[1].value = v
    BY <1>2, <1>3
  <2>2. i = 1
    BY <1>3, <1>4, <2>1
  <2> QED
    BY <2>1, <2>2
<1>5. 1 \in 1..m /\ g[1].key = "real_apply"
  BY <1>2, <1>3
<1> QED
  BY <1>1, <1>3, <1>4, <1>5 DEF Settled

-----------------------------------------------------------------------------
(* What is left of a request that writes the switch agrees with its row.   *)
Front(o, ops) == calls[o].todo # <<>> /\ Flips(calls[o].todo[1], ops)
Turning(p) == \E e \in Range(calls[p].todo) : Turns(e)
Agrees(o) ==
  /\ Front(o, {"put"}) =>
       /\ settings["real_apply"] # "unset"
       /\ "real_apply" \in DOMAIN calls[o].seen
       /\ calls[o].seen["real_apply"] = settings["real_apply"]
  /\ Front(o, {"trace", "note", "save"}) =>
       /\ settings["real_apply"] # "unset"
       /\ calls[o].todo[1].value = settings["real_apply"]
Accounted ==
  (\A o \in Operators : ~Front(o, {"trace", "note", "save"})) => Settled
Named ==
  \A i \in DOMAIN events :
    events[i].key = "real_apply" => events[i].value # "unset"
OneTurns ==
  \A o, q \in Operators : Turning(o) /\ Turning(q) => o = q
Steady == (\A o \in Operators : Agrees(o)) /\ Accounted /\ Named
Clean == ~crossed /\ ~cut
TraceInv ==
  /\ TypeInv
  /\ ~Turning(Agent)
  /\ \A o \in Operators : Framed(calls[o].todo)
  /\ Clean => OneTurns /\ Steady

(* A request goes on, or its first step is rewritten in place.             *)
LEMMA RequestMoves ==
  ASSUME TypeInv, NEW p \in Threads, RequestNext(p)
  PROVE  /\ CallsTyped /\ calls[p].todo # <<>> /\ 1 \in DOMAIN calls[p].todo
         /\ calls[p].todo[1] \in AStep /\ Sound(calls[p].todo[1])
         /\ Head(calls[p].todo) = calls[p].todo[1]
         /\ \/ \E seen, rows :
                 DOMAIN seen \subseteq Keys /\ Advance(p, seen, rows)
            \/ \E new \in AStep :
                 /\ Sound(new) /\ new.op \in {"fill", "save"}
                 /\ new.key = calls[p].todo[1].key
                 /\ IF new.op = "fill" THEN calls[p].todo[1].op = "see"
                    ELSE /\ calls[p].todo[1].op \in {"trace", "note"}
                         /\ new.value = calls[p].todo[1].value
                 /\ calls' = [calls EXCEPT ![p] =
                      [calls[p] EXCEPT !.todo =
                         [calls[p].todo EXCEPT ![1] = new]]]
<1>0. CallsTyped
  BY DEF TypeInv
<1>1. \E ops : At(p, ops)
  BY DEF RequestNext, Get, Fill, Set, ReadEvents, SaveEvents
<1>2. /\ calls[p].todo # <<>> /\ 1 \in DOMAIN calls[p].todo
      /\ calls[p].todo[1] \in AStep /\ Sound(calls[p].todo[1])
      /\ Head(calls[p].todo) = calls[p].todo[1]
  BY <1>0, <1>1, AtIs
<1>3. PICK k, s : s = calls[p].todo[1] /\ k = s.key
  OBVIOUS
<1>s. DOMAIN calls[p].seen \subseteq Keys
  BY <1>0 DEF CallsTyped
<1> DEFINE Goes == \E seen, rows :
                     DOMAIN seen \subseteq Keys /\ Advance(p, seen, rows)
           Rewritten(new) ==
                 /\ Sound(new) /\ new.op \in {"fill", "save"}
                 /\ new.key = s.key
                 /\ IF new.op = "fill" THEN s.op = "see"
                    ELSE s.op \in {"trace", "note"} /\ new.value = s.value
                 /\ calls' = [calls EXCEPT ![p] =
                      [calls[p] EXCEPT !.todo =
                         [calls[p].todo EXCEPT ![1] = new]]]
<1>4. CASE Get(p)
  <2>1. s.op = "see" /\ k \in Keys
    BY <1>0, <1>3, <1>4, GetIs, AtIs
  <2>2. \/ \E new \in AStep :
                    /\ Sound(new) /\ new.op = "fill" /\ new.key = k
                    /\ calls' = [calls EXCEPT ![p] =
                         [calls[p] EXCEPT !.todo =
                            [calls[p].todo EXCEPT ![1] = new]]]
        \/ \E v, seen :
             seen = Noticed(p, k, v) /\ Advance(p, seen, settings)
    BY <1>3, <1>4, GetIs
  <2>3. (\E new \in AStep : Rewritten(new)) \/ Goes
    BY <1>0, <1>3, <2>1, <2>2, NoticedIs
  <2> QED
    BY <1>0, <1>2, <1>3, <2>3
<1>5. CASE Fill(p)
  <2>1. k \in Keys /\ Advance(p, Noticed(p, k, Default(k)), settings')
    BY <1>0, <1>2, <1>3, <1>5, AtIs DEF Fill, Sound
  <2>2. Goes
    BY <1>0, <2>1, NoticedIs
  <2> QED
    BY <1>0, <1>2, <2>2
<1>6. CASE Set(p) \/ SaveEvents(p)
  <2>1. Goes
    BY <1>s, <1>6 DEF Set, SaveEvents
  <2> QED
    BY <1>0, <1>2, <2>1
<1>7. CASE ReadEvents(p)
  <2>1. s.op \in {"trace", "note"}
    BY <1>0, <1>3, <1>7, ReadEventsIs, AtIs
  <2>2. \E new \in AStep : Rewritten(new)
    BY <1>3, <1>7, <2>1, ReadEventsIs
  <2> QED
    BY <1>0, <1>2, <1>3, <2>2
<1> QED
  BY <1>4, <1>5, <1>6, <1>7 DEF RequestNext

(* The steps of a request that turn the switch become no more, and stay    *)
(* framed.                                                                 *)
LEMMA TurnsStay ==
  ASSUME TypeInv, NEW p \in Threads, RequestNext(p)
  PROVE  /\ \A q \in Threads : q # p => calls'[q] = calls[q]
         /\ \A q \in Threads : Turning(q)' => Turning(q)
         /\ p \in Operators /\ Framed(calls[p].todo)
              => Framed(calls'[p].todo)
<1>0. CallsTyped /\ calls[p].todo # <<>> /\ 1 \in DOMAIN calls[p].todo
  BY RequestMoves
<1> DEFINE Kept == /\ \A q \in Threads : q # p => calls'[q] = calls[q]
                   /\ (\E e \in Range(calls'[p].todo) : Turns(e))
                        => Turning(p)
                   /\ p \in Operators /\ Framed(calls[p].todo)
                        => Framed(calls'[p].todo)
<1>1. ASSUME NEW seen, NEW rows, DOMAIN seen \subseteq Keys,
             Advance(p, seen, rows)
      PROVE  Kept
  <2>1. /\ \A q \in Threads : q # p => calls'[q] = calls[q]
        /\ Range(calls'[p].todo) \subseteq Range(calls[p].todo)
    BY <1>0, <1>1, AdvanceIs
  <2>2. p \in Operators /\ Framed(calls[p].todo) => Framed(calls'[p].todo)
    BY <1>0, <1>1, FrontIs
  <2> QED
    BY <2>1, <2>2 DEF Turning
<1>2. ASSUME NEW new \in AStep, Sound(new), new.op \in {"fill", "save"},
             new.key = calls[p].todo[1].key,
             IF new.op = "fill" THEN calls[p].todo[1].op = "see"
             ELSE /\ calls[p].todo[1].op \in {"trace", "note"}
                  /\ new.value = calls[p].todo[1].value,
             calls' = [calls EXCEPT ![p] =
                      [calls[p] EXCEPT !.todo =
                         [calls[p].todo EXCEPT ![1] = new]]]
      PROVE  Kept
  <2>1. /\ \A q \in Threads : q # p => calls'[q] = calls[q]
        /\ DOMAIN calls'[p].todo = DOMAIN calls[p].todo
        /\ calls'[p].todo[1] = new
        /\ \A i \in DOMAIN calls[p].todo :
             i # 1 => calls'[p].todo[i] = calls[p].todo[i]
    BY <1>0, <1>2, HeadIs
  <2>2. Turns(new) => Turns(calls[p].todo[1])
    BY <1>2 DEF Turns, Flips
  <2>3. ASSUME Framed(calls[p].todo) PROVE Framed(calls'[p].todo)
    <3>1. PICK s, r, l :
            s = calls[p].todo /\ r = calls'[p].todo /\ l = Len(s)
      OBVIOUS
    <3>2. s \in Seq(AStep) /\ l \in Nat /\ DOMAIN s = 1..l
      BY <1>0, <3>1, LenProperties DEF CallsTyped, WellFormed
    <3>3. /\ s[1].op # "put" /\ r[1].op # "put"
          /\ Flips(s[1], {"see", "fill"}) => Flips(r[1], {"see", "fill"})
      BY <1>2, <2>1, <3>1 DEF Flips
    <3> QED
      BY <1>0, <2>1, <2>3, <3>1, <3>2, <3>3, HeadFramed
  <2> QED
    BY <1>0, <2>1, <2>2, <2>3 DEF Turning, Range
<1>3. Kept
  <2> HIDE DEF Kept
  <2> QED
    BY <1>1, <1>2, RequestMoves
<1> QED
  BY <1>3 DEF Turning

(* What comes to the front of a request that goes on.                      *)
LEMMA FrontAfter ==
  ASSUME CallsTyped, NEW p \in Operators, calls[p].todo # <<>>,
         Framed(calls[p].todo), NEW seen, NEW rows, Advance(p, seen, rows),
         Flips(calls[p].todo[1], {"see", "fill"})
           /\ ~Unused(p, calls[p].todo, "real_apply")
           => /\ settings'["real_apply"] # "unset"
              /\ "real_apply" \in DOMAIN seen
              /\ seen["real_apply"] = settings'["real_apply"],
         Flips(calls[p].todo[1], {"put"})
           => /\ settings'["real_apply"] # "unset"
              /\ settings'["real_apply"] = calls[p].todo[1].value
  PROVE  /\ Agrees(p)'
         /\ Front(p, {"trace", "note", "save"})'
              => Flips(calls[p].todo[1], {"put"})
<1>1. ASSUME calls'[p].todo # <<>>, Turns(calls'[p].todo[1])
      PROVE  /\ calls'[p].seen = seen
             /\ Flips(calls'[p].todo[1], {"put"}) =>
                  /\ Flips(calls[p].todo[1], {"see", "fill"})
                  /\ ~Unused(p, calls[p].todo, "real_apply")
             /\ Flips(calls'[p].todo[1], {"trace", "note", "save"}) =>
                  /\ Flips(calls[p].todo[1], {"put"})
                  /\ calls[p].todo[1].value = calls'[p].todo[1].value
  BY <1>1, FrontIs
<1>2. \A ops : Front(p, ops)' =>
        calls'[p].todo # <<>> /\ Flips(calls'[p].todo[1], ops)
  BY DEF Front
<1>3. ASSUME Front(p, {"put"})'
      PROVE  /\ settings'["real_apply"] # "unset"
             /\ "real_apply" \in DOMAIN calls'[p].seen
             /\ calls'[p].seen["real_apply"] = settings'["real_apply"]
  <2>1. Flips(calls'[p].todo[1], {"put"}) /\ calls'[p].todo # <<>>
    BY <1>2, <1>3
  <2>2. Turns(calls'[p].todo[1])
    BY <2>1 DEF Turns, Flips
  <2> QED
    BY <1>1, <2>1, <2>2
<1>4. ASSUME Front(p, {"trace", "note", "save"})'
      PROVE  /\ settings'["real_apply"] # "unset"
             /\ calls'[p].todo[1].value = settings'["real_apply"]
             /\ Flips(calls[p].todo[1], {"put"})
  <2>1. /\ Flips(calls'[p].todo[1], {"trace", "note", "save"})
        /\ calls'[p].todo # <<>>
    BY <1>2, <1>4
  <2>2. Turns(calls'[p].todo[1])
    BY <2>1 DEF Turns, Flips
  <2> QED
    BY <1>1, <2>1, <2>2
<1> QED
  BY <1>3, <1>4 DEF Agrees

(* The other requests, while the row stands.                               *)
LEMMA OthersAgree ==
  ASSUME TraceInv, Clean, NEW p \in Threads, RequestNext(p),
         settings'["real_apply"] = settings["real_apply"],
         NEW q \in Operators, q # p
  PROVE  /\ Agrees(q)'
         /\ \A ops : Front(q, ops)' <=> Front(q, ops)
<1>1. calls'[q] = calls[q]
  BY TurnsStay DEF TraceInv, Threads
<1>2. Agrees(q)
  BY DEF TraceInv, Steady
<1> QED
  BY <1>1, <1>2 DEF Agrees, Front

(* The thread of the agent has no step of the switch at its front.         *)
LEMMA AgentFront ==
  ASSUME TraceInv, calls[Agent].todo # <<>>
  PROVE  ~Turns(calls[Agent].todo[1])
<1>1. 1 \in DOMAIN calls[Agent].todo
  <2>1. calls[Agent].todo \in Seq(AStep)
    BY DEF TraceInv, TypeInv, CallsTyped, WellFormed, Threads
  <2> QED
    BY <2>1, EmptySeq, LenProperties
<1> QED
  BY <1>1 DEF TraceInv, Turning, Range

(* A read of the switch is what its request keeps of it.                   *)
LEMMA NoticedSwitch ==
  ASSUME NEW p, NEW v, ~Unused(p, calls[p].todo, "real_apply")
  PROVE  /\ "real_apply" \in DOMAIN Noticed(p, "real_apply", v)
         /\ Noticed(p, "real_apply", v)["real_apply"] = v
BY DEF Noticed

(* A step that is none of the switch leaves the trace as it is.            *)
LEMMA SwitchStands ==
  ASSUME TraceInv, Clean, NEW p \in Threads, RequestNext(p),
         ~Turns(calls[p].todo[1]),
         settings'["real_apply"] = settings["real_apply"], events' = events,
         p \in Operators => Agrees(p)'
  PROVE  Steady'
<1>1. \A q \in Operators : Agrees(q)'
  BY OthersAgree
<1>2. Accounted'
  <2> SUFFICES ASSUME \A o \in Operators :
                        ~Front(o, {"trace", "note", "save"})'
               PROVE  Settled'
    BY DEF Accounted
  <2>1. ASSUME NEW o \in Operators PROVE ~Front(o, {"trace", "note", "save"})
    <3>1. CASE o = p
      BY <3>1 DEF Front, Flips, Turns
    <3>2. CASE o # p
      BY <3>2, OthersAgree
    <3> QED
      BY <3>1, <3>2
  <2>2. Settled
    BY <2>1 DEF TraceInv, Steady, Accounted
  <2> QED
    BY <2>2 DEF Settled
<1>3. Named'
  BY DEF TraceInv, Steady, Named
<1> QED
  BY <1>1, <1>2, <1>3 DEF Steady

(* A read changes nothing the trace depends on.                            *)
LEMMA GetSteady ==
  ASSUME TraceInv, Clean, NEW p \in Threads, Get(p) PROVE Steady'
<1>0. /\ TypeInv /\ CallsTyped /\ calls[p].todo # <<>> /\ RequestNext(p)
      /\ settings' = settings /\ events' = events
  BY RequestMoves DEF TraceInv, RequestNext, Get
<1>1. PICK k, s : s = calls[p].todo[1] /\ k = s.key
  OBVIOUS
<1>2. s.op = "see" /\ k \in Keys
  BY <1>0, <1>1, GetIs, AtIs
<1>3. ASSUME p \in Operators
      PROVE  Agrees(p)'
  <2>1. ASSUME NEW new \in AStep, Sound(new), new.op = "fill",
               calls' = [calls EXCEPT ![p] =
                 [calls[p] EXCEPT !.todo =
                    [calls[p].todo EXCEPT ![1] = new]]]
        PROVE  Agrees(p)'
    <3>1. calls'[p].todo[1] = new
      BY <1>0, <2>1, HeadIs
    <3> QED
      BY <2>1, <3>1 DEF Agrees, Front, Flips
  <2>2. ASSUME NEW v, NEW seen,
               v = IF settings[k] = "unset" THEN Default(k) ELSE settings[k],
               settings[k] = "unset" => k \notin Filled,
               seen = Noticed(p, k, v), Advance(p, seen, settings)
        PROVE  Agrees(p)'
    <3>1. "real_apply" \in Filled
      BY DEF Filled, Keys, Switches
    <3>2. ASSUME Flips(s, {"see", "fill"}),
                 ~Unused(p, calls[p].todo, "real_apply")
          PROVE  /\ settings["real_apply"] # "unset"
                 /\ "real_apply" \in DOMAIN seen
                 /\ seen["real_apply"] = settings["real_apply"]
      <4>1. k = "real_apply"
        BY <1>1, <3>2 DEF Flips
      <4> QED
        BY <2>2, <3>1, <3>2, <4>1, NoticedSwitch
    <3>3. ~Flips(s, {"put"})
      BY <1>2 DEF Flips
    <3>4. Framed(calls[p].todo)
      BY <1>3 DEF TraceInv
    <3> QED
      BY <1>0, <1>1, <1>3, <2>2, <3>2, <3>3, <3>4, FrontAfter
  <2> QED
    BY <1>0, <1>1, <2>1, <2>2, GetIs
<1> QED
  BY <1>0, <1>1, <1>2, <1>3, SwitchStands DEF Turns, Flips

(* A default is stored: of the switch only where its row was missing, and  *)
(* then no event about it was recorded yet.                                *)
LEMMA FillSteady ==
  ASSUME TraceInv, Clean, NEW p \in Threads, Fill(p), ~crossed'
  PROVE  Steady'
<1>0. /\ TypeInv /\ CallsTyped /\ calls[p].todo # <<>> /\ RequestNext(p)
      /\ events' = events
  BY RequestMoves DEF TraceInv, RequestNext, Fill
<1>1. PICK k, s : s = calls[p].todo[1] /\ k = s.key
  OBVIOUS
<1>2. /\ s.op = "fill" /\ k \in Filled /\ k \in Keys
      /\ Head(calls[p].todo) = s
  BY <1>0, <1>1, AtIs DEF Fill, Sound
<1>3. /\ Store(k, Default(k)) /\ Default(k) \in Values(k)
      /\ Advance(p, Noticed(p, k, Default(k)), settings')
      /\ settings[k] = "unset"
  BY <1>1, <1>2, DefaultIs DEF Fill
<1>4. /\ settings'[k] = Default(k)
      /\ \A x \in Keys : x # k => settings'[x] = settings[x]
  BY <1>0, <1>2, <1>3, StoreIs
<1>5. "real_apply" \in Keys /\ Default("real_apply") = "off"
  BY DEF Keys, Switches, Default, LinuxDefault
<1>6. ~Turns(s) /\ ~Flips(s, {"put"})
  BY <1>2 DEF Turns, Flips
<1>7. ASSUME p \in Operators PROVE Agrees(p)'
  <2>1. ASSUME Flips(s, {"see", "fill"}),
               ~Unused(p, calls[p].todo, "real_apply")
        PROVE  /\ settings'["real_apply"] # "unset"
               /\ "real_apply" \in DOMAIN Noticed(p, k, Default(k))
               /\ Noticed(p, k, Default(k))["real_apply"]
                    = settings'["real_apply"]
    <3>1. k = "real_apply"
      BY <1>1, <2>1 DEF Flips
    <3> QED
      BY <1>4, <1>5, <2>1, <3>1, NoticedSwitch
  <2>2. Framed(calls[p].todo)
    BY <1>7 DEF TraceInv
  <2> QED
    BY <1>0, <1>1, <1>3, <1>6, <1>7, <2>1, <2>2, FrontAfter
<1>8. CASE k # "real_apply"
  BY <1>0, <1>1, <1>4, <1>5, <1>6, <1>7, <1>8, SwitchStands
<1>9. CASE k = "real_apply"
  <2>1. ASSUME NEW o \in Operators
        PROVE  ~Front(o, {"put"}) /\ ~Front(o, {"trace", "note", "save"})
    BY <1>3, <1>9 DEF TraceInv, Steady, Agrees
  <2>2. ASSUME NEW o \in Operators PROVE Agrees(o)'
    <3>1. CASE o = p
      BY <1>7, <3>1
    <3>2. CASE o # p
      <4>1. calls'[o] = calls[o]
        BY <1>0, <3>2, TurnsStay DEF Threads
      <4> QED
        BY <2>1, <4>1 DEF Agrees, Front
    <3> QED
      BY <3>1, <3>2
  <2>3. Settled /\ Named
    BY <2>1 DEF TraceInv, Steady, Accounted
  <2>4. Settled'
    BY <1>0, <1>3, <1>4, <1>5, <1>9, <2>3 DEF Settled, Named
  <2>5. Named'
    BY <1>0, <2>3 DEF Named
  <2> QED
    BY <2>2, <2>4, <2>5 DEF Steady, Accounted
<1> QED
  BY <1>8, <1>9

(* A row is written: the switch's one by the only update that turns it,    *)
(* which records the event next unless it found the value it writes.       *)
LEMMA SetSteady ==
  ASSUME TraceInv, Clean, NEW p \in Threads, Set(p) PROVE Steady'
<1>0. /\ TypeInv /\ CallsTyped /\ calls[p].todo # <<>> /\ RequestNext(p)
      /\ 1 \in DOMAIN calls[p].todo /\ events' = events
  BY RequestMoves DEF TraceInv, RequestNext, Set
<1>1. PICK k, s : s = calls[p].todo[1] /\ k = s.key
  OBVIOUS
<1>2. /\ s.op = "put" /\ k \in Keys /\ s.value \in Values(k)
      /\ Head(calls[p].todo) = s
  BY <1>0, <1>1, AtIs DEF Set, Sound
<1>3. Store(k, s.value) /\ Advance(p, calls[p].seen, settings')
  BY <1>1, <1>2 DEF Set
<1>4. /\ settings'[k] = s.value
      /\ \A x \in Keys : x # k => settings'[x] = settings[x]
  BY <1>0, <1>2, <1>3, StoreIs
<1>5. "real_apply" \in Keys /\ "unset" \notin Values("real_apply")
  BY DEF Keys, Switches, Values
<1>6. ASSUME p \in Operators
      PROVE  /\ Framed(calls[p].todo) /\ Agrees(p)'
             /\ Front(p, {"trace", "note", "save"})' => Flips(s, {"put"})
  <2>1. Framed(calls[p].todo)
    BY <1>6 DEF TraceInv
  <2>2. ~Flips(s, {"see", "fill"})
    BY <1>2 DEF Flips
  <2>3. Flips(s, {"put"}) => /\ settings'["real_apply"] # "unset"
                             /\ settings'["real_apply"] = s.value
    BY <1>1, <1>2, <1>4, <1>5 DEF Flips
  <2> QED
    BY <1>0, <1>1, <1>3, <1>6, <2>1, <2>2, <2>3, FrontAfter
<1>7. CASE k # "real_apply"
  <2>1. ~Turns(s)
    BY <1>1, <1>7 DEF Turns, Flips
  <2> QED
    BY <1>0, <1>1, <1>4, <1>5, <1>6, <1>7, <2>1, SwitchStands
<1>8. CASE k = "real_apply"
  <2>1. Flips(s, {"put"}) /\ Turns(s) /\ Turning(p) /\ p \in Operators
    <3>1. Flips(s, {"put"}) /\ Turns(s)
      BY <1>1, <1>2, <1>8 DEF Turns, Flips
    <3> QED
      BY <1>0, <1>1, <3>1, AgentFront DEF Turning, Range, Threads
  <2>2. ASSUME NEW q \in Operators, q # p
        PROVE  /\ calls'[q] = calls[q]
               /\ \A ops : Front(q, ops) /\ ops \subseteq
                      {"put", "trace", "note", "save"} => FALSE
    <3>1. calls'[q] = calls[q]
      BY <1>0, <2>2, TurnsStay DEF Threads
    <3>2. ~Turning(q)
      BY <2>1, <2>2 DEF TraceInv, OneTurns
    <3>3. ASSUME NEW ops, Front(q, ops),
                 ops \subseteq {"put", "trace", "note", "save"}
          PROVE  FALSE
      <4>1. calls[q].todo \in Seq(AStep) /\ calls[q].todo # <<>>
        BY <1>0, <3>3 DEF CallsTyped, WellFormed, Threads, Front
      <4>2. 1 \in DOMAIN calls[q].todo
        BY <4>1, EmptySeq, LenProperties
      <4> QED
        BY <3>2, <3>3, <4>2 DEF Turning, Range, Turns, Flips, Front
    <3> QED
      BY <3>1, <3>3
  <2>3. ASSUME NEW o \in Operators PROVE Agrees(o)'
    <3>1. CASE o = p
      BY <1>6, <3>1
    <3>2. CASE o # p
      <4>1. ~Front(o, {"put"}) /\ ~Front(o, {"trace", "note", "save"})
        BY <2>2, <3>2
      <4> QED
        BY <2>2, <3>2, <4>1 DEF Agrees, Front
    <3> QED
      BY <3>1, <3>2
  <2>4. Accounted'
    <3> SUFFICES ASSUME ~Front(p, {"trace", "note", "save"})'
                 PROVE  Settled'
      BY <2>1 DEF Accounted
    <3>1. /\ Flips(calls[p].todo[2], {"trace"})
          /\ \/ /\ calls'[p].todo # <<>>
                /\ calls'[p].todo[1] = calls[p].todo[2]
             \/ /\ "real_apply" \in DOMAIN calls[p].seen
                /\ calls[p].seen["real_apply"] = s.value
      BY <1>0, <1>1, <1>3, <1>6, <2>1, FrontIs
    <3>2. calls[p].seen["real_apply"] = s.value
      BY <3>1 DEF Front, Flips
    <3>3. Front(p, {"put"}) /\ ~Front(p, {"trace", "note", "save"})
      BY <1>0, <1>1, <1>2, <2>1 DEF Front, Flips
    <3>4. settings'["real_apply"] = settings["real_apply"]
      BY <1>4, <1>8, <2>1, <3>2, <3>3 DEF TraceInv, Steady, Agrees
    <3>5. \A o \in Operators : ~Front(o, {"trace", "note", "save"})
      BY <2>2, <3>3
    <3>6. Settled
      BY <3>5 DEF TraceInv, Steady, Accounted
    <3> QED
      BY <1>0, <3>4, <3>6 DEF Settled
  <2>5. Named'
    BY <1>0 DEF TraceInv, Steady, Named
  <2> QED
    BY <2>3, <2>4, <2>5 DEF Steady
<1> QED
  BY <1>7, <1>8

(* The list is read: the event still waits to be stored.                   *)
LEMMA ReadSteady ==
  ASSUME TraceInv, Clean, NEW p \in Threads, ReadEvents(p) PROVE Steady'
<1>0. /\ TypeInv /\ CallsTyped /\ calls[p].todo # <<>> /\ RequestNext(p)
      /\ settings' = settings /\ events' = events
  BY RequestMoves DEF TraceInv, RequestNext, ReadEvents
<1>1. PICK s, new : s = calls[p].todo[1] /\ new = calls'[p].todo[1]
  OBVIOUS
<1>2. /\ s.op \in {"trace", "note"} /\ new.op = "save" /\ new.key = s.key
      /\ new.value = s.value /\ calls'[p].todo # <<>>
  <2>1. s.op \in {"trace", "note"}
    BY <1>0, <1>1, ReadEventsIs, AtIs
  <2>2. PICK x \in AStep :
          /\ Sound(x) /\ x.op = "save" /\ x.key = s.key
          /\ x.value = s.value
          /\ calls' = [calls EXCEPT ![p] =
               [calls[p] EXCEPT !.todo = [calls[p].todo EXCEPT ![1] = x]]]
    BY <1>0, <1>1, ReadEventsIs
  <2>3. /\ calls'[p].todo[1] = x /\ 1 \in DOMAIN calls[p].todo
        /\ DOMAIN calls'[p].todo = DOMAIN calls[p].todo
    BY <1>0, <2>2, HeadIs
  <2> QED
    BY <1>1, <2>1, <2>2, <2>3
<1>3. /\ ~Front(p, {"put"})'
      /\ Front(p, {"trace", "note", "save"})'
           <=> Front(p, {"trace", "note", "save"})
  BY <1>0, <1>1, <1>2 DEF Front, Flips
<1>4. ASSUME NEW q \in Operators PROVE Agrees(q)'
  <2>1. CASE q = p
    <3>1. Agrees(p)
      BY <2>1 DEF TraceInv, Steady
    <3> QED
      BY <1>0, <1>1, <1>2, <1>3, <2>1, <3>1 DEF Agrees
  <2>2. CASE q # p
    BY <1>0, <2>2, OthersAgree
  <2> QED
    BY <2>1, <2>2
<1>5. Accounted'
  <2> SUFFICES ASSUME \A o \in Operators :
                        ~Front(o, {"trace", "note", "save"})'
               PROVE  Settled'
    BY DEF Accounted
  <2>1. \A o \in Operators : ~Front(o, {"trace", "note", "save"})
    BY <1>0, <1>3, OthersAgree
  <2> QED
    BY <1>0, <2>1 DEF TraceInv, Steady, Accounted, Settled
<1>6. Named'
  BY <1>0 DEF TraceInv, Steady, Named
<1> QED
  BY <1>4, <1>5, <1>6 DEF Steady

(* The events recorded of the switch name a value.                         *)
LEMMA RecordedNamed ==
  ASSUME NEW list \in Seq(Event), NEW k \in Keys \cup {"job"},
         NEW v \in Words, events' = Recorded(list, k, v),
         k = "real_apply" => v # "unset",
         \A i \in DOMAIN list :
           list[i].key = "real_apply" => list[i].value # "unset"
  PROVE  Named'
<1>1. PICK g, m : g = events' /\ m = Len(g)
  OBVIOUS
<1>2. /\ g \in Seq(Event) /\ g[1] = [key |-> k, value |-> v]
      /\ m = IF Len(list) + 1 <= EventLimit THEN Len(list) + 1
             ELSE EventLimit
      /\ \A i \in 2..m : g[i] = list[i - 1]
  BY <1>1, RecordedIs
<1>3. /\ Len(list) \in Nat /\ DOMAIN list = 1..Len(list)
      /\ m \in Nat \ {0} /\ DOMAIN g = 1..m
  <2>1. Len(list) \in Nat /\ DOMAIN list = 1..Len(list)
    BY LenProperties
  <2>2. m \in Nat \ {0}
    BY <1>2, <2>1, ConstantsOK
  <2> QED
    BY <1>1, <1>2, <2>1, <2>2, LenProperties
<1>4. ASSUME NEW i \in 1..m, g[i].key = "real_apply"
      PROVE  g[i].value # "unset"
  <2>1. CASE i = 1
    BY <1>2, <1>4, <2>1
  <2>2. CASE i # 1
    <3>1. i \in 2..m /\ i - 1 \in DOMAIN list
      BY <1>2, <1>3, <2>2
    <3> QED
      BY <1>2, <1>4, <3>1
  <2> QED
    BY <2>1, <2>2
<1> QED
  BY <1>1, <1>3, <1>4 DEF Named

(* An event is stored, in the list as it still is.                         *)
LEMMA SaveSteady ==
  ASSUME TraceInv, Clean, NEW p \in Threads, SaveEvents(p), ~crossed'
  PROVE  Steady'
<1>0. /\ TypeInv /\ CallsTyped /\ calls[p].todo # <<>> /\ RequestNext(p)
      /\ 1 \in DOMAIN calls[p].todo /\ settings' = settings
  BY RequestMoves DEF TraceInv, RequestNext, SaveEvents
<1>1. PICK k, s : s = calls[p].todo[1] /\ k = s.key
  OBVIOUS
<1>2. /\ s.op = "save" /\ s \in AStep /\ Head(calls[p].todo) = s
  BY <1>0, <1>1, AtIs DEF SaveEvents
<1>3. /\ events' = Recorded(events, k, s.value)
      /\ Advance(p, calls[p].seen, settings)
      /\ events \in Seq(Event) /\ k \in Keys \cup {"job"} /\ s.value \in Words
  BY <1>0, <1>1, <1>2 DEF SaveEvents, TypeInv, AStep
<1>4. ASSUME p \in Operators
      PROVE  Agrees(p)' /\ ~Front(p, {"trace", "note", "save"})'
  <2>1. Framed(calls[p].todo)
    BY <1>4 DEF TraceInv
  <2>2. ~Flips(s, {"see", "fill"}) /\ ~Flips(s, {"put"})
    BY <1>2 DEF Flips
  <2> QED
    BY <1>0, <1>1, <1>3, <1>4, <2>1, <2>2, FrontAfter
<1>5. \A q \in Operators : Agrees(q)'
  BY <1>0, <1>4, OthersAgree
<1>6. k = "real_apply" =>
        /\ p \in Operators /\ Turning(p)
        /\ s.value = settings["real_apply"] /\ s.value # "unset"
  <2> SUFFICES ASSUME k = "real_apply"
               PROVE  /\ p \in Operators /\ Turning(p)
                      /\ s.value = settings["real_apply"]
                      /\ s.value # "unset"
    OBVIOUS
  <2>1. Turns(s) /\ Flips(s, {"trace", "note", "save"})
    BY <1>1, <1>2 DEF Turns, Flips
  <2>2. p \in Operators /\ Turning(p)
    BY <1>0, <1>1, <2>1, AgentFront DEF Turning, Range, Threads
  <2>3. Front(p, {"trace", "note", "save"})
    BY <1>0, <1>1, <2>1 DEF Front
  <2> QED
    BY <1>1, <2>2, <2>3 DEF TraceInv, Steady, Agrees
<1>7. Named'
  BY <1>3, <1>6, RecordedNamed DEF TraceInv, Steady, Named
<1>8. Accounted'
  <2> SUFFICES ASSUME \A o \in Operators :
                        ~Front(o, {"trace", "note", "save"})'
               PROVE  Settled'
    BY DEF Accounted
  <2>1. CASE k = "real_apply"
    BY <1>0, <1>3, <1>6, <2>1, OwnRecorded
  <2>2. CASE k # "real_apply"
    <3>1. ASSUME NEW o \in Operators
          PROVE  ~Front(o, {"trace", "note", "save"})
      <4>1. CASE o = p
        BY <1>1, <2>2, <4>1 DEF Front, Flips
      <4>2. CASE o # p
        BY <1>0, <4>2, OthersAgree
      <4> QED
        BY <4>1, <4>2
    <3>2. Settled
      BY <3>1 DEF TraceInv, Steady, Accounted
    <3> QED
      BY <1>0, <1>3, <2>2, <3>2, OtherRecorded
  <2> QED
    BY <2>1, <2>2
<1> QED
  BY <1>5, <1>7, <1>8 DEF Steady

(* A step of a request.                                                    *)
LEMMA TraceRequests ==
  ASSUME TraceInv, NEW p \in Threads, RequestNext(p) PROVE TraceInv'
<1>1. TypeInv' /\ Agent \in Threads /\ \A o \in Operators : o \in Threads
  BY RequestTypes DEF TraceInv, Threads
<1>2. /\ \A q \in Threads : Turning(q)' => Turning(q)
      /\ \A o \in Operators : Framed(calls'[o].todo)
  BY <1>1, TurnsStay DEF TraceInv
<1>3. Clean' => Clean
  BY DEF Clean, RequestNext, Get, Fill, Set, ReadEvents, SaveEvents
<1>4. Clean' => OneTurns'
  BY <1>1, <1>2, <1>3 DEF TraceInv, OneTurns
<1>5. Clean' => Steady'
  BY <1>3, GetSteady, FillSteady, SetSteady, ReadSteady, SaveSteady
     DEF RequestNext, Clean
<1> QED
  BY <1>1, <1>2, <1>4, <1>5 DEF TraceInv

(* A request of an operator begins, with nothing of the switch at its      *)
(* front; another update in flight with it is a crossing.                  *)
LEMMA TraceBegins ==
  ASSUME TraceInv, NEW o \in Operators, OperatorNext(o) PROVE TraceInv'
<1>0. /\ TypeInv /\ TypeInv' /\ CallsTyped /\ o \in Threads
      /\ Agent \in Threads /\ o # Agent
  BY OperatorTypes, ConstantsOK DEF TraceInv, TypeInv, Threads
<1>1. PICK w : /\ Whole(w) /\ WellFormed(w) /\ Begin(o, w)
               /\ \/ \A e \in Range(w) : ~Turns(e)
                  \/ ~crossed' => \A q \in Operators \ {o} : ~Writing(q)
               /\ crossed' = FALSE => crossed = FALSE
  <2>1. ASSUME NEW b \in Bodies, UpdateSettings(o, b)
        PROVE  /\ Whole(Update(b)) /\ WellFormed(Update(b))
               /\ Begin(o, Update(b))
               /\ ~crossed' => \A q \in Operators \ {o} : ~Writing(q)
               /\ crossed' = FALSE => crossed = FALSE
    BY <1>0, <2>1, UpdateWhole, UpdateWellFormed
       DEF UpdateSettings, TypeInv
  <2>2. ASSUME ShowSettings(o)
        PROVE  /\ Whole(Show) /\ WellFormed(Show) /\ Begin(o, Show)
               /\ \A e \in Range(Show) : ~Turns(e)
               /\ crossed' = FALSE => crossed = FALSE
    <3>1. \A e \in Range(Show) : ~Turns(e)
      BY ShowReads DEF Turns, Flips
    <3> QED
      BY <2>2, <3>1, ShowWhole, ShowWellFormed DEF ShowSettings
  <2> QED
    BY <2>1, <2>2 DEF OperatorNext
<1>2. /\ \A q \in Threads : q # o => calls'[q] = calls[q]
      /\ calls[o] = Idle /\ settings' = settings /\ events' = events
      /\ cut' = cut
  BY <1>0, <1>1, BeginIs
<1>3. PICK r : r = Rest(o, w, <<>>, settings)
  OBVIOUS
<1>4. /\ calls'[o].todo = r
      /\ Framed(r) /\ Range(r) \subseteq Range(w)
      /\ r # <<>> => ~Turns(r[1])
  <2>1. calls'[o].todo = r
    BY <1>0, <1>1, <1>3 DEF Begin, CallsTyped
  <2>2. /\ Framed(r) /\ Range(r) \subseteq Range(w)
        /\ 1 \in DOMAIN r => ~Turns(r[1])
    BY <1>1, <1>3, BeginsFramed
  <2>3. r \in Seq(AStep)
    BY <1>0, <2>1 DEF TypeInv, CallsTyped, WellFormed
  <2> QED
    BY <2>1, <2>2, <2>3, EmptySeq, LenProperties
<1>5. ASSUME NEW ops, ops \subseteq {"put", "trace", "note", "save"}
      PROVE  ~Front(o, ops)' /\ ~Front(o, ops)
  <2>1. \A s : Flips(s, ops) => Turns(s)
    BY <1>5 DEF Turns, Flips
  <2>2. Front(o, ops)' => r # <<>> /\ Flips(r[1], ops)
    BY <1>4 DEF Front
  <2>3. calls[o].todo = <<>>
    BY <1>2 DEF Idle
  <2> QED
    BY <1>4, <2>1, <2>2, <2>3 DEF Front
<1>6. ~Turning(Agent)'
  BY <1>0, <1>2 DEF TraceInv, Turning
<1>7. \A q \in Operators : Framed(calls'[q].todo)
  BY <1>2, <1>4 DEF TraceInv, Threads
<1>8. ASSUME Clean' PROVE OneTurns'
  <2>1. Clean
    BY <1>0, <1>1, <1>2, <1>8 DEF Clean, TypeInv
  <2>2. \A q \in Operators : q # o => (Turning(q)' <=> Turning(q))
    BY <1>2 DEF Turning, Threads
  <2>3. CASE \A e \in Range(w) : ~Turns(e)
    <3>1. ~Turning(o)'
      BY <1>4, <2>3 DEF Turning
    <3> QED
      BY <2>1, <2>2, <3>1 DEF TraceInv, OneTurns
  <2>4. CASE ~crossed' => \A q \in Operators \ {o} : ~Writing(q)
    <3>1. ASSUME NEW q \in Operators, q # o PROVE ~Turning(q)
      <4>1. ~Writing(q)
        BY <1>8, <2>4, <3>1 DEF Clean
      <4> QED
        BY <4>1 DEF Turning, Range, Turns, Flips, Writing
    <3> QED
      BY <2>2, <3>1 DEF OneTurns
  <2> QED
    BY <1>1, <2>3, <2>4
<1>9. ASSUME Clean' PROVE Steady'
  <2>1. Steady
    BY <1>0, <1>1, <1>2, <1>9 DEF Clean, TypeInv, TraceInv
  <2>2. \A q \in Operators : \A ops :
          q # o => (Front(q, ops)' <=> Front(q, ops))
    BY <1>2 DEF Front, Threads
  <2>3. ~Front(o, {"put"})' /\ ~Front(o, {"trace", "note", "save"})'
    BY <1>5
  <2>4. ASSUME NEW q \in Operators PROVE Agrees(q)'
    <3>1. CASE q = o
      BY <2>3, <3>1 DEF Agrees
    <3>2. CASE q # o
      <4>1. calls'[q] = calls[q]
        BY <1>2, <3>2 DEF Threads
      <4> QED
        BY <1>2, <2>1, <4>1 DEF Steady, Agrees, Front
    <3> QED
      BY <3>1, <3>2
  <2>5. Accounted'
    <3> SUFFICES ASSUME \A q \in Operators :
                          ~Front(q, {"trace", "note", "save"})'
                 PROVE  Settled'
      BY DEF Accounted
    <3>1. \A q \in Operators : ~Front(q, {"trace", "note", "save"})
      BY <1>5, <2>2
    <3> QED
      BY <1>2, <2>1, <3>1 DEF Steady, Accounted, Settled
  <2>6. Named'
    BY <1>2, <2>1 DEF Steady, Named
  <2> QED
    BY <2>4, <2>5, <2>6 DEF Steady
<1> QED
  BY <1>0, <1>6, <1>7, <1>8, <1>9 DEF TraceInv

(* The other steps leave rows and events alone; a restart cuts the updates *)
(* in flight.                                                              *)
LEMMA TraceOthers ==
  ASSUME TraceInv, AgentNext \/ Approve \/ Restart PROVE TraceInv'
<1>0. /\ TypeInv /\ TypeInv' /\ CallsTyped /\ Agent \notin Operators
      /\ Agent \in Threads
  BY AgentTypes, RestTypes, ConstantsOK DEF TraceInv, TypeInv, Threads
<1>1. ASSUME settings' = settings, events' = events, cut' = cut,
             crossed' = crossed, ~Turning(Agent)',
             \A q \in Threads : q # Agent => calls'[q] = calls[q]
      PROVE  TraceInv'
  <2>1. \A o \in Operators : calls'[o] = calls[o]
    BY <1>0, <1>1 DEF Threads
  <2>2. /\ \A o \in Operators : Agrees(o) => Agrees(o)'
        /\ \A o \in Operators : Turning(o)' <=> Turning(o)
        /\ \A o \in Operators : \A ops : Front(o, ops)' <=> Front(o, ops)
    BY <1>1, <2>1 DEF Agrees, Front, Turning
  <2>3. \A o \in Operators : Framed(calls'[o].todo)
    BY <2>1 DEF TraceInv
  <2>4. OneTurns => OneTurns'
    BY <2>2 DEF OneTurns
  <2>5. Accounted => Accounted'
    BY <1>1, <2>2 DEF Accounted, Settled
  <2>6. Named => Named'
    BY <1>1 DEF Named
  <2>7. Clean' => Clean
    BY <1>1 DEF Clean
  <2> QED
    BY <1>0, <1>1, <2>2, <2>3, <2>4, <2>5, <2>6, <2>7 DEF TraceInv, Steady
<1>3. CASE Claim
  <2>1. /\ \A q \in Threads : q # Agent => calls'[q] = calls[q]
        /\ \E s : calls'[Agent].todo = ClaimReads(s)
    BY <1>0, <1>3, ClaimIs
  <2>2. ~Turning(Agent)'
    <3>1. PICK s : calls'[Agent].todo = ClaimReads(s)
      BY <2>1
    <3>2. ASSUME NEW e \in Range(calls'[Agent].todo) PROVE ~Turns(e)
      <4>1. \E k : e = Reads(k)
        BY <3>1, <3>2, ClaimRange
      <4>2. e.op = "see"
        BY <4>1, ReadsIs
      <4> QED
        BY <4>2 DEF Turns, Flips
    <3> QED
      BY <3>2 DEF Turning
  <2> QED
    BY <1>1, <1>3, <2>1, <2>2 DEF Claim
<1>4. CASE Execute \/ Inventory \/ Approve
  <2>1. /\ calls' = calls /\ settings' = settings /\ cut' = cut
        /\ events' = events /\ crossed' = crossed
    BY <1>4 DEF Execute, Inventory, Approve
  <2>2. ~Turning(Agent)'
    BY <2>1 DEF TraceInv, Turning
  <2> QED
    BY <1>1, <2>1, <2>2
<1>5. CASE Result
  <2>1. DOMAIN <<>> \subseteq Keys
    OBVIOUS
  <2>2. /\ \A q \in Threads : q # Agent => calls'[q] = calls[q]
        /\ calls'[Agent].todo = ResultNotes
    BY <1>0, <1>5, <2>1, ResultWellFormed, AgentCallIs DEF Result
  <2>3. ASSUME NEW e \in Range(ResultNotes) PROVE ~Turns(e)
    BY ResultRange DEF Turns, Flips
  <2>4. ~Turning(Agent)'
    BY <2>2, <2>3 DEF Turning
  <2> QED
    BY <1>1, <1>5, <2>2, <2>4 DEF Result
<1>6. CASE Answered
  <2>1. DOMAIN <<>> \subseteq Keys
    OBVIOUS
  <2>2. calls' = [calls EXCEPT ![Agent] = [todo |-> <<>>, seen |-> <<>>]]
    BY <1>6 DEF Answered, Idle
  <2>3. /\ \A q \in Threads : q # Agent => calls'[q] = calls[q]
        /\ calls'[Agent].todo = <<>>
    BY <1>0, <2>1, <2>2, NoneWellFormed, AgentCallIs
  <2>4. ~Turning(Agent)'
    BY <2>3 DEF Turning, Range
  <2> QED
    BY <1>1, <1>6, <2>3, <2>4 DEF Answered
<1>7. CASE Restart
  <2>1. /\ \A p \in Threads : calls'[p] \in {calls[p], Idle}
        /\ \A o \in Operators : calls'[o] = Idle
    BY <1>0, <1>7 DEF Restart, Threads
  <2>2. ~Turning(Agent)'
    <3>1. calls'[Agent] \in {calls[Agent], Idle}
      BY <1>0, <2>1
    <3> QED
      BY <3>1 DEF TraceInv, Turning, Idle, Range
  <2>3. /\ \A o \in Operators : Framed(calls'[o].todo)
        /\ \A o \in Operators : ~Turning(o)'
        /\ \A o \in Operators : \A ops : ~Front(o, ops)'
    BY <2>1 DEF Idle, Framed, Turning, Range, Front
  <2>4. ASSUME Clean' PROVE OneTurns' /\ Steady'
    <3>1. /\ settings' = settings /\ events' = events /\ Clean
          /\ \A o \in Operators : ~Writing(o)
      BY <1>7, <2>4 DEF Restart, Clean
    <3>2. ASSUME NEW o \in Operators
          PROVE  ~Front(o, {"trace", "note", "save"})
      <4>1. ASSUME calls[o].todo # <<>> PROVE 1 \in DOMAIN calls[o].todo
        <5>1. calls[o].todo \in Seq(AStep)
          BY <1>0 DEF CallsTyped, WellFormed, Threads
        <5> QED
          BY <4>1, <5>1, EmptySeq, LenProperties
      <4> QED
        BY <3>1, <4>1 DEF Front, Writing, Flips
    <3>3. Settled /\ Named
      BY <3>1, <3>2 DEF TraceInv, Steady, Accounted
    <3>4. Settled' /\ Named'
      BY <3>1, <3>3 DEF Settled, Named
    <3> QED
      BY <2>3, <3>4 DEF OneTurns, Steady, Agrees, Accounted
  <2> QED
    BY <1>0, <2>2, <2>3, <2>4 DEF TraceInv
<1> QED
  BY <1>3, <1>4, <1>5, <1>6, <1>7 DEF AgentNext

(* When updates did not overlap and none was cut, the newest event about   *)
(* the real_apply switch is how the switch stands.                         *)
THEOREM SwitchTracedHolds == Spec => []SwitchTraced
<1>1. Init => TraceInv
  <2> SUFFICES ASSUME Init PROVE TraceInv
    OBVIOUS
  <2>1. /\ TypeInv /\ Agent \in Threads
        /\ \A p \in Threads : calls[p].todo = <<>>
        /\ \A o \in Operators : o \in Threads
    BY InitTypes DEF Init, Threads, Idle
  <2>2. /\ \A p \in Threads : ~Turning(p) /\ Framed(calls[p].todo)
        /\ \A o \in Operators : \A ops : ~Front(o, ops)
    BY <2>1 DEF Turning, Range, Framed, Front
  <2>3. Settled /\ Named
    <3>1. CASE settings["real_apply"] = "on"
      <4>1. PICK e, f : f = events /\ e = [key |-> "real_apply",
                                           value |-> "on"]
        OBVIOUS
      <4>2. f = Recorded(<<>>, "real_apply", "on")
        BY <3>1, <4>1 DEF Init
      <4>3. "real_apply" \in Keys \cup {"job"} /\ "on" \in Words
        BY ValuesAreWords DEF Keys, Switches
      <4>4. <<>> \in Seq(Event) /\ Len(<<>>) = 0
        BY EmptySeq
      <4>n. EventLimit \in Nat \ {0}
        BY ConstantsOK
      <4>5. f \in Seq(Event) /\ Len(f) = 1 /\ f[1] = e
        <5>1. PICK g : g = <<>>
          OBVIOUS
        <5>2. /\ g \in Seq(Event) /\ Len(g) = 0
              /\ f = Recorded(g, "real_apply", "on")
          BY <4>2, <4>4, <5>1
        <5>3. /\ f \in Seq(Event)
              /\ Len(f) = IF Len(g) + 1 <= EventLimit THEN Len(g) + 1
                          ELSE EventLimit
              /\ f[1] = [key |-> "real_apply", value |-> "on"]
          BY <4>3, <5>2, RecordedIs
        <5> QED
          BY <4>1, <4>n, <5>2, <5>3
      <4>6. DOMAIN f = {1}
        BY <4>5, LenProperties
      <4> QED
        BY <3>1, <4>1, <4>5, <4>6 DEF Settled, Named
    <3>2. CASE settings["real_apply"] # "on"
      <4>1. events = <<>>
        BY <3>2 DEF Init
      <4> QED
        BY <3>2, <4>1 DEF Settled, Named
    <3> QED
      BY <3>1, <3>2
  <2> QED
    BY <2>1, <2>2, <2>3
       DEF TraceInv, OneTurns, Steady, Agrees, Accounted
<1>2. TraceInv /\ [Next]_vars => TraceInv'
  <2> SUFFICES ASSUME TraceInv, [Next]_vars PROVE TraceInv'
    OBVIOUS
  <2>1. CASE UNCHANGED vars
    <3>1. TypeInv'
      BY TypeStep DEF TraceInv
    <3>2. /\ settings' = settings /\ events' = events /\ calls' = calls
          /\ crossed' = crossed /\ cut' = cut
      BY <2>1 DEF vars
    <3>3. /\ Turning(Agent)' <=> Turning(Agent)
          /\ OneTurns => OneTurns'
          /\ (\A o \in Operators : Agrees(o))
               => \A o \in Operators : Agrees(o)'
          /\ Accounted => Accounted'
          /\ Named => Named'
      BY <3>2 DEF Turning, OneTurns, Agrees, Front, Accounted, Settled, Named
    <3> QED
      BY <3>1, <3>2, <3>3 DEF TraceInv, Clean, Steady
  <2>2. CASE Next
    BY <2>2, TraceRequests, TraceBegins, TraceOthers DEF Next
  <2> QED
    BY <2>1, <2>2
<1>3. TraceInv => SwitchTraced
  <2> SUFFICES ASSUME TraceInv, ~crossed, ~cut,
                      \A o \in Operators : ~Writing(o)
               PROVE  LET traces == {i \in DOMAIN events :
                                       events[i].key = "real_apply"}
                          newest == CHOOSE i \in traces :
                                      \A j \in traces : i <= j
                      IN  IF traces # {}
                          THEN events[newest].value = settings["real_apply"]
                          ELSE Len(events) < EventLimit
                                 => settings["real_apply"] # "on"
    BY DEF SwitchTraced
  <2>1. ASSUME NEW o \in Operators PROVE ~Front(o, {"trace", "note", "save"})
    <3>1. ASSUME calls[o].todo # <<>> PROVE 1 \in DOMAIN calls[o].todo
      <4>1. calls[o].todo \in Seq(AStep)
        BY DEF TraceInv, TypeInv, CallsTyped, WellFormed, Threads
      <4> QED
        BY <3>1, <4>1, EmptySeq, LenProperties
    <3> QED
      BY <3>1 DEF Front, Writing, Flips
  <2>2. Settled
    BY <2>1 DEF TraceInv, Clean, Steady, Accounted
  <2> DEFINE traces == {i \in DOMAIN events : events[i].key = "real_apply"}
             newest == CHOOSE i \in traces : \A j \in traces : i <= j
  <2>3. CASE traces # {}
    <3>1. traces \in SUBSET Nat
      BY LenProperties DEF TraceInv, TypeInv
    <3>2. \E i \in traces : \A j \in traces : i <= j
      <4> HIDE DEF traces
      <4> QED
        BY <2>3, <3>1, LeastOf
    <3>3. newest \in traces /\ \A j \in traces : newest <= j
      <4> HIDE DEF traces
      <4> QED
        BY <3>2
    <3>4. PICK n : n = newest
      OBVIOUS
    <3>5. events[n].value = settings["real_apply"]
      <4> HIDE DEF newest
      <4> QED
        BY <2>2, <3>3, <3>4 DEF Settled
    <3> QED
      BY <2>3, <3>4, <3>5
  <2>4. CASE traces = {}
    BY <2>2, <2>4 DEF Settled
  <2> QED
    BY <2>3, <2>4
<1> QED
  BY <1>1, <1>2, <1>3, PTL DEF Spec


=============================================================================
