--------------------------- MODULE BrowserProofs ---------------------------
(***************************************************************************)
(* Proofs about Browser for any findings and any number of calls.          *)
(***************************************************************************)
EXTENDS Browser, SequenceTheorems, TLAPS

USE BrowserAssumption

(***************************************************************************)
(* The calls a step leaves behind.                                         *)
(***************************************************************************)
\* A call that is answered has been served or lost, and each cached observable is
\* a call for the list it caches.
Base ==
    /\ TypeOK
    /\ \A n \in DOMAIN calls : Settled(n) => calls[n].state # "sent"
    /\ cached # 0 => calls[cached].op = "vulnerabilities"
    /\ workflows # 0 => calls[workflows].op = "workflows"

LEMMA Counting ==
    ASSUME TypeOK
    PROVE  /\ Len(calls) \in Nat /\ DOMAIN calls = 1..Len(calls)
           /\ Len(answered) \in Nat /\ DOMAIN answered = 1..Len(answered)
           /\ \A n \in 1..Len(calls) : calls[n] \in CallRecords
           /\ \A i \in 1..Len(answered) : answered[i] \in 1..Len(calls)
<1>1. calls \in Seq(CallRecords) /\ answered \in Seq(DOMAIN calls)
  BY DEF TypeOK
<1>2. Len(calls) \in Nat /\ DOMAIN calls = 1..Len(calls) /\ \A n \in 1..Len(calls) : calls[n] \in CallRecords
  BY <1>1, LenProperties, ElementOfSeq
<1> QED BY <1>1, <1>2, LenProperties, ElementOfSeq

\* Calls are only added, fresh; those answered no longer change.
Extended ==
    /\ Len(calls) <= Len(calls')
    /\ \A n \in 1..Len(calls) :
          /\ calls'[n].op = calls[n].op /\ calls'[n].finding = calls[n].finding
          /\ calls'[n].after = calls[n].after
          /\ Settled(n) => calls'[n] = calls[n]
    /\ \A n \in (Len(calls) + 1)..Len(calls') :
          /\ calls'[n].state = "sent" /\ calls'[n].after = Len(answered)
          /\ calls'[n].at = 0 /\ calls'[n].answer = {}

LEMMA FreshCall ==
    ASSUME TypeOK, NEW op \in Reads \cup Writes, NEW f \in Findings \cup {None}
    PROVE  /\ Call(op, f) \in CallRecords
           /\ Call(op, f).op = op /\ Call(op, f).finding = f /\ Call(op, f).state = "sent"
           /\ Call(op, f).after = Len(answered) /\ Call(op, f).at = 0 /\ Call(op, f).answer = {}
BY Counting DEF Call, CallRecords

\* The calls a page makes when it is loaded.
OpsOf(p) ==
    CASE p = "vulnerabilities" -> {"vulnerabilities"}
      [] p = "approvals" -> {"approvals", "decide"}
      [] p = "pull-requests" -> {"workflows", "pulls"}
      [] p = "remediation" -> {"bulk"}
      [] p = "execute" -> {"scan", "fix"}
      [] OTHER -> {}

LEMMA SentCalls ==
    ASSUME NEW p \in Pages
    PROVE  /\ Sent(p) \in Seq(Reads) /\ Len(Sent(p)) \in 0..2 /\ DOMAIN Sent(p) = 1..Len(Sent(p))
           /\ \A k \in 1..Len(Sent(p)) : Sent(p)[k] \in Reads /\ Sent(p)[k] \in OpsOf(p)
           /\ "vulnerabilities" \in Range(Sent(p)) =>
                 Len(Sent(p)) = 1 /\ Sent(p)[1] = "vulnerabilities"
           /\ "workflows" \in Range(Sent(p)) => Len(Sent(p)) = 2 /\ Sent(p)[1] = "workflows"
<1>1. \/ Sent(p) = <<>>
      \/ Sent(p) = <<"vulnerabilities">> /\ p = "vulnerabilities"
      \/ Sent(p) = <<"approvals">> /\ p = "approvals"
      \/ Sent(p) = <<"pulls">> /\ p = "pull-requests"
      \/ Sent(p) = <<"workflows", "pulls">> /\ p = "pull-requests"
  BY DEF Sent
<1>2. CASE Sent(p) = <<>>
  BY <1>2 DEF Range
<1>3. CASE Sent(p) = <<"vulnerabilities">> /\ p = "vulnerabilities"
  BY <1>3 DEF Range, Reads, OpsOf
<1>4. CASE Sent(p) = <<"approvals">> /\ p = "approvals"
  BY <1>4 DEF Range, Reads, OpsOf
<1>5. CASE Sent(p) = <<"pulls">> /\ p = "pull-requests"
  BY <1>5 DEF Range, Reads, OpsOf
<1>6. CASE Sent(p) = <<"workflows", "pulls">> /\ p = "pull-requests"
  BY <1>6 DEF Range, Reads, OpsOf
<1> QED BY <1>1, <1>2, <1>3, <1>4, <1>5, <1>6

\* Loading a page sends its calls, and waits for those and for the shared ones.
LEMMA LoadStep ==
    ASSUME TypeOK, NEW p \in Pages, NEW waiting, NEW showing, Load(p, waiting, showing)
    PROVE  /\ calls' \in Seq(CallRecords) /\ Extended
           /\ Len(calls') = Len(calls) + Len(Sent(p)) /\ DOMAIN calls' = 1..Len(calls')
           /\ \A n \in 1..Len(calls) : calls'[n] = calls[n]
           /\ \A n \in (Len(calls) + 1)..Len(calls') :
                 calls'[n].op = Sent(p)[n - Len(calls)] /\ calls'[n].op \in Reads /\ calls'[n].op \in OpsOf(p)
           /\ \/ cached' = cached
              \/ cached' = Len(calls) + 1 /\ cached' = Len(calls') /\ calls'[cached'].op = "vulnerabilities"
           /\ \/ workflows' = workflows
              \/ workflows' = Len(calls) + 1 /\ workflows' < Len(calls') /\ calls'[workflows'].op = "workflows"
<1> DEFINE s == [k \in DOMAIN Sent(p) |-> Call(Sent(p)[k], None)]
<1>1. /\ Len(calls) \in Nat /\ DOMAIN calls = 1..Len(calls)
      /\ calls \in Seq(CallRecords)
  BY Counting DEF TypeOK
<1>2. \A k \in 1..Len(Sent(p)) : s[k] = Call(Sent(p)[k], None) /\ s[k] \in CallRecords
  BY SentCalls, FreshCall
<1>3. s \in Seq(CallRecords) /\ Len(s) = Len(Sent(p))
  <2>1. Len(Sent(p)) \in Nat /\ s \in [1..Len(Sent(p)) -> CallRecords]
    <3>1. DOMAIN Sent(p) = 1..Len(Sent(p)) /\ Len(Sent(p)) \in Nat
      BY SentCalls
    <3> QED BY <1>2, <3>1
  <2>2. s \in Seq(CallRecords)
    BY <2>1, SeqDef
  <2> HIDE DEF s
  <2> QED BY <2>1, <2>2, LenProperties
<1>4. calls' = calls \o s
  BY DEF Load
<1>5. /\ calls' \in Seq(CallRecords) /\ Len(calls') = Len(calls) + Len(Sent(p))
      /\ \A n \in 1..Len(calls) : calls'[n] = calls[n]
      /\ \A n \in (Len(calls) + 1)..Len(calls') : calls'[n] = s[n - Len(calls)]
  <2> HIDE DEF s
  <2>1. Len(s) \in Nat
    BY <1>3, LenProperties
  <2>2. /\ calls' \in Seq(CallRecords) /\ Len(calls') = Len(calls) + Len(s)
        /\ \A n \in 1..(Len(calls) + Len(s)) : calls'[n] = IF n <= Len(calls) THEN calls[n] ELSE s[n - Len(calls)]
    BY <1>1, <1>3, <1>4, ConcatProperties
  <2> QED BY <1>1, <1>3, <2>1, <2>2
<1>6. ASSUME NEW n \in (Len(calls) + 1)..Len(calls')
      PROVE  /\ calls'[n].op = Sent(p)[n - Len(calls)] /\ calls'[n].op \in Reads /\ calls'[n].op \in OpsOf(p)
             /\ calls'[n].state = "sent" /\ calls'[n].after = Len(answered)
             /\ calls'[n].at = 0 /\ calls'[n].answer = {}
  <2>1. n - Len(calls) \in 1..Len(Sent(p)) /\ Len(Sent(p)) \in Nat
    BY <1>1, <1>5, SentCalls
  <2>2. calls'[n] = Call(Sent(p)[n - Len(calls)], None)
    BY <1>2, <1>5, <2>1
  <2>3. Sent(p)[n - Len(calls)] \in Reads /\ Sent(p)[n - Len(calls)] \in OpsOf(p)
    BY <2>1, SentCalls
  <2> QED BY <2>2, <2>3, FreshCall
<1>7. DOMAIN calls' = 1..Len(calls')
  BY <1>5, LenProperties
<1>8. Extended
  BY <1>1, <1>5, <1>6, SentCalls DEF Extended
<1>9. \/ cached' = cached
      \/ cached' = Len(calls) + 1 /\ cached' = Len(calls') /\ calls'[cached'].op = "vulnerabilities"
  <2>1. CASE "vulnerabilities" \in Range(Sent(p))
    <3>1. Len(Sent(p)) = 1 /\ Sent(p)[1] = "vulnerabilities" /\ cached' = Len(calls) + 1
      BY <2>1, SentCalls DEF Load
    <3> QED BY <1>1, <1>5, <1>6, <3>1
  <2> QED BY <2>1 DEF Load
<1>10. \/ workflows' = workflows
       \/ workflows' = Len(calls) + 1 /\ workflows' < Len(calls') /\ calls'[workflows'].op = "workflows"
  <2>1. CASE "workflows" \in Range(Sent(p))
    <3>1. Len(Sent(p)) = 2 /\ Sent(p)[1] = "workflows" /\ workflows' = Len(calls) + 1
      BY <2>1, SentCalls DEF Load
    <3> QED BY <1>1, <1>5, <1>6, <3>1
  <2> QED BY <2>1 DEF Load
<1> QED BY <1>5, <1>6, <1>7, <1>8, <1>9, <1>10

\* One call is sent, served or lost.
LEMMA AskStep ==
    ASSUME TypeOK, NEW op \in Reads \cup Writes, NEW f \in Findings \cup {None}, Ask(op, f)
    PROVE  /\ calls' \in Seq(CallRecords) /\ Extended
           /\ Len(calls') = Len(calls) + 1 /\ DOMAIN calls' = 1..Len(calls')
           /\ \A n \in 1..Len(calls) : calls'[n] = calls[n]
           /\ calls'[Len(calls')].op = op
           /\ awaited' = awaited \cup {Len(calls')}
<1>1. Call(op, f) \in CallRecords /\ calls \in Seq(CallRecords) /\ calls' = Append(calls, Call(op, f))
  BY FreshCall DEF TypeOK, Ask
<1>2. /\ calls' \in Seq(CallRecords) /\ Len(calls') = Len(calls) + 1
      /\ \A n \in 1..Len(calls) : calls'[n] = calls[n]
      /\ calls'[Len(calls) + 1] = Call(op, f)
  BY <1>1, AppendProperties
<1>3. DOMAIN calls' = 1..Len(calls') /\ Len(calls) \in Nat
  BY <1>2, Counting, LenProperties
<1>4. Extended
  BY <1>2, <1>3, FreshCall DEF Extended
<1> QED BY <1>2, <1>3, <1>4, FreshCall DEF Ask

LEMMA ReplaceStep ==
    ASSUME Base, NEW n \in DOMAIN calls, ~Settled(n), NEW c \in CallRecords,
           c.op = calls[n].op, c.finding = calls[n].finding, c.after = calls[n].after,
           calls' = [calls EXCEPT ![n] = c]
    PROVE  /\ calls' \in Seq(CallRecords) /\ Extended
           /\ Len(calls') = Len(calls) /\ DOMAIN calls' = 1..Len(calls')
           /\ calls'[n] = c /\ \A k \in 1..Len(calls) \ {n} : calls'[k] = calls[k]
<1>1. /\ Len(calls) \in Nat /\ n \in 1..Len(calls) /\ calls \in Seq(CallRecords)
  BY Counting DEF Base, TypeOK
<1>2. /\ calls' \in Seq(CallRecords) /\ Len(calls') = Len(calls)
      /\ \A k \in 1..Len(calls) : calls'[k] = IF k = n THEN c ELSE calls[k]
  BY <1>1, ExceptSeq
<1>3. DOMAIN calls' = 1..Len(calls')
  BY <1>2, LenProperties
<1>4. Extended
  BY <1>1, <1>2 DEF Extended
<1> QED BY <1>1, <1>2, <1>3, <1>4

LEMMA CallStep ==
    ASSUME Base, NEW n \in DOMAIN calls, Serve(n) \/ Lose(n)
    PROVE  /\ calls' \in Seq(CallRecords) /\ Extended
           /\ Len(calls') = Len(calls) /\ DOMAIN calls' = 1..Len(calls') /\ ~Settled(n)
           /\ \A k \in 1..Len(calls) \ {n} : calls'[k] = calls[k]
           /\ \/ Lose(n) /\ calls'[n] = [calls[n] EXCEPT !.state = "lost"]
              \/ /\ Serve(n) /\ calls'[n].state = "served" /\ changes' \in Nat
                 /\ calls'[n].answer = IF calls[n].op = "approvals" THEN review ELSE calls[n].answer
                 /\ calls'[n].at = IF calls[n].op \in Writes \cup {"vulnerabilities"}
                                   THEN changes' ELSE calls[n].at
<1>1. calls[n] \in CallRecords /\ review \in SUBSET Findings /\ changes \in Nat
  BY Counting DEF Base, TypeOK
<1>2. ~Settled(n)
  BY DEF Base, Serve, Lose
<1>3. CASE Lose(n)
  <2> DEFINE c == [calls[n] EXCEPT !.state = "lost"]
  <2>1. c \in CallRecords /\ c.op = calls[n].op /\ c.finding = calls[n].finding /\ c.after = calls[n].after
    BY <1>1 DEF CallRecords
  <2>2. calls' = [calls EXCEPT ![n] = c]
    BY <1>3 DEF Lose
  <2> HIDE DEF c
  <2>3. /\ calls' \in Seq(CallRecords) /\ Extended
        /\ Len(calls') = Len(calls) /\ DOMAIN calls' = 1..Len(calls')
        /\ calls'[n] = c /\ \A k \in 1..Len(calls) \ {n} : calls'[k] = calls[k]
    BY <1>2, <2>1, <2>2, ReplaceStep
  <2> QED BY <1>2, <1>3, <2>3 DEF c
<1>4. CASE Serve(n)
  <2> DEFINE c == [calls[n] EXCEPT !.state = "served",
                      !.answer = IF calls[n].op = "approvals" THEN review ELSE @,
                      !.at = IF calls[n].op \in Writes \cup {"vulnerabilities"} THEN changes' ELSE @]
  <2>1. changes' \in Nat
    BY <1>1, <1>4 DEF Serve
  <2>2. /\ c \in CallRecords /\ c.op = calls[n].op /\ c.finding = calls[n].finding
        /\ c.after = calls[n].after /\ c.state = "served"
        /\ c.answer = IF calls[n].op = "approvals" THEN review ELSE calls[n].answer
        /\ c.at = IF calls[n].op \in Writes \cup {"vulnerabilities"} THEN changes' ELSE calls[n].at
    BY <1>1, <2>1 DEF CallRecords
  <2>3. calls' = [calls EXCEPT ![n] = c]
    BY <1>4 DEF Serve
  <2> HIDE DEF c
  <2>4. /\ calls' \in Seq(CallRecords) /\ Extended
        /\ Len(calls') = Len(calls) /\ DOMAIN calls' = 1..Len(calls')
        /\ calls'[n] = c /\ \A k \in 1..Len(calls) \ {n} : calls'[k] = calls[k]
    BY <1>2, <2>2, <2>3, ReplaceStep
  <2> QED BY <1>2, <1>4, <2>1, <2>2, <2>4
<1> QED BY <1>3, <1>4

\* An answer is the last of the answers.
LEMMA DeliverStep ==
    ASSUME Base, NEW n \in DOMAIN calls, Deliver(n)
    PROVE  /\ answered' \in Seq(DOMAIN calls) /\ IsInjective(answered') /\ ~Settled(n)
           /\ Len(answered') = Len(answered) + 1 /\ DOMAIN answered' = 1..Len(answered')
           /\ answered'[Len(answered')] = n
           /\ \A i \in DOMAIN answered : answered'[i] = answered[i]
           /\ \A k : Settled(k)' <=> Settled(k) \/ k = n
<1>1. /\ Len(answered) \in Nat /\ DOMAIN answered = 1..Len(answered)
      /\ answered \in Seq(DOMAIN calls) /\ IsInjective(answered)
  BY Counting DEF Base, TypeOK
<1>2. answered' = Append(answered, n) /\ ~Settled(n)
  BY DEF Deliver
<1>3. /\ answered' \in Seq(DOMAIN calls) /\ Len(answered') = Len(answered) + 1
      /\ \A i \in 1..Len(answered) : answered'[i] = answered[i]
      /\ answered'[Len(answered) + 1] = n
  BY <1>1, <1>2, AppendProperties
<1>4. DOMAIN answered' = 1..Len(answered')
  BY <1>3, LenProperties
<1>5. \A i \in DOMAIN answered : answered[i] # n
  BY <1>2 DEF Settled, Range
<1>6. IsInjective(answered')
  BY <1>1, <1>3, <1>4, <1>5 DEF IsInjective
<1>7. \A k : Settled(k)' <=> Settled(k) \/ k = n
  BY <1>1, <1>3, <1>4 DEF Settled, Range
<1> QED BY <1>1, <1>2, <1>3, <1>4, <1>6, <1>7

\* The answers stay well formed while calls are added.
LEMMA AnsweredTyped ==
    ASSUME TypeOK, calls' \in Seq(CallRecords), Len(calls) <= Len(calls'), answered' = answered
    PROVE  answered' \in Seq(DOMAIN calls') /\ IsInjective(answered')
<1>1. Len(answered) \in Nat /\ answered \in [1..Len(answered) -> 1..Len(calls)] /\ Len(calls) \in Nat
  <2>1. answered \in Seq(DOMAIN calls) /\ DOMAIN calls = 1..Len(calls) /\ Len(calls) \in Nat
    BY Counting DEF TypeOK
  <2> QED BY <2>1, LenProperties
<1>2. DOMAIN calls' = 1..Len(calls') /\ Len(calls') \in Nat
  BY LenProperties
<1>3. answered \in [1..Len(answered) -> DOMAIN calls']
  BY <1>1, <1>2
<1> QED BY <1>1, <1>3, SeqDef DEF TypeOK

LEMMA ExtendedBase ==
    ASSUME Base, calls' \in Seq(CallRecords), Extended, UNCHANGED answered
    PROVE  /\ \A n \in DOMAIN calls' : calls'[n].after <= Len(answered')
           /\ \A n \in DOMAIN calls' : Settled(n)' => calls'[n].state # "sent"
           /\ \A n : Settled(n)' <=> Settled(n)
           /\ \A n : Settled(n) => n \in 1..Len(calls)
<1>1. /\ DOMAIN calls = 1..Len(calls) /\ Len(calls) \in Nat
      /\ DOMAIN calls' = 1..Len(calls') /\ Len(calls') \in Nat /\ Len(answered) \in Nat
  BY Counting, LenProperties DEF Base
<1>2. \A n : Settled(n)' <=> Settled(n)
  BY DEF Settled
<1>3. \A n : Settled(n) => n \in 1..Len(calls)
  BY Counting DEF Base, Settled, Range
<1>4. \A n \in 1..Len(calls) : calls[n].after <= Len(answered) /\ (Settled(n) => calls[n].state # "sent")
  BY <1>1 DEF Base, TypeOK
<1>5. ASSUME NEW n \in 1..Len(calls')
      PROVE  calls'[n].after <= Len(answered') /\ (Settled(n)' => calls'[n].state # "sent")
  <2>1. CASE n \in 1..Len(calls)
    BY <1>2, <1>4, <2>1 DEF Extended
  <2>2. CASE n \notin 1..Len(calls)
    <3>1. n \in (Len(calls) + 1)..Len(calls')
      BY <1>1, <2>2
    <3> QED BY <1>1, <1>2, <1>3, <2>2, <3>1 DEF Extended
  <2> QED BY <2>1, <2>2
<1> QED BY <1>1, <1>2, <1>3, <1>5

\* What a page waits for once it is loaded, and what it shows at once.
LEMMA LoadAwaits ==
    ASSUME Base, NEW p \in Pages, NEW waiting, NEW showing \in 0..Len(calls),
           Load(p, waiting, showing), UNCHANGED answered,
           \A n \in waiting : n \in 1..Len(calls) /\ ~Settled(n)
    PROVE  /\ \A n \in awaited' : n \in DOMAIN calls' /\ ~Settled(n)'
           /\ \A n \in (Len(calls) + 1)..Len(calls') : n \in awaited'
           /\ \A n \in waiting : n \in awaited'
           /\ \A n \in awaited' : n \in waiting \/ calls'[n].op \in OpsOf(p)
           /\ shown' \in 0..Len(calls)
           /\ \/ shown' = showing
              \/ shown' # 0 /\ Settled(shown') /\ p = "vulnerabilities" /\ shown' = cached
              \/ shown' # 0 /\ Settled(shown') /\ p = "pull-requests"
<1> DEFINE replayed == {n \in Shared(p) : Usable(n)}
<1>1. /\ Len(calls) \in Nat /\ DOMAIN calls = 1..Len(calls)
      /\ Len(calls') \in Nat /\ DOMAIN calls' = 1..Len(calls') /\ Len(calls) <= Len(calls')
      /\ \A n \in 1..Len(calls) : calls'[n] = calls[n]
      /\ \A n \in (Len(calls) + 1)..Len(calls') : calls'[n].op \in OpsOf(p)
  BY Counting, LoadStep, LenProperties DEF Base, Extended
<1>2. \A n : Settled(n) => n \in 1..Len(calls)
  BY Counting DEF Base, Settled, Range
<1>3. \A n : Settled(n)' <=> Settled(n)
  BY DEF Settled
<1>4. ASSUME NEW n \in replayed
      PROVE  /\ n \in 1..Len(calls) /\ calls[n].op \in OpsOf(p)
             /\ (p = "vulnerabilities" /\ n = cached) \/ p = "pull-requests"
  <2>1. cached \in 0..Len(calls) /\ workflows \in 0..Len(calls)
    BY DEF Base, TypeOK
  <2>2. n # 0 /\ n \in Shared(p)
    BY DEF Usable
  <2>3. \/ p = "vulnerabilities" /\ n = cached
        \/ p = "pull-requests" /\ n = workflows
    BY <2>2 DEF Shared
  <2> QED BY <1>1, <2>1, <2>2, <2>3 DEF Base, OpsOf
<1>5. /\ awaited' = waiting \cup {n \in replayed : ~Settled(n)} \cup ((Len(calls) + 1)..Len(calls'))
      /\ shown' = IF \E n \in replayed : Settled(n)
                  THEN CHOOSE n \in replayed : Settled(n) ELSE showing
  BY DEF Load
<1>6. shown' = showing \/ (shown' \in replayed /\ Settled(shown'))
  <2> HIDE DEF replayed
  <2> QED BY <1>5
<1> HIDE DEF replayed
<1>7. ASSUME NEW n \in awaited'
      PROVE  n \in DOMAIN calls' /\ ~Settled(n)' /\ (n \in waiting \/ calls'[n].op \in OpsOf(p))
  <2>1. CASE n \in waiting
    BY <1>1, <1>3, <2>1
  <2>2. CASE n \in replayed /\ ~Settled(n)
    BY <1>1, <1>3, <1>4, <2>2
  <2>3. CASE n \in (Len(calls) + 1)..Len(calls')
    BY <1>1, <1>2, <1>3, <2>3
  <2> QED BY <1>5, <2>1, <2>2, <2>3
<1>8. shown' \in 0..Len(calls)
  BY <1>1, <1>4, <1>6
<1> QED BY <1>1, <1>4, <1>5, <1>6, <1>7, <1>8

\* Opening or refreshing a page.
LEMMA LoadCases ==
    ASSUME Base, NEW r \in Pages, Open(r) \/ Refresh
    PROVE  /\ page' \in Pages /\ UNCHANGED <<server, answered, role>>
           /\ \/ /\ Load(page', {}, 0)
                 /\ opened' = Len(calls) /\ items' = {}
              \/ /\ Load(page', awaited, IF page = "pull-requests" THEN 0 ELSE shown)
                 /\ page' = page /\ opened' = opened /\ items' = items
                 /\ page \in {"vulnerabilities", "approvals", "pull-requests"}
<1>1. CASE Open(r)
  BY <1>1 DEF Open, Pages
<1>2. CASE Refresh
  <2>1. page' = page /\ Load(page, awaited, IF page = "pull-requests" THEN 0 ELSE shown)
    BY <1>2 DEF Refresh
  <2>2. Load(page', awaited, IF page = "pull-requests" THEN 0 ELSE shown)
    BY <2>1 DEF Load, Shared, Sent
  <2> QED BY <1>2, <2>1, <2>2 DEF Refresh, Pages
<1> QED BY <1>1, <1>2

LEMMA LoadBase ==
    ASSUME Base, NEW r \in Pages, Open(r) \/ Refresh
    PROVE  Base'
<1> PICK p \in Pages : p = page'
  BY LoadCases
<1>1. PICK waiting \in SUBSET (1..Len(calls)), showing \in 0..Len(calls) :
         Load(p, waiting, showing) /\ \A n \in waiting : n \in 1..Len(calls) /\ ~Settled(n)
  <2>1. Len(calls) \in Nat /\ shown \in 0..Len(calls) /\ \A n \in awaited : n \in 1..Len(calls) /\ ~Settled(n)
    BY Counting DEF Base, TypeOK
  <2>2. (IF page = "pull-requests" THEN 0 ELSE shown) \in 0..Len(calls)
    BY <2>1
  <2>3. CASE Load(p, {}, 0)
    BY <2>1, <2>3
  <2>4. CASE Load(p, awaited, IF page = "pull-requests" THEN 0 ELSE shown)
    BY <2>1, <2>2, <2>4
  <2> QED BY <2>3, <2>4, LoadCases
<1>2. UNCHANGED <<review, changes, answered, role>>
  BY LoadCases DEF server
<1>3. /\ calls' \in Seq(CallRecords) /\ Extended
      /\ DOMAIN calls' = 1..Len(calls') /\ \A n \in 1..Len(calls) : calls'[n] = calls[n]
      /\ \/ cached' = cached
         \/ cached' \in 1..Len(calls') /\ calls'[cached'].op = "vulnerabilities"
      /\ \/ workflows' = workflows
         \/ workflows' \in 1..Len(calls') /\ calls'[workflows'].op = "workflows"
  BY <1>1, LoadStep, Counting DEF Base
<1>4. /\ \A n \in awaited' : n \in DOMAIN calls' /\ ~Settled(n)'
      /\ shown' \in 0..Len(calls)
  BY <1>1, <1>2, LoadAwaits
<1>5. /\ Len(calls) \in Nat /\ Len(calls') \in Nat /\ Len(calls) <= Len(calls')
      /\ cached \in 0..Len(calls) /\ workflows \in 0..Len(calls) /\ opened \in 0..Len(calls)
  BY <1>3, Counting, LenProperties DEF Base, TypeOK, Extended
<1>6. answered' \in Seq(DOMAIN calls') /\ IsInjective(answered')
  BY <1>2, <1>3, <1>5, AnsweredTyped DEF Base
<1>7. /\ \A n \in DOMAIN calls' : calls'[n].after <= Len(answered')
      /\ \A n \in DOMAIN calls' : Settled(n)' => calls'[n].state # "sent"
  BY <1>2, <1>3, ExtendedBase
<1>8. opened' \in 0..Len(calls') /\ items' \in SUBSET Findings
  BY <1>5, LoadCases DEF Base, TypeOK
<1>9. /\ cached' \in 0..Len(calls') /\ workflows' \in 0..Len(calls') /\ shown' \in 0..Len(calls')
      /\ cached' # 0 => calls'[cached'].op = "vulnerabilities"
      /\ workflows' # 0 => calls'[workflows'].op = "workflows"
  BY <1>3, <1>4, <1>5 DEF Base
<1>10. review' \in SUBSET Findings /\ changes' \in Nat /\ role' \in Roles \cup {None} /\ page' \in Pages
  BY <1>2 DEF Base, TypeOK
<1>11. TypeOK'
  BY <1>3, <1>4, <1>6, <1>7, <1>8, <1>9, <1>10 DEF TypeOK
<1> QED BY <1>7, <1>9, <1>11 DEF Base

\* A call from the page that is open.
LEMMA ActCases ==
    ASSUME Base, Act
    PROVE  \E op \in Writes \cup {"fix"}, f \in Findings \cup {None} :
               Ask(op, f) /\ op \in OpsOf(page)
<1>1. items \in SUBSET Findings
  BY DEF Base, TypeOK
<1>2. CASE page = "approvals" /\ \E f \in items : Ask("decide", f)
  BY <1>1, <1>2 DEF OpsOf, Writes
<1>3. CASE page = "remediation" /\ Ask("bulk", None)
  BY <1>3 DEF OpsOf, Writes
<1>4. CASE page = "execute" /\ Ask("scan", None)
  BY <1>4 DEF OpsOf, Writes
<1>5. CASE page = "execute" /\ Ask("fix", None)
  BY <1>5 DEF OpsOf, Writes
<1> QED BY <1>2, <1>3, <1>4, <1>5 DEF Act

LEMMA ActBase ==
    ASSUME Base, Act
    PROVE  Base'
<1>1. PICK op \in Writes \cup {"fix"}, f \in Findings \cup {None} : Ask(op, f)
  BY ActCases
<1>2. op \in Reads \cup Writes
  BY DEF Reads
<1>3. /\ calls' \in Seq(CallRecords) /\ Extended
      /\ Len(calls') = Len(calls) + 1 /\ DOMAIN calls' = 1..Len(calls')
      /\ \A n \in 1..Len(calls) : calls'[n] = calls[n]
      /\ awaited' = awaited \cup {Len(calls')}
  BY <1>1, <1>2, AskStep DEF Base
<1>4. UNCHANGED <<review, changes, answered, cached, workflows, role, page, opened, shown, items>>
  BY <1>1 DEF Ask, server
<1>5. Len(calls) \in Nat /\ Len(calls') \in Nat /\ Len(calls) <= Len(calls')
  BY <1>3, Counting DEF Base
<1>6. answered' \in Seq(DOMAIN calls') /\ IsInjective(answered')
  BY <1>3, <1>4, <1>5, AnsweredTyped DEF Base
<1>7. /\ \A n \in DOMAIN calls' : calls'[n].after <= Len(answered')
      /\ \A n \in DOMAIN calls' : Settled(n)' => calls'[n].state # "sent"
      /\ \A n : Settled(n)' <=> Settled(n)
      /\ \A n : Settled(n) => n \in 1..Len(calls)
  BY <1>3, <1>4, ExtendedBase
<1>8. /\ cached' \in 0..Len(calls') /\ workflows' \in 0..Len(calls') /\ shown' \in 0..Len(calls')
      /\ opened' \in 0..Len(calls')
      /\ cached' # 0 => calls'[cached'].op = "vulnerabilities"
      /\ workflows' # 0 => calls'[workflows'].op = "workflows"
  BY <1>3, <1>4, <1>5 DEF Base, TypeOK
<1>9. \A n \in awaited' : n \in DOMAIN calls' /\ ~Settled(n)'
  <2>1. \A n \in awaited : n \in 1..Len(calls) /\ ~Settled(n)
    BY Counting DEF Base, TypeOK
  <2> QED BY <1>3, <1>5, <1>7, <2>1
<1>10. /\ review' \in SUBSET Findings /\ changes' \in Nat /\ items' \in SUBSET Findings
       /\ role' \in Roles \cup {None} /\ page' \in Pages
  BY <1>4 DEF Base, TypeOK
<1>11. TypeOK'
  BY <1>3, <1>6, <1>7, <1>8, <1>9, <1>10 DEF TypeOK
<1> QED BY <1>7, <1>8, <1>11 DEF Base

LEMMA ServeBase ==
    ASSUME Base, NEW n \in DOMAIN calls, Serve(n) \/ Lose(n)
    PROVE  Base'
<1>1. /\ calls' \in Seq(CallRecords) /\ Extended
      /\ Len(calls') = Len(calls) /\ DOMAIN calls' = 1..Len(calls')
      /\ Len(calls) \in Nat
  BY CallStep, Counting DEF Base
<1>2. UNCHANGED <<answered, cached, workflows, role, page, opened, awaited, shown, items>>
  BY DEF Serve, Lose, client
<1>3. answered' \in Seq(DOMAIN calls') /\ IsInjective(answered')
  BY <1>1, <1>2, AnsweredTyped DEF Base
<1>4. /\ \A k \in DOMAIN calls' : calls'[k].after <= Len(answered')
      /\ \A k \in DOMAIN calls' : Settled(k)' => calls'[k].state # "sent"
      /\ \A k : Settled(k)' <=> Settled(k)
  BY <1>1, <1>2, ExtendedBase
<1>5. /\ cached' \in 0..Len(calls') /\ workflows' \in 0..Len(calls') /\ shown' \in 0..Len(calls')
      /\ opened' \in 0..Len(calls')
      /\ cached' # 0 => calls'[cached'].op = "vulnerabilities"
      /\ workflows' # 0 => calls'[workflows'].op = "workflows"
  BY <1>1, <1>2 DEF Base, TypeOK, Extended
<1>6. \A k \in awaited' : k \in DOMAIN calls' /\ ~Settled(k)'
  BY <1>1, <1>2, <1>4, Counting DEF Base, TypeOK
<1>7. review' \in SUBSET Findings /\ changes' \in Nat
  <2>1. review \in SUBSET Findings /\ changes \in Nat
    BY DEF Base, TypeOK
  <2>2. CASE Serve(n)
    BY <2>1, <2>2 DEF Serve
  <2>3. CASE Lose(n)
    BY <2>1, <2>3 DEF Lose, server
  <2> QED BY <2>2, <2>3
<1>8. items' \in SUBSET Findings /\ role' \in Roles \cup {None} /\ page' \in Pages
  BY <1>2 DEF Base, TypeOK
<1>9. TypeOK'
  BY <1>1, <1>3, <1>4, <1>5, <1>6, <1>7, <1>8 DEF TypeOK
<1> QED BY <1>4, <1>5, <1>9 DEF Base

LEMMA DeliverBase ==
    ASSUME Base, NEW n \in DOMAIN calls, Deliver(n)
    PROVE  Base'
<1>1. /\ answered' \in Seq(DOMAIN calls) /\ IsInjective(answered')
      /\ Len(answered') = Len(answered) + 1
      /\ \A k : Settled(k)' <=> Settled(k) \/ k = n
      /\ DOMAIN calls = 1..Len(calls) /\ Len(calls) \in Nat /\ Len(answered) \in Nat
      /\ calls \in Seq(CallRecords)
  BY DeliverStep, Counting DEF Base, TypeOK
<1>2. UNCHANGED <<review, changes, calls, workflows, role, page, opened>> /\ calls[n].state # "sent"
  BY DEF Deliver, server
<1>3. /\ cached' = cached \/ cached' = 0
      /\ shown' = shown \/ shown' = n
      /\ \A k \in awaited' : k \in awaited /\ k # n
  BY DEF Deliver, Shown
<1>4. items' \in SUBSET Findings
  <2>1. items \in SUBSET Findings /\ calls[n].answer \in SUBSET Findings
    BY Counting DEF Base, TypeOK, CallRecords
  <2> QED BY <2>1 DEF Deliver, Items
<1>5. \A k \in awaited' : k \in DOMAIN calls' /\ ~Settled(k)'
  BY <1>1, <1>2, <1>3 DEF Base, TypeOK
<1>6. /\ cached' \in 0..Len(calls') /\ workflows' \in 0..Len(calls') /\ shown' \in 0..Len(calls')
      /\ opened' \in 0..Len(calls')
      /\ cached' # 0 => calls'[cached'].op = "vulnerabilities"
      /\ workflows' # 0 => calls'[workflows'].op = "workflows"
  BY <1>1, <1>2, <1>3 DEF Base, TypeOK
<1>7. /\ \A k \in DOMAIN calls' : calls'[k].after <= Len(answered')
      /\ \A k \in DOMAIN calls' : Settled(k)' => calls'[k].state # "sent"
  <2>1. \A k \in DOMAIN calls : calls[k].after \in Nat
    BY Counting DEF Base, CallRecords
  <2> QED BY <1>1, <1>2, <2>1 DEF Base, TypeOK
<1>8. /\ review' \in SUBSET Findings /\ changes' \in Nat
      /\ role' \in Roles \cup {None} /\ page' \in Pages
  BY <1>2 DEF Base, TypeOK
<1>9. answered' \in Seq(DOMAIN calls') /\ calls' \in Seq(CallRecords)
  BY <1>1, <1>2
<1>10. TypeOK'
  BY <1>1, <1>4, <1>5, <1>6, <1>7, <1>8, <1>9 DEF TypeOK
<1> QED BY <1>6, <1>7, <1>10 DEF Base

\* Logging in or out.
LEMMA LeaveCases ==
    ASSUME LogIn \/ LogOut
    PROVE  /\ UNCHANGED <<server, calls, answered, cached, workflows>>
           /\ opened' = Len(calls) /\ awaited' = {} /\ shown' = 0 /\ items' = {}
           /\ page' \in Pages /\ role' \in Roles \cup {None}
BY DEF LogIn, LogOut, Leave, Pages

LEMMA LeaveBase ==
    ASSUME Base, LogIn \/ LogOut
    PROVE  Base'
<1>1. Len(calls) \in Nat
  BY Counting DEF Base
<1>2. TypeOK'
  BY <1>1, LeaveCases DEF Base, TypeOK, Settled, server
<1> QED BY <1>2, LeaveCases DEF Base, Settled, server

LEMMA BaseStep ==
    ASSUME Base, [Next]_vars
    PROVE  Base'
<1>1. CASE UNCHANGED vars
  BY <1>1 DEF Base, TypeOK, Settled, vars, server, client
<1>2. CASE Next
  <2>1. CASE LogIn \/ LogOut
    BY <2>1, LeaveBase
  <2>2. CASE Refresh \/ \E p \in Pages : Open(p)
    BY <2>2, LoadBase DEF Pages
  <2>3. CASE Act
    BY <2>3, ActBase
  <2>4. CASE \E n \in DOMAIN calls : Serve(n) \/ Lose(n) \/ Deliver(n)
    BY <2>4, ServeBase, DeliverBase
  <2> QED BY <1>2, <2>1, <2>2, <2>3, <2>4 DEF Next
<1> QED BY <1>1, <1>2

\* A step of Next, by what it does to the calls: all but serving one leave the
\* server alone, and send calls or lose one.
Quiet ==
    /\ Extended /\ UNCHANGED server
    /\ \A n \in 1..Len(calls) :
          /\ calls'[n].at = calls[n].at /\ calls'[n].answer = calls[n].answer
          /\ calls'[n].state \in {calls[n].state, "lost"}

LEMMA QuietStep ==
    ASSUME Base, [Next]_vars
    PROVE  /\ Quiet \/ \E n \in DOMAIN calls : Serve(n)
           /\ Extended
           /\ UNCHANGED answered \/ \E n \in DOMAIN calls : Deliver(n)
<1>1. DOMAIN calls = 1..Len(calls) /\ Len(calls) \in Nat
  BY Counting DEF Base
<1>2. CASE UNCHANGED vars
  BY <1>1, <1>2 DEF vars, Quiet, Extended
<1>3. CASE LogIn \/ LogOut
  BY <1>1, <1>3, LeaveCases DEF Quiet, Extended
<1>4. CASE Refresh \/ \E p \in Pages : Open(p)
  <2>1. PICK waiting, showing : \E q \in Pages : Load(q, waiting, showing) /\ UNCHANGED <<server, answered>>
    BY <1>4, LoadCases DEF Pages
  <2>2. PICK q \in Pages : Load(q, waiting, showing) /\ UNCHANGED <<server, answered>>
    BY <2>1
  <2>3. Extended /\ \A n \in 1..Len(calls) : calls'[n] = calls[n]
    BY <2>2, LoadStep DEF Base
  <2> QED BY <2>2, <2>3 DEF Quiet
<1>5. CASE Act
  <2>1. PICK op \in Writes \cup {"fix"}, f \in Findings \cup {None} : Ask(op, f)
    BY <1>5, ActCases
  <2>2. op \in Reads \cup Writes
    BY DEF Reads
  <2>3. Extended /\ \A n \in 1..Len(calls) : calls'[n] = calls[n]
    BY <2>1, <2>2, AskStep DEF Base
  <2> QED BY <2>1, <2>3 DEF Quiet, Ask
<1>6. ASSUME NEW n \in DOMAIN calls, Serve(n)
      PROVE  Extended /\ UNCHANGED answered
  BY <1>6, CallStep DEF Serve
<1>7. ASSUME NEW n \in DOMAIN calls, Lose(n)
      PROVE  Quiet /\ UNCHANGED answered
  <2>1. Extended /\ \A k \in 1..Len(calls) \ {n} : calls'[k] = calls[k]
    BY <1>7, CallStep
  <2>2. calls[n] \in CallRecords
    BY Counting DEF Base
  <2>3. calls'[n] = [calls[n] EXCEPT !.state = "lost"]
    <3>1. calls' = [calls EXCEPT ![n].state = "lost"]
      BY <1>7 DEF Lose
    <3> QED BY <3>1
  <2>4. /\ calls'[n].at = calls[n].at /\ calls'[n].answer = calls[n].answer /\ calls'[n].state = "lost"
    BY <2>2, <2>3 DEF CallRecords
  <2> QED BY <1>1, <1>7, <2>1, <2>4 DEF Quiet, Lose
<1>8. ASSUME NEW n \in DOMAIN calls, Deliver(n)
      PROVE  Quiet
  BY <1>1, <1>8 DEF Deliver, Quiet, Extended
<1>9. Refresh \/ (\E p \in Pages : Open(p)) => UNCHANGED answered
  BY LoadCases DEF Pages
<1>10. Act => UNCHANGED answered
  BY ActCases DEF Ask
<1>11. LogIn \/ LogOut \/ UNCHANGED vars => UNCHANGED answered
  BY DEF LogIn, LogOut, vars
<1>12. Quiet => Extended
  BY DEF Quiet
<1>13. \/ UNCHANGED vars \/ LogIn \/ LogOut \/ Act
       \/ Refresh \/ (\E p \in Pages : Open(p))
       \/ \E n \in DOMAIN calls : Serve(n) \/ Lose(n) \/ Deliver(n)
  BY DEF Next
<1> QED BY ONLY <1>2, <1>3, <1>4, <1>5, <1>6, <1>7, <1>8, <1>9, <1>10, <1>11, <1>12, <1>13

\* A number of changes is known of what is served, and of nothing sent.
Numbered ==
    \A n \in DOMAIN calls :
        /\ calls[n].at <= changes
        /\ calls[n].state = "sent" => calls[n].at = 0
        /\ calls[n].state = "served" /\ calls[n].op \in Writes => calls[n].at > 0


LEMMA NumberedStep ==
    ASSUME Base, Base', Numbered, [Next]_vars
    PROVE  Numbered'
<1>1. /\ DOMAIN calls = 1..Len(calls) /\ Len(calls) \in Nat /\ changes \in Nat
      /\ \A n \in 1..Len(calls) : calls[n] \in CallRecords
  BY Counting DEF Base, TypeOK
<1>2. DOMAIN calls' = 1..Len(calls') /\ Len(calls') \in Nat
  BY LenProperties DEF Base, TypeOK
<1>3. CASE Quiet
  <2> SUFFICES ASSUME NEW n \in 1..Len(calls')
               PROVE  /\ calls'[n].at <= changes'
                      /\ calls'[n].state = "sent" => calls'[n].at = 0
                      /\ calls'[n].state = "served" /\ calls'[n].op \in Writes => calls'[n].at > 0
    BY <1>2 DEF Numbered
  <2>1. CASE n \in 1..Len(calls)
    BY <1>1, <1>3, <2>1 DEF Numbered, Quiet, Extended, server
  <2>2. CASE n \in (Len(calls) + 1)..Len(calls')
    BY <1>1, <1>3, <2>2 DEF Quiet, Extended, server
  <2> QED BY <1>1, <2>1, <2>2
<1>4. ASSUME NEW k \in DOMAIN calls, Serve(k)
      PROVE  Numbered'
  <2>1. /\ Extended /\ Len(calls') = Len(calls)
        /\ \A n \in 1..Len(calls) \ {k} : calls'[n] = calls[n]
        /\ changes' = IF calls[k].op \in Writes THEN changes + 1 ELSE changes
    BY <1>4, CallStep DEF Serve
  <2>2. calls' = [calls EXCEPT ![k] = [calls[k] EXCEPT !.state = "served",
                      !.answer = IF calls[k].op = "approvals" THEN review ELSE @,
                      !.at = IF calls[k].op \in Writes \cup {"vulnerabilities"} THEN changes' ELSE @]]
    BY <1>4 DEF Serve
  <2>3. /\ calls'[k].at = IF calls[k].op \in Writes \cup {"vulnerabilities"} THEN changes' ELSE calls[k].at
        /\ calls'[k].state = "served" /\ calls'[k].op = calls[k].op
    BY <1>1, <2>2 DEF CallRecords
  <2> SUFFICES ASSUME NEW n \in 1..Len(calls)
               PROVE  /\ calls'[n].at <= changes'
                      /\ calls'[n].state = "sent" => calls'[n].at = 0
                      /\ calls'[n].state = "served" /\ calls'[n].op \in Writes => calls'[n].at > 0
    BY <1>2, <2>1 DEF Numbered
  <2>4. calls[n].at \in Nat /\ calls[n].at <= changes
    BY <1>1 DEF Numbered, CallRecords
  <2>5. CASE n = k
    BY <1>1, <2>1, <2>3, <2>4, <2>5
  <2>6. CASE n # k
    BY <1>1, <2>1, <2>4, <2>6 DEF Numbered
  <2> QED BY <2>5, <2>6
<1> QED BY <1>3, <1>4, QuietStep

\* What is cached changes with a load, and is forgotten with the answer to a change.
LEMMA CachedStep ==
    ASSUME Base, [Next]_vars
    PROVE  \/ cached' = cached
           \/ cached' = 0
           \/ cached' = Len(calls') /\ Len(calls') = Len(calls) + 1
<1>1. CASE Refresh \/ \E p \in Pages : Open(p)
  <2>1. PICK waiting, showing : \E q \in Pages : Load(q, waiting, showing)
    BY <1>1, LoadCases DEF Pages
  <2>2. PICK q \in Pages : Load(q, waiting, showing)
    BY <2>1
  <2> QED BY <2>2, LoadStep DEF Base
<1>2. CASE Act
  BY <1>2, ActCases DEF Ask
<1>3. ASSUME NEW n \in DOMAIN calls, Serve(n) \/ Lose(n) \/ Deliver(n)
      PROVE  cached' = cached \/ cached' = 0
  BY <1>3 DEF Serve, Lose, Deliver, client
<1> QED BY <1>1, <1>2, <1>3 DEF Next, LogIn, LogOut, vars, client

LEMMA CacheStep ==
    ASSUME Base, Base', Numbered, CacheIsFresh, [Next]_vars
    PROVE  CacheIsFresh'
<1>1. /\ DOMAIN calls = 1..Len(calls) /\ Len(calls) \in Nat
      /\ \A n \in 1..Len(calls) : calls[n] \in CallRecords
      /\ cached \in 0..Len(calls) /\ \A n : Settled(n) => n \in 1..Len(calls)
  BY Counting DEF Base, TypeOK, Settled, Range
<1>2. DOMAIN calls' = 1..Len(calls') /\ Len(calls') \in Nat
  BY LenProperties DEF Base, TypeOK
<1> SUFFICES ASSUME cached' # 0, calls'[cached'].state = "served",
                    NEW m \in 1..Len(calls'), Succeeded(m)', calls'[m].op \in Writes
             PROVE  calls'[m].at <= calls'[cached'].at
  BY <1>2 DEF CacheIsFresh
<1>3. Extended
  BY QuietStep
<1>4. cached' = cached /\ cached \in 1..Len(calls)
  BY <1>1, <1>3, CachedStep DEF Extended
<1>5. m \in 1..Len(calls) /\ Succeeded(m)
  <2>1. CASE UNCHANGED answered
    BY <1>1, <1>3, <2>1 DEF Succeeded, Settled, Extended
  <2>2. ASSUME NEW n \in DOMAIN calls, Deliver(n)
        PROVE  m \in 1..Len(calls) /\ Succeeded(m)
    <3>1. m # n
      BY <1>4, <2>2 DEF Deliver, Invalidates, Succeeded
    <3> QED BY <1>1, <2>2, <3>1, DeliverStep DEF Deliver, Succeeded
  <2> QED BY <2>1, <2>2, QuietStep
<1>6. calls'[m] = calls[m] /\ calls[m].op \in Writes
  BY <1>3, <1>5 DEF Extended, Succeeded
<1>7. CASE Quiet
  <2>1. calls'[cached].state = "served" => calls[cached].state = "served"
    BY <1>4, <1>7 DEF Quiet
  <2>2. calls'[cached].at = calls[cached].at
    BY <1>4, <1>7 DEF Quiet
  <2> QED BY <1>1, <1>4, <1>5, <1>6, <2>1, <2>2 DEF CacheIsFresh
<1>8. ASSUME NEW n \in DOMAIN calls, Serve(n)
      PROVE  calls'[m].at <= calls'[cached'].at
  <2>1. \A k \in 1..Len(calls) \ {n} : calls'[k] = calls[k]
    BY <1>8, CallStep
  <2>2. CASE n = cached
    <3>1. calls[n].op = "vulnerabilities" /\ calls[n].op \notin Writes
      BY <1>4, <2>2 DEF Base, Writes
    <3>2. changes' = changes
      BY <1>8, <3>1 DEF Serve
    <3>3. calls'[n].at = changes
      <4>1. calls'[n] = [calls[n] EXCEPT !.state = "served",
                      !.answer = IF calls[n].op = "approvals" THEN review ELSE @,
                      !.at = IF calls[n].op \in Writes \cup {"vulnerabilities"} THEN changes' ELSE @]
        BY <1>8 DEF Serve
      <4> QED BY <1>1, <1>8, <3>1, <3>2, <4>1 DEF CallRecords
    <3> QED BY <1>1, <1>4, <1>5, <1>6, <2>2, <3>3 DEF Numbered
  <2>3. CASE n # cached
    BY <1>1, <1>4, <1>5, <1>6, <2>1, <2>3 DEF CacheIsFresh
  <2> QED BY <2>2, <2>3
<1> QED BY <1>7, <1>8, QuietStep

\* A page waits for the calls it made, makes only its own, and shows an answer;
\* the cached list is the latest that was asked for.
Visited ==
    /\ \A n \in DOMAIN calls : n > opened => Settled(n) \/ n \in awaited
    /\ \A n \in DOMAIN calls : n > opened \/ n \in awaited => calls[n].op \in OpsOf(page)
    /\ \A n \in DOMAIN calls : cached # 0 /\ n > cached => calls[n].op # "vulnerabilities"
    /\ shown # 0 => Settled(shown)

\* Only a page that is loaded asks for the list that is cached.
LEMMA LoadVisited ==
    ASSUME Base, Visited, NEW r \in Pages, Open(r) \/ Refresh
    PROVE  Visited'
<1> PICK p \in Pages : p = page'
  BY LoadCases
<1>1. /\ Len(calls) \in Nat /\ DOMAIN calls = 1..Len(calls)
      /\ shown \in 0..Len(calls) /\ cached \in 0..Len(calls) /\ opened \in 0..Len(calls)
      /\ \A n \in awaited : n \in 1..Len(calls) /\ ~Settled(n)
  BY Counting DEF Base, TypeOK
<1>2. PICK waiting \in SUBSET (1..Len(calls)), showing \in 0..Len(calls) :
         /\ Load(p, waiting, showing) /\ UNCHANGED answered
         /\ \A n \in waiting : n \in 1..Len(calls) /\ ~Settled(n)
         /\ \/ waiting = {} /\ showing = 0 /\ opened' = Len(calls)
            \/ waiting = awaited /\ showing \in {0, shown} /\ opened' = opened /\ p = page
  <2>1. UNCHANGED answered
    BY LoadCases
  <2>2. (IF page = "pull-requests" THEN 0 ELSE shown) \in 0..Len(calls)
    BY <1>1
  <2>3. CASE Load(p, {}, 0) /\ opened' = Len(calls)
    <3>1. {} \in SUBSET (1..Len(calls)) /\ 0 \in 0..Len(calls)
      BY <1>1
    <3> QED BY ONLY <2>1, <2>3, <3>1, Zenon
  <2>4. CASE Load(p, awaited, IF page = "pull-requests" THEN 0 ELSE shown) /\ opened' = opened /\ p = page
    BY <1>1, <2>1, <2>2, <2>4
  <2> QED BY <2>3, <2>4, LoadCases
<1>3. /\ Extended /\ DOMAIN calls' = 1..Len(calls') /\ Len(calls') \in Nat
      /\ \A n \in 1..Len(calls) : calls'[n] = calls[n]
      /\ \A n \in (Len(calls) + 1)..Len(calls') : calls'[n].op \in OpsOf(p)
      /\ \/ cached' = cached
         \/ cached' = Len(calls')
  BY <1>2, LoadStep, LenProperties DEF Base
<1>4. /\ \A n \in (Len(calls) + 1)..Len(calls') : n \in awaited'
      /\ \A n \in waiting : n \in awaited'
      /\ \A n \in awaited' : n \in waiting \/ calls'[n].op \in OpsOf(p)
      /\ shown' = showing \/ Settled(shown')
  BY <1>2, LoadAwaits
<1>5. \A n : Settled(n)' <=> Settled(n)
  BY <1>2 DEF Settled
<1>6. ASSUME NEW n \in 1..Len(calls'), n > opened'
      PROVE  Settled(n)' \/ n \in awaited'
  <2>1. CASE n \in 1..Len(calls)
    BY <1>1, <1>2, <1>4, <1>5, <1>6, <2>1 DEF Visited
  <2> QED BY <1>1, <1>3, <1>4, <2>1
<1>7. ASSUME NEW n \in 1..Len(calls'), n > opened' \/ n \in awaited'
      PROVE  calls'[n].op \in OpsOf(p)
  <2>1. CASE n \in 1..Len(calls)
    BY <1>1, <1>2, <1>3, <1>4, <1>7, <2>1 DEF Visited
  <2> QED BY <1>1, <1>3, <2>1
<1>8. ASSUME NEW n \in 1..Len(calls'), cached' # 0, n > cached'
      PROVE  calls'[n].op # "vulnerabilities"
  <2>1. cached' = cached
    BY <1>3, <1>8
  <2>2. CASE n \in 1..Len(calls)
    BY <1>1, <1>3, <1>8, <2>1, <2>2 DEF Visited
  <2>3. CASE n \in (Len(calls) + 1)..Len(calls')
    <3>1. PICK k \in 1..Len(Sent(p)) : calls'[n].op = Sent(p)[k] /\ Len(Sent(p)) \in Nat
      <4>1. /\ Len(calls') = Len(calls) + Len(Sent(p))
            /\ calls'[n].op = Sent(p)[n - Len(calls)]
        BY <1>2, <2>3, LoadStep DEF Base
      <4>2. Len(Sent(p)) \in Nat /\ n - Len(calls) \in 1..Len(Sent(p))
        BY <1>1, <1>3, <2>3, <4>1, SentCalls
      <4> QED BY <4>1, <4>2
    <3>2. CASE Sent(p)[k] = "vulnerabilities"
      <4>1. "vulnerabilities" \in Range(Sent(p))
        BY <3>1, <3>2, SentCalls DEF Range
      <4>2. cached' = Len(calls) + 1
        BY <1>2, <4>1 DEF Load
      <4> QED BY <1>1, <2>1, <4>2
    <3> QED BY <3>1, <3>2
  <2> QED BY <1>1, <1>3, <2>2, <2>3
<1>9. shown' # 0 => Settled(shown)'
  <2>1. shown # 0 => Settled(shown)
    BY DEF Visited
  <2> QED BY <1>2, <1>4, <1>5, <2>1
<1> QED BY <1>3, <1>6, <1>7, <1>8, <1>9 DEF Visited

LEMMA VisitedStep ==
    ASSUME Base, Base', Visited, [Next]_vars
    PROVE  Visited'
<1>1. /\ Len(calls) \in Nat /\ DOMAIN calls = 1..Len(calls)
      /\ \A n : Settled(n) => n \in 1..Len(calls)
      /\ cached \in 0..Len(calls) /\ opened \in 0..Len(calls)
  BY Counting DEF Base, TypeOK, Settled, Range
<1>2. Extended
  BY QuietStep
<1>3. CASE UNCHANGED vars
  BY <1>3 DEF Visited, Settled, vars, server, client
<1>4. CASE LogIn \/ LogOut
  <2>1. /\ UNCHANGED <<calls, answered, cached>>
        /\ opened' = Len(calls) /\ awaited' = {} /\ shown' = 0
    BY <1>4, LeaveCases
  <2> QED BY <1>1, <2>1 DEF Visited, Settled
<1>5. CASE Act
  <2>1. PICK op \in Writes \cup {"fix"}, f \in Findings \cup {None} : Ask(op, f) /\ op \in OpsOf(page)
    BY <1>5, ActCases
  <2>2. op \in Reads \cup Writes /\ op # "vulnerabilities"
    BY DEF Reads, Writes
  <2>3. /\ Len(calls') = Len(calls) + 1 /\ DOMAIN calls' = 1..Len(calls')
        /\ \A n \in 1..Len(calls) : calls'[n] = calls[n]
        /\ calls'[Len(calls')].op = op /\ awaited' = awaited \cup {Len(calls')}
    BY <2>1, <2>2, AskStep DEF Base
  <2>4. UNCHANGED <<answered, cached, page, opened, shown>>
    BY <2>1 DEF Ask
  <2>5. \A n : Settled(n)' <=> Settled(n)
    BY <2>4 DEF Settled
  <2>6. shown' # 0 => Settled(shown)'
    BY <2>4, <2>5 DEF Visited
  <2>7. ASSUME NEW n \in 1..Len(calls')
        PROVE  /\ n > opened => Settled(n)' \/ n \in awaited'
               /\ n > opened \/ n \in awaited' => calls'[n].op \in OpsOf(page)
               /\ cached # 0 /\ n > cached => calls'[n].op # "vulnerabilities"
    <3>1. CASE n \in 1..Len(calls)
      <4>1. n # Len(calls')
        BY <1>1, <2>3, <3>1
      <4> QED BY <1>1, <2>3, <2>5, <3>1, <4>1 DEF Visited
    <3>2. CASE n = Len(calls')
      BY <2>1, <2>2, <2>3, <3>2
    <3> QED BY <1>1, <2>3, <3>1, <3>2
  <2> QED BY <2>3, <2>4, <2>6, <2>7 DEF Visited
<1>6. ASSUME NEW k \in DOMAIN calls, Serve(k) \/ Lose(k)
      PROVE  Visited'
  <2>1. Len(calls') = Len(calls) /\ DOMAIN calls' = 1..Len(calls')
    BY <1>6, CallStep
  <2>2. UNCHANGED <<answered, cached, page, opened, awaited, shown>>
    BY <1>6 DEF Serve, Lose, client
  <2> QED BY <1>1, <1>2, <2>1, <2>2 DEF Visited, Settled, Extended
<1>7. ASSUME NEW k \in DOMAIN calls, Deliver(k)
      PROVE  Visited'
  <2>1. /\ UNCHANGED <<calls, page, opened>>
        /\ cached' \in {0, cached} /\ shown' \in {shown, k} /\ awaited' = awaited \ {k}
    BY <1>7 DEF Deliver, Shown
  <2>2. \A n : Settled(n)' <=> Settled(n) \/ n = k
    BY <1>7, DeliverStep
  <2> QED BY <2>1, <2>2 DEF Visited
<1>8. Refresh \/ (\E r \in Pages : Open(r)) => Visited'
  BY LoadVisited DEF Pages
<1> QED BY <1>3, <1>4, <1>5, <1>6, <1>7, <1>8 DEF Next

(***************************************************************************)
(* The order of the answers.                                               *)
(***************************************************************************)
LEMMA Places ==
    ASSUME Base, NEW n, Settled(n)
    PROVE  /\ Place(n) \in DOMAIN answered /\ answered[Place(n)] = n
           /\ Place(n) \in 1..Len(answered) /\ Len(answered) \in Nat
<1>1. \E i \in DOMAIN answered : answered[i] = n
  BY DEF Settled, Range
<1>2. DOMAIN answered = 1..Len(answered) /\ Len(answered) \in Nat
  BY Counting DEF Base
<1> QED BY <1>1, <1>2 DEF Place

LEMMA PlaceLast ==
    ASSUME Base, NEW k \in DOMAIN calls, Deliver(k)
    PROVE  Place(k)' = Len(answered) + 1
<1>1. /\ IsInjective(answered') /\ Len(answered') = Len(answered) + 1
      /\ DOMAIN answered' = 1..Len(answered') /\ answered'[Len(answered')] = k
      /\ Len(answered) \in Nat
  BY DeliverStep, Counting DEF Base
<1>2. \A i \in DOMAIN answered' : answered'[i] = k => i = Len(answered) + 1
  BY <1>1 DEF IsInjective
<1> QED BY <1>1, <1>2 DEF Place

LEMMA PlaceKept ==
    ASSUME Base, [Next]_vars, NEW n, Settled(n)
    PROVE  Place(n)' = Place(n) /\ Settled(n)'
<1>1. CASE UNCHANGED answered
  BY <1>1 DEF Place, Settled
<1>2. ASSUME NEW k \in DOMAIN calls, Deliver(k)
      PROVE  Place(n)' = Place(n) /\ Settled(n)'
  <2>1. /\ IsInjective(answered') /\ DOMAIN answered' = 1..Len(answered')
        /\ Len(answered') = Len(answered) + 1
        /\ \A i \in DOMAIN answered : answered'[i] = answered[i]
        /\ Settled(n)'
    BY <1>2, DeliverStep
  <2>2. Place(n) \in DOMAIN answered' /\ answered'[Place(n)] = n
    BY <2>1, Places
  <2>3. \A i \in DOMAIN answered' : answered'[i] = n => i = Place(n)
    BY <2>1, <2>2 DEF IsInjective
  <2>4. Place(n)' = CHOOSE i \in DOMAIN answered' : answered'[i] = n
    BY DEF Place
  <2> HIDE DEF Place
  <2> QED BY <2>1, <2>2, <2>3, <2>4
<1> QED BY <1>1, <1>2, QuietStep

\* A page that sends nothing when it is refreshed shows a cached list.
LEMMA SilentRefresh ==
    ASSUME Base, Refresh
    PROVE  \/ Len(calls') > Len(calls) /\ calls'[Len(calls')].op \in Reads
           \/ /\ page = "vulnerabilities" /\ calls' = calls
              /\ \/ shown' = shown
                 \/ shown' = cached /\ cached \in 1..Len(calls) /\ Settled(cached)
<1>1. /\ Len(calls) \in Nat /\ DOMAIN calls = 1..Len(calls) /\ calls \in Seq(CallRecords)
      /\ shown \in 0..Len(calls) /\ \A n \in awaited : n \in 1..Len(calls) /\ ~Settled(n)
      /\ cached \in 0..Len(calls)
  BY Counting DEF Base, TypeOK
<1>2. CASE page = "vulnerabilities"
  <2>1. page \in Pages /\ Load(page, awaited, shown) /\ UNCHANGED answered
    BY <1>2 DEF Refresh, Pages
  <2>2. CASE Sent(page) = <<>>
    <3>1. Len(Sent(page)) = 0
      BY <2>2
    <3>2. calls' = calls
      <4>1. /\ calls' \in Seq(CallRecords) /\ Len(calls') = Len(calls)
            /\ \A n \in 1..Len(calls) : calls'[n] = calls[n]
        BY <1>1, <2>1, <3>1, LoadStep DEF Base
      <4> QED BY <1>1, <4>1, SeqEqual
    <3> QED BY <1>1, <1>2, <2>1, <3>2, LoadAwaits
  <2>3. CASE Sent(page) # <<>>
    <3>1. Len(Sent(page)) = 1
      BY <1>2, <2>3 DEF Sent
    <3> QED BY <1>1, <2>1, <3>1, LoadStep DEF Base
  <2> QED BY <2>2, <2>3
<1>3. CASE page # "vulnerabilities"
  <2>1. PICK showing : page \in Pages /\ Load(page, awaited, showing) /\ UNCHANGED answered
    BY DEF Refresh, Pages
  <2>2. Len(Sent(page)) \in 1..2
    BY <1>3 DEF Refresh, Sent
  <2> QED BY <1>1, <2>1, <2>2, LoadStep DEF Base
<1> QED BY <1>2, <1>3

LEMMA LastAskedStep ==
    ASSUME Base, Base', Visited, LastAskedIsShown, [Next]_vars
    PROVE  LastAskedIsShown'
<1>1. /\ Len(calls) \in Nat /\ DOMAIN calls = 1..Len(calls)
      /\ \A n : Settled(n) => n \in 1..Len(calls)
      /\ shown \in 0..Len(calls) /\ opened \in 0..Len(calls) /\ cached \in 0..Len(calls)
  BY Counting DEF Base, TypeOK, Settled, Range
<1>2. /\ Len(calls') \in Nat /\ DOMAIN calls' = 1..Len(calls')
      /\ Len(calls) <= Len(calls')
      /\ \A n \in 1..Len(calls) : calls'[n].op = calls[n].op /\ (Settled(n) => calls'[n] = calls[n])
  BY QuietStep, LenProperties DEF Base, TypeOK, Extended
<1> SUFFICES ASSUME NEW n \in (opened' + 1)..Len(calls'), Succeeded(n)', calls'[n].op \in Reads,
                    \A k \in (n + 1)..Len(calls') : calls'[k].op \notin Reads
             PROVE  shown' = n \/ (shown' < n /\ shown' # 0 /\ Place(shown)' > Place(n)')
  BY DEF LastAskedIsShown
<1> DEFINE Goal == shown' = n \/ (shown' < n /\ shown' # 0 /\ Place(shown)' > Place(n)')
<1>3. ASSUME Succeeded(n), n > opened, n \in 1..Len(calls)
      PROVE  shown = n \/ (shown < n /\ shown # 0 /\ Place(shown) > Place(n))
  <2>1. calls[n].op \in Reads /\ \A k \in (n + 1)..Len(calls) : calls[k].op \notin Reads
    BY <1>1, <1>2, <1>3
  <2>2. n \in (opened + 1)..Len(calls)
    BY <1>1, <1>3
  <2> QED BY <1>3, <2>1, <2>2 DEF LastAskedIsShown
<1>4. ASSUME Succeeded(n), n > opened, n \in 1..Len(calls), shown' = shown
      PROVE  Goal
  <2>1. CASE shown = n
    BY <1>4, <2>1
  <2>2. CASE shown < n /\ shown # 0 /\ Place(shown) > Place(n)
    <3>1. Place(shown)' = Place(shown)
      <4>1. Settled(shown)
        BY <2>2 DEF Visited
      <4>2. CASE UNCHANGED answered
        BY <1>4, <4>2 DEF Place
      <4>3. PICK q : q = shown
        OBVIOUS
      <4>4. Place(q)' = Place(q)
        BY <4>1, <4>3, PlaceKept
      <4> QED BY <1>4, <4>3, <4>4 DEF Place
    <3>2. Place(n)' = Place(n)
      BY <1>4, PlaceKept DEF Succeeded
    <3> QED BY <1>4, <2>2, <3>1, <3>2
  <2> QED BY <1>3, <1>4, <2>1, <2>2
<1>5. ASSUME UNCHANGED answered
      PROVE  n \in 1..Len(calls) /\ Succeeded(n)
  BY <1>1, <1>2, <1>5 DEF Succeeded, Settled
<1>6. CASE UNCHANGED vars
  BY <1>1, <1>4, <1>5, <1>6 DEF vars, server, client
<1>7. CASE LogIn \/ LogOut
  BY <1>1, <1>5, <1>7, LeaveCases
<1>8. ASSUME NEW r \in Pages, Open(r)
      PROVE  Goal
  BY <1>1, <1>5, <1>8 DEF Open
<1>9. CASE Refresh
  <2>1. UNCHANGED <<answered, opened, page>>
    BY <1>9 DEF Refresh
  <2>2. CASE Len(calls') > Len(calls) /\ calls'[Len(calls')].op \in Reads
    BY <1>1, <1>2, <1>5, <2>1, <2>2
  <2>3. CASE shown' = shown
    BY <1>1, <1>4, <1>5, <2>1, <2>3
  <2>4. CASE /\ page = "vulnerabilities" /\ calls' = calls
             /\ shown' = cached /\ cached \in 1..Len(calls)
    <3>1. calls[n].op = "vulnerabilities"
      <4>1. calls[n].op \in OpsOf(page)
        BY <1>1, <1>5, <2>1 DEF Visited
      <4> QED BY <2>4, <4>1 DEF OpsOf
    <3>2. ~(n > cached)
      BY <1>1, <1>5, <2>1, <2>4, <3>1 DEF Visited
    <3>3. ~(cached > n)
      <4>1. calls[cached].op = "vulnerabilities"
        BY <2>4 DEF Base
      <4> QED BY <1>1, <1>5, <2>1, <2>4, <4>1 DEF Reads
    <3> QED BY <1>1, <1>5, <2>1, <2>4, <3>2, <3>3
  <2> QED BY <1>9, <2>2, <2>3, <2>4, SilentRefresh
<1>10. CASE Act
  BY <1>1, <1>4, <1>5, <1>10, ActCases DEF Ask
<1>11. ASSUME NEW k \in DOMAIN calls, Serve(k) \/ Lose(k)
       PROVE  Goal
  BY <1>1, <1>4, <1>5, <1>11 DEF Serve, Lose, client
<1>12. ASSUME NEW k \in DOMAIN calls, Deliver(k)
       PROVE  Goal
  <2>1. /\ UNCHANGED <<calls, opened>>
        /\ shown' = IF k \in awaited THEN Shown(k) ELSE shown
    BY <1>12 DEF Deliver
  <2>2. \A m : Settled(m)' <=> Settled(m) \/ m = k
    BY <1>12, DeliverStep
  <2>3. n \in 1..Len(calls) /\ n > opened /\ calls[n].op \in Reads /\ calls[n].state = "served"
    BY <1>1, <2>1 DEF Succeeded
  <2>4. CASE n = k
    <3>1. k \in awaited
      BY <1>1, <1>12, <2>3, <2>4 DEF Visited, Deliver
    <3> QED BY <2>1, <2>3, <2>4, <3>1 DEF Shown
  <2>5. CASE n # k /\ shown' = shown
    BY <1>4, <2>1, <2>2, <2>3, <2>5 DEF Succeeded
  <2>6. CASE n # k /\ shown' # shown
    <3>1. shown' = k /\ calls[k].op \in Reads
      BY <2>1, <2>6 DEF Shown
    <3>2. k < n /\ k # 0
      BY <1>1, <1>12, <2>1, <2>3, <2>6, <3>1
    <3>3. Settled(n)
      BY <2>2, <2>6 DEF Succeeded
    <3>4. Place(n)' = Place(n) /\ Place(n) \in 1..Len(answered) /\ Len(answered) \in Nat
      BY <3>3, Places, PlaceKept
    <3>5. Place(shown)' = Len(answered) + 1
      BY <1>12, <3>1, PlaceLast DEF Place
    <3> QED BY <3>1, <3>2, <3>4, <3>5
  <2> QED BY <2>4, <2>5, <2>6
<1> QED BY <1>6, <1>7, <1>8, <1>9, <1>10, <1>11, <1>12 DEF Next

(***************************************************************************)
(* Decisions and the queue.                                                *)
(***************************************************************************)
LaterBulk(m) == \E b \in DOMAIN calls : calls[b].op = "bulk" /\ calls[b].at > calls[m].at

\* A decided finding is in review, or in a queue asked for after the decision was
\* answered, only after a later bulk request.
Decided ==
    \A m \in DOMAIN calls : calls[m].op = "decide" /\ calls[m].at > 0 /\ ~LaterBulk(m) =>
        /\ calls[m].finding \notin review
        /\ Succeeded(m) =>
              \A n \in DOMAIN calls :
                  calls[m].finding \in calls[n].answer => calls[n].after < Place(m)

\* The items are of the queue that is shown, without what was decided since.
Queue ==
    page = "approvals" /\ items # {} =>
        /\ shown # 0 /\ items \subseteq calls[shown].answer
        /\ \A m \in DOMAIN calls :
              m > opened /\ Succeeded(m) /\ calls[m].op = "decide" /\ calls[m].finding \in items =>
                  Place(shown) > Place(m)

LEMMA BulkKept ==
    ASSUME Base, Base', Numbered, [Next]_vars, NEW m \in DOMAIN calls, LaterBulk(m),
           calls'[m].at = calls[m].at
    PROVE  LaterBulk(m)'
<1>1. /\ DOMAIN calls = 1..Len(calls) /\ Len(calls) \in Nat
      /\ \A n \in 1..Len(calls) : calls[n] \in CallRecords
  BY Counting DEF Base
<1>2. DOMAIN calls' = 1..Len(calls') /\ Len(calls') \in Nat /\ Extended
  BY QuietStep, LenProperties DEF Base, TypeOK
<1>3. PICK b \in DOMAIN calls : calls[b].op = "bulk" /\ calls[b].at > calls[m].at
  BY DEF LaterBulk
<1>4. calls[b].at \in Nat /\ calls[m].at \in Nat /\ calls[b].state # "sent"
  BY <1>1, <1>3 DEF CallRecords, Numbered
<1>5. calls'[b].at = calls[b].at
  <2>1. CASE Quiet
    BY <1>1, <2>1 DEF Quiet
  <2>2. ASSUME NEW n \in DOMAIN calls, Serve(n)
        PROVE  calls'[b].at = calls[b].at
    BY <1>1, <1>4, <2>2, CallStep DEF Serve
  <2> QED BY <2>1, <2>2, QuietStep
<1>6. b \in DOMAIN calls' /\ calls'[b].op = "bulk"
  BY <1>1, <1>2, <1>3 DEF Extended
<1> QED BY <1>3, <1>5, <1>6 DEF LaterBulk

LEMMA DecidedStep ==
    ASSUME Base, Base', Numbered, Decided, [Next]_vars
    PROVE  Decided'
<1>1. /\ DOMAIN calls = 1..Len(calls) /\ Len(calls) \in Nat /\ changes \in Nat
      /\ \A n \in 1..Len(calls) : calls[n] \in CallRecords
      /\ \A n \in 1..Len(calls) : calls[n].after <= Len(answered)
      /\ \A n : Settled(n) => n \in 1..Len(calls)
  BY Counting DEF Base, TypeOK, Settled, Range
<1>2. DOMAIN calls' = 1..Len(calls') /\ Len(calls') \in Nat /\ Extended /\ Len(calls) <= Len(calls')
  BY QuietStep, LenProperties DEF Base, TypeOK, Extended
<1> SUFFICES ASSUME NEW m \in DOMAIN calls', calls'[m].op = "decide", calls'[m].at > 0, ~LaterBulk(m)'
             PROVE  /\ calls'[m].finding \notin review'
                    /\ Succeeded(m)' =>
                           \A n \in DOMAIN calls' :
                               calls'[m].finding \in calls'[n].answer => calls'[n].after < Place(m)'
  BY DEF Decided
<1>3. m \in 1..Len(calls) /\ calls[m].op = "decide" /\ calls'[m].finding = calls[m].finding
  BY <1>1, <1>2 DEF Extended
\* A decision that was made before this step.
<1>4. ASSUME calls'[m].at = calls[m].at
      PROVE  /\ calls[m].at > 0 /\ ~LaterBulk(m)
             /\ calls[m].finding \notin review
             /\ Succeeded(m) =>
                   \A n \in DOMAIN calls :
                       calls[m].finding \in calls[n].answer => calls[n].after < Place(m)
  BY <1>1, <1>3, <1>4, BulkKept DEF Decided
<1>5. ASSUME NEW n \in DOMAIN calls', n \notin DOMAIN calls
      PROVE  calls'[n].answer = {}
  BY <1>1, <1>2, <1>5 DEF Extended
<1>6. CASE Quiet
  <2>1. /\ calls'[m].at = calls[m].at /\ review' = review
        /\ \A n \in 1..Len(calls) : calls'[n].answer = calls[n].answer /\ calls'[n].after = calls[n].after
    BY <1>3, <1>6 DEF Quiet, Extended, server
  <2>2. ASSUME Succeeded(m)', NEW n \in DOMAIN calls', calls'[m].finding \in calls'[n].answer
        PROVE  calls'[n].after < Place(m)'
    <3>1. n \in 1..Len(calls)
      BY <1>1, <1>5, <2>2
    <3>2. CASE Settled(m)
      <4>1. Succeeded(m)
        BY <1>2, <1>3, <2>2, <3>2 DEF Succeeded, Extended
      <4> QED BY <1>1, <1>3, <1>4, <2>1, <2>2, <3>1, <3>2, <4>1, PlaceKept
    <3>3. CASE ~Settled(m)
      <4>1. ~UNCHANGED answered
        BY <2>2, <3>3 DEF Succeeded, Settled
      <4>2. PICK k \in DOMAIN calls : Deliver(k)
        BY <4>1, QuietStep
      <4>3. k = m
        BY <2>2, <3>3, <4>2, DeliverStep DEF Succeeded
      <4>4. Place(m)' = Len(answered) + 1
        BY <4>2, <4>3, PlaceLast
      <4>5. calls[n].after \in Nat /\ Len(answered) \in Nat
        BY <1>1, <3>1, Counting DEF Base, CallRecords
      <4> QED BY <1>1, <2>1, <3>1, <4>4, <4>5
    <3> QED BY <3>2, <3>3
  <2> QED BY <1>3, <1>4, <2>1, <2>2
<1>7. ASSUME NEW k \in DOMAIN calls, Serve(k)
      PROVE  /\ calls'[m].finding \notin review'
             /\ Succeeded(m)' =>
                    \A n \in DOMAIN calls' :
                        calls'[m].finding \in calls'[n].answer => calls'[n].after < Place(m)'
  <2>1. /\ Len(calls') = Len(calls) /\ ~Settled(k)
        /\ \A n \in 1..Len(calls) \ {k} : calls'[n] = calls[n]
        /\ calls[k].state = "sent"
    BY <1>7, CallStep DEF Serve
  <2>2. UNCHANGED answered /\ \A n : Settled(n)' <=> Settled(n)
    BY <1>7 DEF Serve, Settled
  <2>3. /\ review' = CASE calls[k].op = "decide" -> review \ {calls[k].finding}
                        [] calls[k].op = "bulk" -> Findings
                        [] OTHER -> review
        /\ changes' = IF calls[k].op \in Writes THEN changes + 1 ELSE changes
    BY <1>7 DEF Serve
  <2>4. /\ calls'[k].at = IF calls[k].op \in Writes \cup {"vulnerabilities"} THEN changes' ELSE calls[k].at
        /\ calls'[k].answer = IF calls[k].op = "approvals" THEN review ELSE calls[k].answer
        /\ calls'[k].op = calls[k].op /\ calls'[k].after = calls[k].after
    <3>1. calls'[k] = [calls[k] EXCEPT !.state = "served",
                      !.answer = IF calls[k].op = "approvals" THEN review ELSE @,
                      !.at = IF calls[k].op \in Writes \cup {"vulnerabilities"} THEN changes' ELSE @]
      BY <1>7 DEF Serve
    <3> QED BY <1>1, <3>1 DEF CallRecords
  <2>5. CASE m = k
    <3>1. calls'[m].finding \notin review'
      BY <1>3, <2>3, <2>5
    <3>2. ~Succeeded(m)'
      BY <2>1, <2>2, <2>5 DEF Succeeded
    <3> QED BY <3>1, <3>2
  <2>6. CASE m # k
    <3>1. calls'[m] = calls[m] /\ calls[m].at \in Nat /\ calls[m].at <= changes
      BY <1>1, <1>3, <2>1, <2>6 DEF Numbered, CallRecords
    <3>2. calls[k].op # "bulk"
      <4>1. ASSUME calls[k].op = "bulk"
            PROVE  LaterBulk(m)'
        <5>1. calls'[k].op = "bulk" /\ calls'[k].at = changes + 1
          BY <2>3, <2>4, <4>1 DEF Writes
        <5>2. calls'[k].at > calls'[m].at /\ k \in DOMAIN calls'
          BY <1>1, <1>2, <2>1, <3>1, <5>1
        <5> QED BY <5>1, <5>2 DEF LaterBulk
      <4> QED BY <4>1
    <3>3. \A f \in review' : f \in review
      BY <2>3, <3>2
    <3>4. /\ calls[m].at > 0 /\ ~LaterBulk(m) /\ calls[m].finding \notin review
          /\ Succeeded(m) =>
                \A n \in DOMAIN calls :
                    calls[m].finding \in calls[n].answer => calls[n].after < Place(m)
      BY <1>4, <3>1
    <3>5. ASSUME Succeeded(m)', NEW n \in DOMAIN calls', calls'[m].finding \in calls'[n].answer
          PROVE  calls'[n].after < Place(m)'
      <4>1. Succeeded(m) /\ Place(m)' = Place(m)
        BY <2>2, <3>1, <3>5 DEF Succeeded, Place
      <4>2. n \in DOMAIN calls /\ calls'[n].after = calls[n].after
        BY <1>1, <1>2, <2>1 DEF Extended
      <4>3. calls[m].finding \in calls[n].answer
        BY <1>1, <1>3, <2>1, <2>4, <3>1, <3>4, <3>5, <4>2
      <4> QED BY <3>4, <4>1, <4>2, <4>3
    <3> QED BY <1>3, <3>3, <3>4, <3>5
  <2> QED BY <2>5, <2>6
<1> QED BY <1>6, <1>7, QuietStep

LEMMA QueueStep ==
    ASSUME Base, Base', Visited, Queue, [Next]_vars
    PROVE  Queue'
<1>1. /\ DOMAIN calls = 1..Len(calls) /\ Len(calls) \in Nat
      /\ \A n : Settled(n) => n \in 1..Len(calls)
  BY Counting DEF Base, Settled, Range
<1>2. DOMAIN calls' = 1..Len(calls') /\ Len(calls') \in Nat /\ Extended
  BY QuietStep, LenProperties DEF Base, TypeOK
<1> SUFFICES ASSUME page' = "approvals", items' # {}
             PROVE  /\ shown' # 0 /\ items' \subseteq calls'[shown'].answer
                    /\ \A m \in DOMAIN calls' :
                          m > opened' /\ Succeeded(m)' /\ calls'[m].op = "decide" /\ calls'[m].finding \in items' =>
                              Place(shown)' > Place(m)'
  BY DEF Queue
<1> DEFINE Goal == /\ shown' # 0 /\ items' \subseteq calls'[shown'].answer
                   /\ \A m \in DOMAIN calls' :
                         m > opened' /\ Succeeded(m)' /\ calls'[m].op = "decide" /\ calls'[m].finding \in items' =>
                             Place(shown)' > Place(m)'
<1>3. ASSUME page = "approvals", items' \subseteq items, shown' = shown, opened' = opened,
             \A m : m > opened /\ calls'[m].finding \in items' /\ Succeeded(m)' => Succeeded(m)
      PROVE  Goal
  <2>1. shown # 0 /\ items \subseteq calls[shown].answer /\ Settled(shown)
    BY <1>3 DEF Queue, Visited
  <2>2. calls'[shown] = calls[shown]
    BY <1>1, <1>2, <2>1 DEF Extended
  <2>3. Place(shown)' = Place(shown)
    <3>1. PICK q : q = shown
      OBVIOUS
    <3>2. Place(q)' = Place(q)
      BY <2>1, <3>1, PlaceKept
    <3> QED BY <1>3, <3>1, <3>2 DEF Place
  <2>4. ASSUME NEW m, m > opened', Succeeded(m)', calls'[m].op = "decide", calls'[m].finding \in items'
        PROVE  Place(shown)' > Place(m)'
    <3>1. Succeeded(m) /\ Settled(m) /\ m \in DOMAIN calls /\ calls'[m] = calls[m]
      BY <1>1, <1>2, <1>3, <2>4 DEF Succeeded, Extended
    <3>2. Place(shown) > Place(m)
      BY <1>3, <2>4, <3>1 DEF Queue
    <3> QED BY <2>3, <3>1, <3>2, PlaceKept
  <2> QED BY <1>3, <2>1, <2>2, <2>4
<1>4. ASSUME UNCHANGED answered
      PROVE  \A m : Succeeded(m)' => Succeeded(m)
  BY <1>1, <1>2, <1>4 DEF Succeeded, Settled, Extended
<1>5. CASE UNCHANGED vars
  BY <1>3, <1>4, <1>5 DEF vars, server, client
<1>6. CASE LogIn \/ LogOut
  BY <1>6, LeaveCases
<1>7. ASSUME NEW r \in Pages, Open(r)
      PROVE  Goal
  BY <1>7 DEF Open
<1>8. CASE Refresh
  <2>1. page = "approvals" /\ UNCHANGED <<answered, opened, items>> /\ Load(page, awaited, shown)
    BY <1>8 DEF Refresh
  <2>2. shown' = shown
    <3>1. shown \in 0..Len(calls) /\ (\A n \in awaited : n \in 1..Len(calls) /\ ~Settled(n)) /\ page \in Pages
      BY Counting DEF Base, TypeOK
    <3> QED BY <2>1, <3>1, LoadAwaits
  <2> QED BY <1>3, <1>4, <2>1, <2>2
<1>9. CASE Act
  BY <1>3, <1>4, <1>9, ActCases DEF Ask
<1>10. ASSUME NEW k \in DOMAIN calls, Serve(k) \/ Lose(k)
       PROVE  Goal
  BY <1>3, <1>4, <1>10 DEF Serve, Lose, client
<1>11. ASSUME NEW k \in DOMAIN calls, Deliver(k)
       PROVE  Goal
  <2>1. /\ UNCHANGED <<calls, opened, page>> /\ page = "approvals" /\ calls[k].state # "sent" /\ ~Settled(k)
        /\ shown' = IF k \in awaited THEN Shown(k) ELSE shown
        /\ items' = IF k \in awaited THEN Items(k) ELSE items
    BY <1>11 DEF Deliver
  <2>2. \A m : Settled(m)' <=> Settled(m) \/ m = k
    BY <1>11, DeliverStep
  <2>3. CASE k \notin awaited
    <3>1. ~(k > opened)
      BY <2>1, <2>3 DEF Visited
    <3> QED BY <1>3, <2>1, <2>2, <2>3, <3>1 DEF Succeeded
  <2>4. CASE k \in awaited /\ calls[k].op = "decide"
    <3>1. shown' = shown /\ items' \subseteq items
      BY <2>1, <2>4 DEF Shown, Items, Reads
    <3>2. calls[k].state = "served" => calls[k].finding \notin items'
      BY <2>1, <2>4 DEF Items
    <3> QED BY <1>3, <2>1, <2>2, <3>1, <3>2 DEF Succeeded
  <2>5. CASE k \in awaited /\ calls[k].op = "approvals"
    <3>1. calls[k].state # "lost" /\ items' = calls[k].answer
      BY <2>1, <2>5 DEF Items
    <3>2. shown' = k /\ k # 0
      BY <1>1, <2>1, <2>5, <3>1 DEF Shown, Reads
    <3>3. Place(shown)' = Len(answered) + 1
      BY <1>11, <3>2, PlaceLast DEF Place
    <3>4. ASSUME NEW m, Succeeded(m)', calls'[m].op = "decide"
          PROVE  Place(shown)' > Place(m)'
      <4>1. Settled(m)
        BY <2>1, <2>2, <2>5, <3>4 DEF Succeeded
      <4>2. Place(m)' = Place(m) /\ Place(m) \in 1..Len(answered) /\ Len(answered) \in Nat
        BY <4>1, Places, PlaceKept
      <4> QED BY <3>3, <4>2
    <3> QED BY <2>1, <3>1, <3>2, <3>4
  <2>6. k \in awaited => calls[k].op \in {"approvals", "decide"}
    BY <2>1 DEF Visited, OpsOf
  <2> QED BY <2>3, <2>4, <2>5, <2>6
<1> QED BY <1>5, <1>6, <1>7, <1>8, <1>9, <1>10, <1>11 DEF Next

\* What the queue shows follows from where its items and its decisions come from.
LEMMA QueueOfDecisions ==
    ASSUME Base, Numbered, Visited, Decided, Queue
    PROVE  DecidedLeavesQueue
<1>1. /\ DOMAIN calls = 1..Len(calls) /\ Len(calls) \in Nat
      /\ shown \in 0..Len(calls) /\ opened \in 0..Len(calls)
  BY Counting DEF Base, TypeOK
<1> SUFFICES ASSUME NEW m \in DOMAIN calls, page = "approvals", Succeeded(m),
                    calls[m].op = "decide", calls[m].finding \in items, ~LaterBulk(m)
             PROVE  /\ calls[shown].after < Place(m)
                    /\ Place(shown) > Place(m) \/ m <= opened
  BY DEF DecidedLeavesQueue, LaterBulk
<1>2. shown # 0 /\ calls[m].finding \in calls[shown].answer /\ shown \in DOMAIN calls
  BY <1>1 DEF Queue
<1>3. calls[m].at > 0
  BY DEF Numbered, Succeeded, Writes
<1>4. calls[shown].after < Place(m)
  BY <1>2, <1>3 DEF Decided
<1>5. m > opened => Place(shown) > Place(m)
  BY DEF Queue
<1> QED BY <1>1, <1>4, <1>5

(***************************************************************************)
(* The theorems.                                                           *)
(***************************************************************************)
LEMMA InitialBase ==
    ASSUME Init
    PROVE  /\ Base /\ Numbered /\ CacheIsFresh /\ Visited /\ LastAskedIsShown
           /\ Decided /\ Queue
<1>1. /\ calls = <<>> /\ answered = <<>> /\ Len(calls) = 0 /\ Len(answered) = 0
      /\ DOMAIN calls = {} /\ DOMAIN answered = {}
  BY DEF Init
<1>2. answered \in Seq(DOMAIN calls) /\ calls \in Seq(CallRecords) /\ IsInjective(answered)
  BY <1>1 DEF IsInjective
<1>3. TypeOK
  BY <1>1, <1>2 DEF Init, TypeOK, Pages
<1>4. Base /\ Numbered /\ CacheIsFresh
  BY <1>1, <1>3 DEF Init, Base, Numbered, CacheIsFresh
<1>5. Visited /\ Decided /\ Queue
  BY <1>1 DEF Init, Visited, Decided, Queue
<1>6. LastAskedIsShown
  BY <1>1 DEF Init, LastAskedIsShown
<1> QED BY <1>4, <1>5, <1>6

\* Every variable has its shape, no call is answered twice, and no subscription
\* waits for an answered call, whatever the pages and the network do.
THEOREM TypeCorrect == Spec => []TypeOK
<1>1. Init => Base
  BY InitialBase
<1>2. Base /\ [Next]_vars => Base'
  BY BaseStep
<1>3. Base => TypeOK
  BY DEF Base
<1> QED BY <1>1, <1>2, <1>3, PTL DEF Spec

\* The cached list is never older than a change this tab has been told of.
THEOREM CacheIsAlwaysFresh == Spec => []CacheIsFresh
<1> DEFINE Inv == Base /\ Numbered /\ CacheIsFresh
<1>1. Init => Inv
  BY InitialBase
<1>2. Inv /\ [Next]_vars => Inv'
  BY BaseStep, NumberedStep, CacheStep
<1>3. Inv => CacheIsFresh
  OBVIOUS
<1> QED BY <1>1, <1>2, <1>3, PTL DEF Spec

\* A page shows the answer to its latest request, or a later answer to an earlier one.
THEOREM LastAskedIsAlwaysShown == Spec => []LastAskedIsShown
<1> DEFINE Inv == Base /\ Visited /\ LastAskedIsShown
<1>1. Init => Inv
  BY InitialBase
<1>2. Inv /\ [Next]_vars => Inv'
  BY BaseStep, VisitedStep, LastAskedStep
<1>3. Inv => LastAskedIsShown
  OBVIOUS
<1> QED BY <1>1, <1>2, <1>3, PTL DEF Spec

\* A decided finding comes back to the queue only by a later bulk request, a list
\* asked for before the decision was answered, or a decision of an earlier visit.
THEOREM DecidedAlwaysLeavesQueue == Spec => []DecidedLeavesQueue
<1> DEFINE Inv == Base /\ Numbered /\ Visited /\ Decided /\ Queue
<1>1. Init => Inv
  BY InitialBase
<1>2. Inv /\ [Next]_vars => Inv'
  BY BaseStep, NumberedStep, VisitedStep, DecidedStep, QueueStep
<1>3. Inv => DecidedLeavesQueue
  BY QueueOfDecisions
<1> QED BY <1>1, <1>2, <1>3, PTL DEF Spec
=============================================================================
