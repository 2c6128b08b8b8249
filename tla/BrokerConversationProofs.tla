---------------------- MODULE BrokerConversationProofs ----------------------
(* What TLAPS proves of BrokerConversation, for every set of proxies,      *)
(* remote units and requests and every bound.                              *)
EXTENDS BrokerConversation, TLAPS

(***************************************************************************)
(* Type correctness.                                                       *)
(***************************************************************************)
LEMMA BeginHookTypeOK ==
  ASSUME TypeOK, NEW p \in Proxies, NEW h \in Hook, BeginHook(p, h)
  PROVE  /\ running' \in [Proxies -> Hook \union {None}]
         /\ phase' \in [Proxies -> {"idle", "run", "failed"}]
         /\ \A q \in Proxies : phase'[q] # "idle" => running'[q] \in Hook
         /\ hookConf' \in [Proxies -> 1 .. MaxConfs]
         /\ todo' \in [Proxies -> SUBSET Clients]
         /\ reading' \in [Proxies -> Fetched \union {None}]
         /\ outGiven' \in [Proxies -> [Clients -> 0 .. MaxConfs]]
         /\ outRsp' \in [Proxies -> [Clients -> Reply \union {None}]]
         /\ outLegacy' \in [Proxies -> Reply \union {None}]
<1>1. ToServe(p, h) \in SUBSET Clients
  BY DEF ToServe, Hook, RelatedUnits
<1> QED
  BY <1>1 DEF BeginHook, TypeOK

LEMMA ReplyType ==
  ASSUME NEW f \in Fetched, NEW outcome \in Outcomes
  PROVE  Answer(f, outcome) \in Reply
BY DEF Answer, Fetched, Reply

LEMMA InitTypeOK == Init => TypeOK
<1> SUFFICES ASSUME Init PROVE TypeOK
  OBVIOUS
<1>1. 1 \in 1 .. MaxConfs /\ 0 \in 0 .. MaxConfs /\ 0 \in 0 .. MaxSends
      /\ 0 \in 0 .. MaxElections /\ 0 \in 0 .. MaxFaults
  BY ConversationAssumption
<1> QED
  BY <1>1 DEF Init, TypeOK, NoSettings, NothingGiven

LEMMA StepTypeOK == TypeOK /\ [Next]_vars => TypeOK'
<1> SUFFICES ASSUME TypeOK, [Next]_vars PROVE TypeOK'
  OBVIOUS
<1> USE ConversationAssumption
<1>1. ASSUME NEW c \in Clients, SendRequestIfNeeded(c) PROVE TypeOK'
  BY <1>1 DEF SendRequestIfNeeded, TypeOK, hook
<1>2. ASSUME NEW c \in Clients, NEW r \in Requests, ChangeWant(c, r)
      PROVE TypeOK'
  BY <1>2 DEF ChangeWant, TypeOK, juju, settings, hook
<1>3. CASE Configure
  BY <1>3 DEF Configure, TypeOK, settings, hook
<1>4. ASSUME NEW p \in Proxies, ElectLeader(p) PROVE TypeOK'
  BY <1>4 DEF ElectLeader, TypeOK, settings, hook
<1>5. ASSUME NEW p \in Proxies, NEW c \in Clients, RunJoinedHook(p, c)
      PROVE TypeOK'
  <2>1. [name |-> "joined", unit |-> c] \in Hook
    BY DEF Hook
  <2> QED
    BY <1>5, <2>1, BeginHookTypeOK DEF RunJoinedHook, TypeOK, settings
<1>6. ASSUME NEW p \in Proxies, NEW c \in Clients, RunChangedHook(p, c)
      PROVE TypeOK'
  <2>1. [name |-> "changed", unit |-> c] \in Hook
    BY DEF Hook
  <2> QED
    BY <1>6, <2>1, BeginHookTypeOK DEF RunChangedHook, TypeOK, settings
<1>7. ASSUME NEW p \in Proxies, RunConfigChangedHook(p) PROVE TypeOK'
  <2>1. [name |-> "config", unit |-> None] \in Hook
    BY DEF Hook
  <2> QED
    BY <1>7, <2>1, BeginHookTypeOK DEF RunConfigChangedHook, TypeOK, settings
<1>8. ASSUME NEW p \in Proxies, RetryHook(p) PROVE TypeOK'
  <2>1. running[p] \in Hook
    BY <1>8 DEF RetryHook, TypeOK
  <2> QED
    BY <1>8, <2>1, BeginHookTypeOK DEF RetryHook, TypeOK, juju, settings
<1>9. ASSUME NEW p \in Proxies, NEW c \in Clients, FetchRequest(p, c)
      PROVE  /\ todo' \in [Proxies -> SUBSET Clients]
             /\ reading' \in [Proxies -> Fetched \union {None}]
  <2>1. req[c] # None =>
          [unit |-> c, req |-> req[c], send |-> sends[c]] \in Fetched
    BY DEF TypeOK, Fetched
  <2> QED
    BY <1>9, <2>1 DEF FetchRequest, TypeOK
<1>10. ASSUME NEW p \in Proxies, NEW c \in Clients, ProvideAccess(p, c)
       PROVE  outGiven' \in [Proxies -> [Clients -> 0 .. MaxConfs]]
  BY <1>10 DEF ProvideAccess, TypeOK
<1>11. ASSUME NEW p \in Proxies, NEW c \in Clients, ClientRelationJoined(p, c)
       PROVE TypeOK'
  BY <1>9, <1>10, <1>11 DEF ClientRelationJoined, TypeOK, juju, settings
<1>12. ASSUME NEW p \in Proxies, NEW c \in Clients, ClientRelationChanged(p, c)
       PROVE TypeOK'
  <2>1. CASE leader = p
    BY <1>9, <1>12, <2>1 DEF ClientRelationChanged, TypeOK, juju, settings
  <2>2. CASE leader # p
    <3>1. todo' \in [Proxies -> SUBSET Clients]
      <4>1. todo' = [todo EXCEPT ![p] = @ \ {c}]
        BY <1>12, <2>2 DEF ClientRelationChanged
      <4>2. todo \in [Proxies -> SUBSET Clients]
        BY DEF TypeOK
      <4> QED
        BY <4>1, <4>2
    <3>2. reading' = reading
      BY <1>12, <2>2 DEF ClientRelationChanged
    <3> QED
      BY <1>12, <3>1, <3>2 DEF ClientRelationChanged, TypeOK, juju, settings
  <2> QED
    BY <2>1, <2>2
<1>13. ASSUME NEW p \in Proxies, NEW c \in Clients, RadosgwRelation(p, c)
       PROVE TypeOK'
  BY <1>9, <1>10, <1>13 DEF RadosgwRelation, TypeOK, juju, settings
<1>14. ASSUME NEW p \in Proxies, NEW c \in Clients, MdsRelationJoined(p, c)
       PROVE TypeOK'
  BY <1>9, <1>10, <1>14 DEF MdsRelationJoined, TypeOK, juju, settings
<1>15. ASSUME NEW p \in Proxies, NEW o \in Outcomes, ProcessRequests(p, o)
       PROVE TypeOK'
  <2>1. reading[p] \in Fetched
    BY <1>15 DEF ProcessRequests, TypeOK
  <2>2. Answer(reading[p], o) \in Reply
    BY <2>1, ReplyType
  <2>3. <<p, reading[p].unit, reading[p].req>>
          \in Proxies \X Clients \X Requests
    BY <2>1 DEF Fetched
  <2>4. reading[p].unit \in Clients
    BY <2>1 DEF Fetched
  <2> QED
    BY <1>15, <2>2, <2>3, <2>4 DEF ProcessRequests, TypeOK, juju, settings
<1>16. ASSUME NEW p \in Proxies, ClearOutput(p)
       PROVE  /\ outGiven' \in [Proxies -> [Clients -> 0 .. MaxConfs]]
              /\ outRsp' \in [Proxies -> [Clients -> Reply \union {None}]]
              /\ outLegacy' \in [Proxies -> Reply \union {None}]
  BY <1>16 DEF ClearOutput, TypeOK, NothingGiven, NoSettings
<1>17. ASSUME NEW p \in Proxies, EndHook(p) PROVE TypeOK'
  <2>1. given' \in [Proxies -> [Clients -> 0 .. MaxConfs]]
    BY <1>17 DEF EndHook, Published, TypeOK
  <2>2. rsp' \in [Proxies -> [Clients -> Reply \union {None}]]
    BY <1>17 DEF EndHook, Published, TypeOK
  <2>3. legacyRsp' \in [Proxies -> Reply \union {None}]
    BY <1>17 DEF EndHook, Published, TypeOK
  <2> QED
    BY <1>16, <1>17, <2>1, <2>2, <2>3 DEF EndHook, TypeOK, juju
<1>18. ASSUME NEW p \in Proxies, FailHook(p) PROVE TypeOK'
  BY <1>16, <1>18 DEF FailHook, TypeOK, juju, settings
<1>19. CASE UNCHANGED vars
  BY <1>19 DEF vars, juju, settings, hook, TypeOK
<1> QED
  BY <1>1, <1>2, <1>3, <1>4, <1>5, <1>6, <1>7, <1>8, <1>11, <1>12, <1>13,
     <1>14, <1>15, <1>17, <1>18, <1>19
  DEF Next, Uniter, StartHook, ServeUnit, ProcessSome

\* Every variable keeps its type.
THEOREM TypeCorrect == Spec => []TypeOK
BY InitTypeOK, StepTypeOK, PTL DEF Spec

-----------------------------------------------------------------------------
(***************************************************************************)
(* Completion is earned.  The strengthening follows an answer from         *)
(* process_requests through the hook's output to the proxy's settings: at  *)
(* each of those places exit code 0 means an execution of that request for *)
(* that unit, and the shared broker_rsp is never a nameless success.       *)
(***************************************************************************)
Earned(p, c, a) ==
  a # None /\ a.code = 0 => a.id # None /\ <<p, c, a.id>> \in acked

Named(a) == a # None /\ a.code = 0 => a.id # None

EarnedInv ==
  /\ \A p \in Proxies, c \in Clients :
       Earned(p, c, rsp[p][c]) /\ Earned(p, c, outRsp[p][c])
  /\ \A p \in Proxies : Named(legacyRsp[p]) /\ Named(outLegacy[p])

\* Steps that touch no answer keep the invariant.
LEMMA EarnedUnchanged ==
  ASSUME EarnedInv, UNCHANGED <<rsp, outRsp, legacyRsp, outLegacy, acked>>
  PROVE  EarnedInv'
BY DEF EarnedInv, Earned, Named

\* Nor does a step that drops the output of one hook.
LEMMA EarnedCleared ==
  ASSUME TypeOK, EarnedInv, NEW p \in Proxies, ClearOutput(p),
         UNCHANGED <<rsp, legacyRsp, acked>>
  PROVE  EarnedInv'
<1>1. \A q \in Proxies, c \in Clients :
        outRsp'[q][c] = outRsp[q][c] \/ outRsp'[q][c] = None
  BY DEF ClearOutput, NoSettings, TypeOK
<1>2. \A q \in Proxies :
        outLegacy'[q] = outLegacy[q] \/ outLegacy'[q] = None
  BY DEF ClearOutput, TypeOK
<1> QED
  BY <1>1, <1>2 DEF EarnedInv, Earned, Named

LEMMA ProcessEarned ==
  ASSUME TypeOK, EarnedInv, NEW p \in Proxies, NEW o \in Outcomes,
         ProcessRequests(p, o)
  PROVE  EarnedInv'
<1> DEFINE f == reading[p]
           a == Answer(f, o)
<1>1. f \in Fetched
  BY DEF ProcessRequests, TypeOK
<1>2. f.unit \in Clients /\ f.req \in Requests /\ f.req # None
  BY <1>1, NoneAssumption DEF Fetched
<1>3. acked \subseteq acked'
  BY DEF ProcessRequests
<1>4. /\ a # None /\ a.code = 0 =>
           a.id # None /\ <<p, f.unit, a.id>> \in acked'
      /\ Named(a)
  <2>1. CASE o = "ok"
    BY <1>2, <2>1 DEF ProcessRequests, Answer, Named
  <2>2. CASE o # "ok"
    BY <2>2 DEF Answer, Named
  <2> QED
    BY <2>1, <2>2
<1>5. ASSUME NEW q \in Proxies, NEW c \in Clients
      PROVE  Earned(q, c, rsp[q][c])' /\ Earned(q, c, outRsp[q][c])'
  <2>1. Earned(q, c, rsp[q][c])'
    BY <1>3 DEF ProcessRequests, EarnedInv, Earned, settings
  <2>2. CASE q = p /\ c = f.unit
    <3>1. outRsp'[q][c] = a
      BY <2>2 DEF ProcessRequests, TypeOK
    <3> QED
      BY <1>4, <2>1, <2>2, <3>1 DEF Earned
  <2>3. CASE ~ (q = p /\ c = f.unit)
    <3>1. outRsp'[q][c] = outRsp[q][c]
      BY <2>3 DEF ProcessRequests, TypeOK
    <3> QED
      BY <1>3, <2>1, <3>1 DEF EarnedInv, Earned
  <2> QED
    BY <2>2, <2>3
<1>6. ASSUME NEW q \in Proxies
      PROVE  Named(legacyRsp[q])' /\ Named(outLegacy[q])'
  <2>1. legacyRsp' = legacyRsp
    BY DEF ProcessRequests, settings
  <2>2. outLegacy'[q] = outLegacy[q] \/ outLegacy'[q] = a
    BY DEF ProcessRequests, TypeOK
  <2> QED
    BY <1>4, <2>1, <2>2 DEF EarnedInv, Named
<1> QED
  BY <1>5, <1>6 DEF EarnedInv

LEMMA EndEarned ==
  ASSUME TypeOK, EarnedInv, NEW p \in Proxies, EndHook(p)
  PROVE  EarnedInv'
<1>1. ASSUME NEW q \in Proxies, NEW c \in Clients
      PROVE  /\ rsp'[q][c] \in {rsp[q][c], outRsp[q][c]}
             /\ outRsp'[q][c] \in {None, outRsp[q][c]}
  BY DEF EndHook, ClearOutput, Published, NoSettings, TypeOK
<1>2. ASSUME NEW q \in Proxies
      PROVE  /\ legacyRsp'[q] \in {legacyRsp[q], outLegacy[q]}
             /\ outLegacy'[q] \in {None, outLegacy[q]}
  BY DEF EndHook, ClearOutput, Published, TypeOK
<1>3. acked' = acked
  BY DEF EndHook
<1>4. ASSUME NEW q \in Proxies, NEW c \in Clients
      PROVE  Earned(q, c, rsp[q][c])' /\ Earned(q, c, outRsp[q][c])'
  BY <1>1, <1>3 DEF EarnedInv, Earned
<1>5. ASSUME NEW q \in Proxies
      PROVE  Named(legacyRsp[q])' /\ Named(outLegacy[q])'
  BY <1>2 DEF EarnedInv, Named
<1> QED
  BY <1>4, <1>5 DEF EarnedInv

LEMMA InitEarned == Init => EarnedInv
BY DEF Init, EarnedInv, Earned, Named, NoSettings

LEMMA StepEarned == TypeOK /\ EarnedInv /\ [Next]_vars => EarnedInv'
<1> SUFFICES ASSUME TypeOK, EarnedInv, [Next]_vars PROVE EarnedInv'
  OBVIOUS
<1>1. CASE \E c \in Clients : SendRequestIfNeeded(c)
  BY <1>1, EarnedUnchanged DEF SendRequestIfNeeded, hook
<1>2. CASE \E c \in Clients, r \in Requests : ChangeWant(c, r)
  BY <1>2, EarnedUnchanged DEF ChangeWant, settings, hook
<1>3. CASE Configure
  BY <1>3, EarnedUnchanged DEF Configure, settings, hook
<1>4. CASE \E p \in Proxies : ElectLeader(p)
  BY <1>4, EarnedUnchanged DEF ElectLeader, settings, hook
<1>5. CASE \E p \in Proxies : StartHook(p)
  BY <1>5, EarnedUnchanged
  DEF StartHook, RunJoinedHook, RunChangedHook, RunConfigChangedHook,
      RetryHook, BeginHook, settings
<1>6. CASE \E p \in Proxies : ServeUnit(p)
  BY <1>6, EarnedUnchanged
  DEF ServeUnit, ClientRelationJoined, ClientRelationChanged,
      RadosgwRelation, MdsRelationJoined, settings
<1>7. CASE \E p \in Proxies : ProcessSome(p)
  BY <1>7, ProcessEarned DEF ProcessSome
<1>8. CASE \E p \in Proxies : EndHook(p)
  BY <1>8, EndEarned
<1>9. CASE \E p \in Proxies : FailHook(p)
  BY <1>9, EarnedCleared DEF FailHook, settings
<1>10. CASE UNCHANGED vars
  BY <1>10, EarnedUnchanged DEF vars, settings, hook
<1> QED
  BY <1>1, <1>2, <1>3, <1>4, <1>5, <1>6, <1>7, <1>8, <1>9, <1>10
  DEF Next, Uniter

LEMMA EarnedSuffices == EarnedInv => CompletionIsEarned
BY DEF EarnedInv, Earned, Named, CompletionIsEarned, IsRequestComplete,
       AnsweredBy

\* A unit takes its request for complete only when some proxy carried out
\* exactly that request for it with exit code 0.
THEOREM CompletionEarned == Spec => []CompletionIsEarned
<1>1. Init => TypeOK /\ EarnedInv
  BY InitTypeOK, InitEarned
<1>2. TypeOK /\ EarnedInv /\ [Next]_vars => (TypeOK /\ EarnedInv)'
  BY StepTypeOK, StepEarned
<1>3. TypeOK /\ EarnedInv => CompletionIsEarned
  BY EarnedSuffices
<1> QED
  BY <1>1, <1>2, <1>3, PTL DEF Spec
=============================================================================
