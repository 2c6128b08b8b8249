--------------------- MODULE BrokerConversationSettled ----------------------
(***************************************************************************)
(* That a proxy with no hook left to run has served its units, and that    *)
(* settings never go back: the inductive invariant and its proof.          *)
(*                                                                         *)
(* SettledUnitIsServed speaks of an idle proxy only.  The strengthening    *)
(* says where the promise is while the proxy is busy: in the settings, in  *)
(* the output of the running hook, in the request it is processing, in     *)
(* what it still has to serve, or in the failed hook that will be run      *)
(* again.                                                                  *)
(***************************************************************************)
EXTENDS BrokerConversationProofs

\* The running hook is about c.
InScope(p, c) == running[p].name = "config" \/ running[p].unit = c

\* A client unit's changed hook publishes answers and no access data.
GivesAccess(p, c) == running[p].name # "changed" \/ Kind[c] # "client"

\* This proxy answers the requests of c.
Responsible(p, c) == Kind[c] = "client" => elections = 0 /\ p = leader

Reads(p, c) == reading[p] # None /\ reading[p].unit = c

Touches(p, c) ==
  c \in todo[p] \/ Reads(p, c) \/ outGiven[p][c] # 0 \/ outRsp[p][c] # None

\* Only a running hook has work and output, and only for units it is about.
HookInv(p) ==
  /\ phase[p] # "run" => \A c \in Clients : ~ Touches(p, c)
  /\ phase[p] = "run" => \A c \in Clients : Touches(p, c) => InScope(p, c)
  /\ phase[p] = "run" /\ p \notin confDue => hookConf[p] = conf
  /\ hookConf[p] <= conf
  /\ \A c \in Clients :
       /\ given[p][c] <= hookConf[p]
       /\ outGiven[p][c] # 0 => outGiven[p][c] = hookConf[p] /\ GivesAccess(p, c)

\* Answers are ordered: published, then output, then the request in work.
OrderInv(p, c) ==
  /\ rsp[p][c] # None => rsp[p][c].send <= sends[c]
  /\ outRsp[p][c] # None =>
       /\ outRsp[p][c].send <= sends[c]
       /\ rsp[p][c] # None => rsp[p][c].send <= outRsp[p][c].send
  /\ Reads(p, c) =>
       /\ reading[p].send <= sends[c]
       /\ rsp[p][c] # None => rsp[p][c].send <= reading[p].send
       /\ outRsp[p][c] # None => outRsp[p][c].send <= reading[p].send

WillGive(p, c) ==
  \/ given[p][c] = conf
  \/ outGiven[p][c] = conf
  \/ c \in todo[p] /\ GivesAccess(p, c)
  \/ phase[p] = "failed" /\ InScope(p, c) /\ GivesAccess(p, c)

WillAnswer(p, c) ==
  \/ AnsweredLast(p, c)
  \/ outRsp[p][c] # None /\ outRsp[p][c].send = sends[c]
  \/ Reads(p, c) /\ reading[p].send = sends[c]
  \/ c \in todo[p]
  \/ phase[p] = "failed" /\ InScope(p, c)

PromiseInv(p, c) ==
  c \notin newUnits[p] /\ p \notin confDue /\ Ready(conf) =>
    /\ WillGive(p, c)
    /\ c \notin changed[p] /\ req[c] # None /\ Responsible(p, c)
         => WillAnswer(p, c)

ProxyInv(p) ==
  HookInv(p) /\ \A c \in Clients : OrderInv(p, c) /\ PromiseInv(p, c)

SettledInv == \A p \in Proxies : ProxyInv(p)

-----------------------------------------------------------------------------
\* Everything the invariant says of q stays as it is.
Same(q) ==
  /\ newUnits'[q] = newUnits[q]
  /\ changed'[q] = changed[q]
  /\ (q \in confDue') = (q \in confDue)
  /\ given'[q] = given[q]
  /\ rsp'[q] = rsp[q]
  /\ running'[q] = running[q]
  /\ phase'[q] = phase[q]
  /\ hookConf'[q] = hookConf[q]
  /\ todo'[q] = todo[q]
  /\ reading'[q] = reading[q]
  /\ outGiven'[q] = outGiven[q]
  /\ outRsp'[q] = outRsp[q]

\* Steps of one proxy leave the others alone.
LEMMA Frame ==
  ASSUME NEW q \in Proxies, ProxyInv(q), Same(q),
         UNCHANGED <<conf, leader, elections, req, sends>>
  PROVE  ProxyInv(q)'
<1>1. HookInv(q)'
  BY DEF ProxyInv, HookInv, Same, Touches, Reads, InScope, GivesAccess
<1>2. \A c \in Clients : OrderInv(q, c)'
  BY DEF ProxyInv, OrderInv, Same, Reads
<1>3. ASSUME NEW c \in Clients PROVE PromiseInv(q, c)'
  BY DEF ProxyInv, PromiseInv, Same, WillGive, WillAnswer, Reads, InScope,
         GivesAccess, Responsible, AnsweredLast
<1> QED
  BY <1>1, <1>2, <1>3 DEF ProxyInv

LEMMA InitSettled == Init => SettledInv
<1> SUFFICES ASSUME Init, NEW p \in Proxies PROVE ProxyInv(p)
  BY DEF SettledInv
<1>1. HookInv(p)
  BY ConversationAssumption
  DEF Init, HookInv, Touches, Reads, NoSettings, NothingGiven
<1>2. ASSUME NEW c \in Clients PROVE OrderInv(p, c) /\ PromiseInv(p, c)
  BY DEF Init, OrderInv, PromiseInv, Reads, NoSettings
<1> QED
  BY <1>1, <1>2 DEF ProxyInv

LEMMA SendSettled ==
  ASSUME TypeOK, SettledInv, NEW d \in Clients, SendRequestIfNeeded(d)
  PROVE  SettledInv'
<1> SUFFICES ASSUME NEW p \in Proxies PROVE ProxyInv(p)'
  BY DEF SettledInv
<1> USE DEF SettledInv, ProxyInv
<1>1. HookInv(p)'
  BY DEF SendRequestIfNeeded, hook, HookInv, Touches, Reads, InScope,
         GivesAccess
<1>2. ASSUME NEW c \in Clients PROVE OrderInv(p, c)'
  <2>1. sends[c] \in Nat /\ sends'[c] \in {sends[c], sends[c] + 1}
    BY ConversationAssumption DEF SendRequestIfNeeded, TypeOK
  <2>2. rsp[p][c] # None => rsp[p][c].send \in Nat
    BY ConversationAssumption DEF TypeOK, Reply
  <2>3. outRsp[p][c] # None => outRsp[p][c].send \in Nat
    BY ConversationAssumption DEF TypeOK, Reply
  <2>4. reading[p] # None => reading[p].send \in Nat
    BY ConversationAssumption DEF TypeOK, Fetched
  <2>5. UNCHANGED <<rsp, outRsp, reading>>
    BY DEF SendRequestIfNeeded, hook
  <2> QED
    BY <2>1, <2>2, <2>3, <2>4, <2>5 DEF OrderInv, Reads
<1>3. ASSUME NEW c \in Clients PROVE PromiseInv(p, c)'
  <2>1. CASE c = d
    <3>1. c \in changed'[p]
      BY <2>1 DEF SendRequestIfNeeded
    <3> QED
      BY <3>1 DEF SendRequestIfNeeded, PromiseInv, WillGive, hook, InScope,
                  GivesAccess
  <2>2. CASE c # d
    <3>1. sends'[c] = sends[c] /\ req'[c] = req[c]
      BY <2>2 DEF SendRequestIfNeeded, TypeOK
    <3>2. c \in changed[p] => c \in changed'[p]
      BY DEF SendRequestIfNeeded
    <3> QED
      BY <3>1, <3>2
      DEF SendRequestIfNeeded, PromiseInv, WillGive, WillAnswer, hook,
          InScope, GivesAccess, Responsible, Reads, AnsweredLast
  <2> QED
    BY <2>1, <2>2
<1> QED
  BY <1>1, <1>2, <1>3

LEMMA ConfigureSettled ==
  ASSUME TypeOK, SettledInv, Configure
  PROVE  SettledInv'
<1> SUFFICES ASSUME NEW p \in Proxies PROVE ProxyInv(p)'
  BY DEF SettledInv
<1> USE DEF SettledInv, ProxyInv
<1>1. p \in confDue'
  BY DEF Configure
<1>2. conf \in Nat /\ conf' = conf + 1 /\ hookConf[p] \in Nat
  BY ConversationAssumption DEF Configure, TypeOK
<1>3. HookInv(p)'
  BY <1>1, <1>2 DEF Configure, settings, hook, HookInv, Touches, Reads,
                    InScope, GivesAccess
<1>4. ASSUME NEW c \in Clients PROVE OrderInv(p, c)' /\ PromiseInv(p, c)'
  BY <1>1 DEF Configure, settings, hook, OrderInv, PromiseInv, Reads
<1> QED
  BY <1>3, <1>4

LEMMA ElectSettled ==
  ASSUME TypeOK, SettledInv, NEW l \in Proxies, ElectLeader(l)
  PROVE  SettledInv'
<1> SUFFICES ASSUME NEW p \in Proxies PROVE ProxyInv(p)'
  BY DEF SettledInv
<1> USE DEF SettledInv, ProxyInv
<1>1. elections' # 0
  BY ConversationAssumption DEF ElectLeader, TypeOK
<1>2. HookInv(p)'
  BY DEF ElectLeader, settings, hook, HookInv, Touches, Reads, InScope,
         GivesAccess
<1>3. ASSUME NEW c \in Clients PROVE OrderInv(p, c)' /\ PromiseInv(p, c)'
  <2>1. OrderInv(p, c)'
    BY DEF ElectLeader, settings, hook, OrderInv, Reads
  <2>2. Responsible(p, c)' => Responsible(p, c)
    BY <1>1 DEF Responsible
  <2> QED
    BY <2>1, <2>2
    DEF ElectLeader, settings, hook, PromiseInv, WillGive, WillAnswer, Reads,
        InScope, GivesAccess, AnsweredLast
<1> QED
  BY <1>2, <1>3

-----------------------------------------------------------------------------
(* A hook starts: what was due moves to what is left to serve.             *)

LEMMA Begun ==
  ASSUME TypeOK, NEW p \in Proxies, NEW h \in Hook, BeginHook(p, h)
  PROVE  /\ running'[p] = h
         /\ phase'[p] = "run"
         /\ hookConf'[p] = conf
         /\ todo'[p] = ToServe(p, h)
         /\ UNCHANGED <<reading, outGiven, outRsp>>
BY DEF BeginHook, TypeOK

LEMMA BegunHookInv ==
  ASSUME TypeOK, NEW p \in Proxies, ProxyInv(p), NEW h \in Hook,
         BeginHook(p, h), phase[p] # "run", UNCHANGED <<conf, settings>>
  PROVE  HookInv(p)' /\ \A c \in Clients : OrderInv(p, c)'
<1>0. /\ running'[p] = h
      /\ phase'[p] = "run"
      /\ hookConf'[p] = conf
      /\ todo'[p] = ToServe(p, h)
      /\ UNCHANGED <<reading, outGiven, outRsp>>
  BY Begun
<1>1. ASSUME NEW c \in Clients
      PROVE  ~ Reads(p, c)' /\ outGiven'[p][c] = 0 /\ outRsp'[p][c] = None
  BY <1>0 DEF ProxyInv, HookInv, Touches, Reads
<1>2. ASSUME NEW c \in Clients, c \in todo'[p] PROVE InScope(p, c)'
  BY <1>0, <1>2 DEF ToServe, InScope
<1>3. ASSUME NEW c \in Clients PROVE given'[p][c] <= hookConf'[p]
  <2>1. given[p][c] <= hookConf[p] /\ hookConf[p] <= conf
    BY DEF ProxyInv, HookInv
  <2>2. given[p][c] \in Nat /\ hookConf[p] \in Nat /\ conf \in Nat
    BY ConversationAssumption DEF TypeOK
  <2> QED
    BY <1>0, <2>1, <2>2 DEF settings
<1>4. hookConf'[p] <= conf'
  BY <1>0, ConversationAssumption DEF TypeOK
<1>5. HookInv(p)'
  BY <1>0, <1>1, <1>2, <1>3, <1>4 DEF HookInv, Touches
<1>6. ASSUME NEW c \in Clients PROVE OrderInv(p, c)'
  BY <1>1 DEF ProxyInv, OrderInv, settings
<1> QED
  BY <1>5, <1>6

\* An idle proxy keeps its promises in its settings.
LEMMA IdlePromise ==
  ASSUME TypeOK, NEW p \in Proxies, ProxyInv(p), phase[p] = "idle",
         NEW c \in Clients, c \notin newUnits[p], p \notin confDue, Ready(conf)
  PROVE  /\ given[p][c] = conf
         /\ c \notin changed[p] /\ req[c] # None /\ Responsible(p, c)
              => AnsweredLast(p, c)
<1>1. ~ Touches(p, c)
  BY DEF ProxyInv, HookInv
<1>2. conf # 0
  BY ConversationAssumption DEF TypeOK
<1> QED
  BY <1>1, <1>2 DEF ProxyInv, PromiseInv, WillGive, WillAnswer, Touches

\* Settings and the state of the model that promises depend on.
LEMMA KeptPromise ==
  ASSUME NEW p \in Proxies, NEW c \in Clients,
         UNCHANGED <<conf, leader, elections, settings>>
  PROVE  /\ given'[p][c] = conf' <=> given[p][c] = conf
         /\ Responsible(p, c)' <=> Responsible(p, c)
         /\ AnsweredLast(p, c)' <=> AnsweredLast(p, c)
         /\ req'[c] = req[c]
BY DEF Responsible, AnsweredLast, settings

LEMMA JoinedSettled ==
  ASSUME TypeOK, NEW p \in Proxies, ProxyInv(p),
         NEW d \in Clients, RunJoinedHook(p, d)
  PROVE  ProxyInv(p)'
<1> DEFINE h == [name |-> "joined", unit |-> d]
<1>1. h \in Hook /\ BeginHook(p, h)
  BY DEF Hook, RunJoinedHook
<1>2. HookInv(p)' /\ \A c \in Clients : OrderInv(p, c)'
  BY <1>1, BegunHookInv DEF RunJoinedHook
<1>3. running'[p] = h /\ todo'[p] = ToServe(p, h)
  BY <1>1, Begun
<1>4. ASSUME NEW c \in Clients, c \notin newUnits'[p], p \notin confDue',
             Ready(conf)'
      PROVE  /\ WillGive(p, c)'
             /\ c \notin changed'[p] /\ req'[c] # None /\ Responsible(p, c)'
                  => WillAnswer(p, c)'
  <2>1. CASE c = d
    <3>1. c \in todo'[p] /\ running'[p].name = "joined"
      BY <1>4, <1>3, <2>1 DEF ToServe, RunJoinedHook, Ready
    <3> QED
      BY <3>1 DEF WillGive, WillAnswer, GivesAccess
  <2>2. CASE c # d
    <3>1. c \notin newUnits[p] /\ p \notin confDue /\ Ready(conf)
      BY <1>4, <2>2 DEF RunJoinedHook, TypeOK, Ready
    <3> QED
      BY <3>1, IdlePromise, KeptPromise
      DEF RunJoinedHook, WillGive, WillAnswer
  <2> QED
    BY <2>1, <2>2
<1> QED
  BY <1>2, <1>4 DEF ProxyInv, PromiseInv

LEMMA ChangedSettled ==
  ASSUME TypeOK, NEW p \in Proxies, ProxyInv(p),
         NEW d \in Clients, RunChangedHook(p, d)
  PROVE  ProxyInv(p)'
<1> DEFINE h == [name |-> "changed", unit |-> d]
<1>1. h \in Hook /\ BeginHook(p, h)
  BY DEF Hook, RunChangedHook
<1>2. HookInv(p)' /\ \A c \in Clients : OrderInv(p, c)'
  BY <1>1, BegunHookInv DEF RunChangedHook
<1>3. running'[p] = h /\ todo'[p] = ToServe(p, h)
  BY <1>1, Begun
<1>4. ASSUME NEW c \in Clients, c \notin newUnits'[p], p \notin confDue',
             Ready(conf)'
      PROVE  /\ WillGive(p, c)'
             /\ c \notin changed'[p] /\ req'[c] # None /\ Responsible(p, c)'
                  => WillAnswer(p, c)'
  <2>1. c \notin newUnits[p] /\ p \notin confDue /\ Ready(conf)
    BY <1>4 DEF RunChangedHook, Ready
  <2>2. WillGive(p, c)'
    BY <2>1, IdlePromise, KeptPromise DEF RunChangedHook, WillGive
  <2>3. CASE c = d
    <3>1. c \in todo'[p]
      BY <1>4, <1>3, <2>3 DEF ToServe, RunChangedHook, Ready
    <3> QED
      BY <2>2, <3>1 DEF WillAnswer
  <2>4. CASE c # d
    <3>1. c \notin changed'[p] => c \notin changed[p]
      BY <2>4 DEF RunChangedHook, TypeOK
    <3> QED
      BY <2>1, <2>2, <3>1, IdlePromise, KeptPromise
      DEF RunChangedHook, WillAnswer
  <2> QED
    BY <2>3, <2>4
<1> QED
  BY <1>2, <1>4 DEF ProxyInv, PromiseInv

LEMMA ConfigChangedSettled ==
  ASSUME TypeOK, NEW p \in Proxies, ProxyInv(p), RunConfigChangedHook(p)
  PROVE  ProxyInv(p)'
<1> DEFINE h == [name |-> "config", unit |-> None]
<1>1. h \in Hook /\ BeginHook(p, h)
  BY DEF Hook, RunConfigChangedHook
<1>2. HookInv(p)' /\ \A c \in Clients : OrderInv(p, c)'
  BY <1>1, BegunHookInv DEF RunConfigChangedHook
<1>3. running'[p] = h /\ todo'[p] = ToServe(p, h)
  BY <1>1, Begun
<1>4. ASSUME NEW c \in Clients, c \notin newUnits'[p], Ready(conf)'
      PROVE  WillGive(p, c)' /\ WillAnswer(p, c)'
  <2>1. c \in todo'[p] /\ running'[p].name = "config"
    BY <1>4, <1>3
    DEF ToServe, RelatedUnits, RunConfigChangedHook, Ready
  <2> QED
    BY <2>1 DEF WillGive, WillAnswer, GivesAccess
<1> QED
  BY <1>2, <1>4 DEF ProxyInv, PromiseInv

LEMMA RetrySettled ==
  ASSUME TypeOK, NEW p \in Proxies, ProxyInv(p), RetryHook(p)
  PROVE  ProxyInv(p)'
<1> DEFINE h == running[p]
<1>1. h \in Hook /\ BeginHook(p, h) /\ phase[p] = "failed"
  BY DEF RetryHook, TypeOK
<1>2. HookInv(p)' /\ \A c \in Clients : OrderInv(p, c)'
  BY <1>1, BegunHookInv DEF RetryHook, juju
<1>3. running'[p] = h /\ todo'[p] = ToServe(p, h)
  BY <1>1, Begun
<1>4. ASSUME NEW c \in Clients, c \notin newUnits'[p], p \notin confDue',
             Ready(conf)'
      PROVE  /\ WillGive(p, c)'
             /\ c \notin changed'[p] /\ req'[c] # None /\ Responsible(p, c)'
                  => WillAnswer(p, c)'
  <2>1. c \notin newUnits[p] /\ p \notin confDue /\ Ready(conf)
    BY <1>4 DEF RetryHook, juju, Ready
  <2>2. running'[p] = running[p]
    BY <1>3
  <2>3. InScope(p, c) => c \in todo'[p]
    BY <1>1, <1>3, <2>1 DEF InScope, ToServe, RelatedUnits, Hook
  <2>4. ~ Touches(p, c)
    BY <1>1 DEF ProxyInv, HookInv
  <2>5. conf # 0
    BY ConversationAssumption DEF TypeOK
  <2>6. WillGive(p, c)'
    <3>1. given[p][c] = conf \/ (InScope(p, c) /\ GivesAccess(p, c))
      BY <2>1, <2>4, <2>5 DEF ProxyInv, PromiseInv, WillGive, Touches
    <3>2. GivesAccess(p, c)' <=> GivesAccess(p, c)
      BY <2>2 DEF GivesAccess
    <3> QED
      BY <2>3, <3>1, <3>2, KeptPromise DEF RetryHook, juju, WillGive
  <2>7. ASSUME c \notin changed'[p], req'[c] # None, Responsible(p, c)'
        PROVE  WillAnswer(p, c)'
    <3>1. c \notin changed[p] /\ req[c] # None /\ Responsible(p, c)
      BY <2>7, KeptPromise DEF RetryHook, juju
    <3>2. AnsweredLast(p, c) \/ InScope(p, c)
      BY <2>1, <2>4, <3>1 DEF ProxyInv, PromiseInv, WillAnswer, Touches
    <3> QED
      BY <2>3, <3>2, KeptPromise DEF RetryHook, juju, WillAnswer
  <2> QED
    BY <2>6, <2>7
<1> QED
  BY <1>2, <1>4 DEF ProxyInv, PromiseInv

-----------------------------------------------------------------------------
(* A handler serves one unit.                                              *)

Fetch(d) ==
  IF req[d] = None THEN None
  ELSE [unit |-> d, req |-> req[d], send |-> sends[d]]

\* What the four handlers have in common: access data unless it is a client
\* unit's changed hook, and the request unless the proxy is not responsible.
LEMMA ServeSettled ==
  ASSUME TypeOK, NEW p \in Proxies, ProxyInv(p), NEW d \in Clients,
         Serves(p, d),
         UNCHANGED <<juju, settings, running, phase, hookConf, outRsp>>,
         todo'[p] = todo[p] \ {d},
         \/ outGiven'[p] = outGiven[p] /\ ~ GivesAccess(p, d)
         \/ /\ outGiven'[p] = [outGiven[p] EXCEPT ![d] = hookConf[p]]
            /\ GivesAccess(p, d),
         \/ reading'[p] = reading[p] /\ ~ Responsible(p, d)
         \/ reading'[p] = Fetch(d)
  PROVE  ProxyInv(p)'
<1>1. phase[p] = "run" /\ reading[p] = None /\ d \in todo[p]
  BY DEF Serves
<1>2. InScope(p, d) /\ hookConf[p] # 0
  BY <1>1, ConversationAssumption
  DEF ProxyInv, HookInv, Touches, TypeOK
<1>3. ASSUME NEW c \in Clients
      PROVE  /\ c # d => outGiven'[p][c] = outGiven[p][c]
             /\ outGiven'[p][d] \in {outGiven[p][d], hookConf[p]}
             /\ GivesAccess(p, d) => outGiven'[p][d] = hookConf[p]
             /\ ~ GivesAccess(p, d) => outGiven'[p][d] = outGiven[p][d]
  BY DEF TypeOK
<1>4. ASSUME NEW c \in Clients
      PROVE  Reads(p, c)' => c = d /\ reading'[p].send = sends[c]
  BY <1>1 DEF Reads, Fetch
<1>5. ASSUME NEW c \in Clients
      PROVE  /\ InScope(p, c)' <=> InScope(p, c)
             /\ GivesAccess(p, c)' <=> GivesAccess(p, c)
  BY DEF InScope, GivesAccess
<1>6. HookInv(p)'
  <2>1. ASSUME NEW c \in Clients, Touches(p, c)' PROVE InScope(p, c)'
    BY <1>1, <1>2, <1>3, <1>4, <1>5, <2>1
    DEF ProxyInv, HookInv, Touches
  <2>2. ASSUME NEW c \in Clients, outGiven'[p][c] # 0
        PROVE  outGiven'[p][c] = hookConf'[p] /\ GivesAccess(p, c)'
    <3>1. CASE c = d
      BY <1>3, <1>5, <2>2, <3>1 DEF ProxyInv, HookInv
    <3>2. CASE c # d
      BY <1>3, <1>5, <2>2, <3>2 DEF ProxyInv, HookInv
    <3> QED
      BY <3>1, <3>2
  <2> QED
    BY <1>1, <2>1, <2>2 DEF ProxyInv, HookInv, juju, settings
<1>7. ASSUME NEW c \in Clients PROVE OrderInv(p, c)'
  <2>1. /\ rsp[p][c] # None => rsp[p][c].send <= sends[c]
        /\ outRsp[p][c] # None =>
             /\ outRsp[p][c].send <= sends[c]
             /\ rsp[p][c] # None => rsp[p][c].send <= outRsp[p][c].send
    BY DEF ProxyInv, OrderInv
  <2>2. sends[c] <= sends[c]
    BY ConversationAssumption DEF TypeOK
  <2>3. Reads(p, c)' => reading'[p].send = sends[c]
    BY <1>4
  <2>4. rsp' = rsp /\ outRsp' = outRsp /\ sends' = sends
    BY DEF settings
  <2> QED
    BY <2>1, <2>2, <2>3, <2>4 DEF OrderInv
<1>8. ASSUME NEW c \in Clients, c \notin newUnits'[p], p \notin confDue',
             Ready(conf)'
      PROVE  /\ WillGive(p, c)'
             /\ c \notin changed'[p] /\ req'[c] # None /\ Responsible(p, c)'
                  => WillAnswer(p, c)'
  <2>1. c \notin newUnits[p] /\ p \notin confDue /\ Ready(conf)
    BY <1>8 DEF juju, Ready
  <2>2. hookConf[p] = conf /\ conf' = conf /\ given' = given
    BY <1>1, <2>1 DEF ProxyInv, HookInv, juju, settings
  <2>3. /\ WillGive(p, c)
        /\ c \notin changed[p] /\ req[c] # None /\ Responsible(p, c)
             => WillAnswer(p, c)
    BY <2>1 DEF ProxyInv, PromiseInv
  <2>4. WillGive(p, c)'
    BY <1>1, <1>3, <1>5, <2>2, <2>3 DEF WillGive
  <2>5. ASSUME c \notin changed'[p], req'[c] # None, Responsible(p, c)'
        PROVE  WillAnswer(p, c)'
    <3>1. c \notin changed[p] /\ req[c] # None /\ Responsible(p, c)
      BY <2>5 DEF Responsible, juju, settings
    <3>2. CASE c = d
      <4>1. reading'[p] = [unit |-> d, req |-> req[d], send |-> sends[d]]
        BY <3>1, <3>2 DEF Fetch
      <4>2. [unit |-> d, req |-> req[d], send |-> sends[d]] # None
        <5>1. [unit |-> d, req |-> req[d], send |-> sends[d]] \in Fetched
          BY <3>1, <3>2 DEF TypeOK, Fetched
        <5> QED
          BY <5>1, NoneAssumption
      <4> QED
        BY <3>2, <4>1, <4>2 DEF WillAnswer, Reads, settings
    <3>3. CASE c # d
      BY <1>1, <2>3, <3>1, <3>3
      DEF WillAnswer, AnsweredLast, Reads, settings
    <3> QED
      BY <3>2, <3>3
  <2> QED
    BY <2>4, <2>5
<1> QED
  BY <1>6, <1>7, <1>8 DEF ProxyInv, PromiseInv

LEMMA ServeUnitSettled ==
  ASSUME TypeOK, NEW p \in Proxies, ProxyInv(p), ServeUnit(p)
  PROVE  ProxyInv(p)'
<1>1. PICK d \in Clients :
        \/ ClientRelationJoined(p, d)
        \/ ClientRelationChanged(p, d)
        \/ RadosgwRelation(p, d)
        \/ MdsRelationJoined(p, d)
  BY DEF ServeUnit
<1>2. CASE \/ ClientRelationJoined(p, d)
           \/ RadosgwRelation(p, d)
           \/ MdsRelationJoined(p, d)
  <2>1. GivesAccess(p, d)
    BY <1>2
    DEF GivesAccess, ClientRelationJoined, RadosgwRelation, MdsRelationJoined
  <2>2. FetchRequest(p, d) /\ ProvideAccess(p, d) /\ Serves(p, d)
        /\ UNCHANGED <<juju, settings, running, phase, hookConf, outRsp>>
    BY <1>2 DEF ClientRelationJoined, RadosgwRelation, MdsRelationJoined
  <2>3. todo'[p] = todo[p] \ {d} /\ reading'[p] = Fetch(d)
    BY <2>2 DEF FetchRequest, Fetch, TypeOK
  <2>4. outGiven'[p] = [outGiven[p] EXCEPT ![d] = hookConf[p]]
    BY <2>2 DEF ProvideAccess, TypeOK
  <2> QED
    BY <2>1, <2>2, <2>3, <2>4, ServeSettled
<1>3. CASE ClientRelationChanged(p, d)
  <2>1. ~ GivesAccess(p, d) /\ outGiven'[p] = outGiven[p] /\ Serves(p, d)
        /\ UNCHANGED <<juju, settings, running, phase, hookConf, outRsp>>
    BY <1>3 DEF GivesAccess, ClientRelationChanged
  <2>2. todo'[p] = todo[p] \ {d}
    <3>1. todo' = [todo EXCEPT ![p] = @ \ {d}]
      BY <1>3 DEF ClientRelationChanged, FetchRequest
    <3>2. todo \in [Proxies -> SUBSET Clients]
      BY DEF TypeOK
    <3> QED
      BY <3>1, <3>2
  <2>3. \/ reading'[p] = reading[p] /\ ~ Responsible(p, d)
        \/ reading'[p] = Fetch(d)
    <3>1. CASE leader = p
      BY <1>3, <3>1 DEF ClientRelationChanged, FetchRequest, Fetch, TypeOK
    <3>2. CASE leader # p
      BY <1>3, <3>2 DEF ClientRelationChanged, Responsible
    <3> QED
      BY <3>1, <3>2
  <2> QED
    BY <2>1, <2>2, <2>3, ServeSettled
<1> QED
  BY <1>1, <1>2, <1>3

LEMMA ProcessSettled ==
  ASSUME TypeOK, NEW p \in Proxies, ProxyInv(p), ProcessSome(p)
  PROVE  ProxyInv(p)'
<1> DEFINE f == reading[p]
<1>1. PICK o \in Outcomes : ProcessRequests(p, o)
  BY DEF ProcessSome
<1>2. /\ f \in Fetched /\ f # None /\ phase[p] = "run"
      /\ Answer(f, o) \in Reply /\ Answer(f, o) # None
      /\ Answer(f, o).send = f.send
  <2>1. f \in Fetched
    BY <1>1 DEF ProcessRequests, TypeOK
  <2>2. Answer(f, o) \in Reply
    BY <2>1, ReplyType
  <2> QED
    BY <1>1, <2>1, <2>2, NoneAssumption DEF ProcessRequests, Answer
<1>3. f.unit \in Clients /\ f.send \in Nat
  BY <1>2, ConversationAssumption DEF Fetched
<1>4. ASSUME NEW c \in Clients
      PROVE  /\ c = f.unit => outRsp'[p][c] = Answer(f, o)
             /\ c # f.unit => outRsp'[p][c] = outRsp[p][c]
  BY <1>1, <1>3 DEF ProcessRequests, TypeOK
<1>5. reading'[p] = None /\ UNCHANGED <<juju, settings, running, phase,
                                        hookConf, todo, outGiven>>
  BY <1>1 DEF ProcessRequests, TypeOK
<1>6. HookInv(p)'
  <2>1. ASSUME NEW c \in Clients, Touches(p, c)' PROVE InScope(p, c)'
    BY <1>2, <1>4, <1>5, <2>1
    DEF ProxyInv, HookInv, Touches, Reads, InScope
  <2> QED
    BY <1>2, <1>5, <2>1
    DEF ProxyInv, HookInv, GivesAccess, juju, settings
<1>7. ASSUME NEW c \in Clients PROVE OrderInv(p, c)'
  <2>1. OrderInv(p, c) /\ sends' = sends /\ rsp' = rsp
    BY <1>5 DEF ProxyInv, settings
  <2>2. ~ Reads(p, c)'
    BY <1>5 DEF Reads
  <2>3. c = f.unit => Reads(p, c)
    BY <1>2 DEF Reads
  <2> QED
    BY <1>2, <1>4, <2>1, <2>2, <2>3 DEF OrderInv
<1>8. ASSUME NEW c \in Clients, c \notin newUnits'[p], p \notin confDue',
             Ready(conf)'
      PROVE  /\ WillGive(p, c)'
             /\ c \notin changed'[p] /\ req'[c] # None /\ Responsible(p, c)'
                  => WillAnswer(p, c)'
  <2>1. PromiseInv(p, c) /\ c \notin newUnits[p] /\ p \notin confDue
        /\ Ready(conf)
    BY <1>5, <1>8 DEF ProxyInv, juju, Ready
  <2>2. WillGive(p, c)'
    BY <1>5, <2>1
    DEF PromiseInv, WillGive, GivesAccess, InScope, juju, settings
  <2>3. ASSUME c \notin changed'[p], req'[c] # None, Responsible(p, c)'
        PROVE  WillAnswer(p, c)'
    <3>1. WillAnswer(p, c) /\ sends' = sends /\ rsp' = rsp /\ todo' = todo
      BY <1>5, <2>1, <2>3 DEF PromiseInv, Responsible, juju, settings
    <3>2. CASE c = f.unit /\ outRsp[p][c] # None
               /\ outRsp[p][c].send = sends[c]
      <4>1. outRsp[p][c].send <= f.send /\ f.send <= sends[c]
        BY <1>2, <3>2 DEF ProxyInv, OrderInv, Reads
      <4>2. sends[c] \in Nat
        BY ConversationAssumption DEF TypeOK
      <4>3. f.send = sends[c]
        BY <1>3, <3>2, <4>1, <4>2
      <4> QED
        BY <1>2, <1>4, <3>1, <3>2, <4>3 DEF WillAnswer
    <3>3. CASE Reads(p, c) /\ f.send = sends[c]
      BY <1>2, <1>4, <3>1, <3>3 DEF WillAnswer, Reads
    <3>4. CASE c # f.unit /\ outRsp[p][c] # None
               /\ outRsp[p][c].send = sends[c]
      BY <1>4, <3>1, <3>4 DEF WillAnswer
    <3>5. CASE AnsweredLast(p, c) \/ c \in todo[p]
      BY <3>1, <3>5 DEF WillAnswer, AnsweredLast
    <3> QED
      BY <1>2, <3>1, <3>2, <3>3, <3>4, <3>5 DEF WillAnswer
  <2> QED
    BY <2>2, <2>3
<1> QED
  BY <1>6, <1>7, <1>8 DEF ProxyInv, PromiseInv

LEMMA FailSettled ==
  ASSUME TypeOK, NEW p \in Proxies, ProxyInv(p), FailHook(p)
  PROVE  ProxyInv(p)'
<1>1. /\ phase[p] = "run" /\ phase'[p] = "failed"
      /\ todo'[p] = {} /\ reading'[p] = None
      /\ \A c \in Clients : outGiven'[p][c] = 0 /\ outRsp'[p][c] = None
      /\ UNCHANGED <<juju, settings, running, hookConf>>
  BY DEF FailHook, ClearOutput, NothingGiven, NoSettings, TypeOK
<1>2. ASSUME NEW c \in Clients PROVE ~ Touches(p, c)' /\ ~ Reads(p, c)'
  BY <1>1 DEF Touches, Reads
<1>3. HookInv(p)'
  BY <1>1, <1>2 DEF ProxyInv, HookInv, juju, settings
<1>4. ASSUME NEW c \in Clients PROVE OrderInv(p, c)'
  BY <1>1, <1>2 DEF ProxyInv, OrderInv, settings
<1>5. ASSUME NEW c \in Clients, c \notin newUnits'[p], p \notin confDue',
             Ready(conf)'
      PROVE  /\ WillGive(p, c)'
             /\ c \notin changed'[p] /\ req'[c] # None /\ Responsible(p, c)'
                  => WillAnswer(p, c)'
  <2>1. PromiseInv(p, c) /\ c \notin newUnits[p] /\ p \notin confDue
        /\ Ready(conf)
    BY <1>1, <1>5 DEF ProxyInv, juju, Ready
  <2>2. Touches(p, c) => InScope(p, c)
    BY <1>1 DEF ProxyInv, HookInv
  <2>3. outGiven[p][c] # 0 => GivesAccess(p, c)
    BY DEF ProxyInv, HookInv
  <2>4. conf # 0
    BY ConversationAssumption DEF TypeOK
  <2>5. /\ InScope(p, c)' <=> InScope(p, c)
        /\ GivesAccess(p, c)' <=> GivesAccess(p, c)
    BY <1>1 DEF InScope, GivesAccess
  <2>6. WillGive(p, c)'
    BY <1>1, <2>1, <2>2, <2>3, <2>4, <2>5
    DEF PromiseInv, WillGive, Touches, juju, settings
  <2>7. ASSUME c \notin changed'[p], req'[c] # None, Responsible(p, c)'
        PROVE  WillAnswer(p, c)'
    <3>1. WillAnswer(p, c)
      BY <1>1, <2>1, <2>7 DEF PromiseInv, Responsible, juju, settings
    <3> QED
      BY <1>1, <2>2, <2>5, <3>1
      DEF WillAnswer, AnsweredLast, Touches, settings
  <2> QED
    BY <2>6, <2>7
<1> QED
  BY <1>3, <1>4, <1>5 DEF ProxyInv, PromiseInv

LEMMA EndSettled ==
  ASSUME TypeOK, NEW p \in Proxies, ProxyInv(p), EndHook(p)
  PROVE  ProxyInv(p)'
<1>1. /\ phase[p] = "run" /\ phase'[p] = "idle"
      /\ todo[p] = {} /\ reading[p] = None /\ todo' = todo
      /\ reading' = reading
      /\ UNCHANGED <<juju, req, sends, hookConf>>
  BY DEF EndHook, TypeOK
<1>2. ASSUME NEW c \in Clients
      PROVE  /\ outGiven'[p][c] = 0 /\ outRsp'[p][c] = None
             /\ given'[p][c] = Published(given[p][c], outGiven[p][c], 0)
             /\ rsp'[p][c] = Published(rsp[p][c], outRsp[p][c], None)
  BY DEF EndHook, ClearOutput, NothingGiven, NoSettings, TypeOK
<1>3. ASSUME NEW c \in Clients PROVE ~ Touches(p, c)' /\ ~ Reads(p, c)'
  BY <1>1, <1>2 DEF Touches, Reads
<1>4. hookConf[p] \in Nat
  BY ConversationAssumption DEF TypeOK
<1>5. HookInv(p)'
  <2>1. ASSUME NEW c \in Clients PROVE given'[p][c] <= hookConf'[p]
    BY <1>1, <1>2, <1>4 DEF ProxyInv, HookInv, Published
  <2> QED
    BY <1>1, <1>2, <1>3, <2>1 DEF ProxyInv, HookInv, juju
<1>6. ASSUME NEW c \in Clients PROVE OrderInv(p, c)'
  BY <1>1, <1>2, <1>3 DEF ProxyInv, OrderInv, Published
<1>7. ASSUME NEW c \in Clients, c \notin newUnits'[p], p \notin confDue',
             Ready(conf)'
      PROVE  /\ WillGive(p, c)'
             /\ c \notin changed'[p] /\ req'[c] # None /\ Responsible(p, c)'
                  => WillAnswer(p, c)'
  <2>1. PromiseInv(p, c) /\ c \notin newUnits[p] /\ p \notin confDue
        /\ Ready(conf)
    BY <1>1, <1>7 DEF ProxyInv, juju, Ready
  <2>2. hookConf[p] = conf /\ conf' = conf /\ conf # 0
    BY <1>1, <2>1, ConversationAssumption DEF ProxyInv, HookInv, juju, TypeOK
  <2>3. given'[p][c] = conf'
    BY <1>1, <1>2, <2>1, <2>2
    DEF ProxyInv, HookInv, PromiseInv, WillGive, Published
  <2>4. ASSUME c \notin changed'[p], req'[c] # None, Responsible(p, c)'
        PROVE  AnsweredLast(p, c)'
    <3>1. WillAnswer(p, c) /\ sends' = sends
      BY <1>1, <2>1, <2>4 DEF PromiseInv, Responsible, juju
    <3>2. sends[c] \in Nat
      BY ConversationAssumption DEF TypeOK
    <3>3. outRsp[p][c] # None => outRsp[p][c].send \in Nat
      BY ConversationAssumption DEF TypeOK, Reply
    <3>4. CASE outRsp[p][c] # None
      BY <1>1, <1>2, <3>1, <3>2, <3>3, <3>4
      DEF ProxyInv, OrderInv, WillAnswer, AnsweredLast, Reads, Published
    <3>5. CASE outRsp[p][c] = None
      BY <1>1, <1>2, <3>1, <3>5
      DEF WillAnswer, AnsweredLast, Reads, Published
    <3> QED
      BY <3>4, <3>5
  <2> QED
    BY <2>3, <2>4 DEF WillGive, WillAnswer
<1> QED
  BY <1>5, <1>6, <1>7 DEF ProxyInv, PromiseInv

-----------------------------------------------------------------------------
(* The invariance proof: a step of one proxy keeps its own part by the     *)
(* lemmas above and every other proxy's part by Frame.                     *)

LEMMA StartSettled ==
  ASSUME TypeOK, NEW p \in Proxies, ProxyInv(p), StartHook(p)
  PROVE  ProxyInv(p)'
BY JoinedSettled, ChangedSettled, ConfigChangedSettled, RetrySettled
DEF StartHook

LEMMA OthersStart ==
  ASSUME TypeOK, NEW p \in Proxies, StartHook(p), NEW q \in Proxies, q # p
  PROVE  Same(q) /\ UNCHANGED <<conf, leader, elections, req, sends>>
<1>1. ASSUME NEW h, BeginHook(p, h)
      PROVE  /\ running'[q] = running[q]
             /\ phase'[q] = phase[q]
             /\ hookConf'[q] = hookConf[q]
             /\ todo'[q] = todo[q]
             /\ UNCHANGED <<reading, outGiven, outRsp>>
  BY <1>1 DEF BeginHook, TypeOK
<1>2. CASE \E c \in Clients : RunJoinedHook(p, c)
  BY <1>1, <1>2 DEF RunJoinedHook, Same, settings, TypeOK
<1>3. CASE \E c \in Clients : RunChangedHook(p, c)
  BY <1>1, <1>3 DEF RunChangedHook, Same, settings, TypeOK
<1>4. CASE RunConfigChangedHook(p)
  BY <1>1, <1>4 DEF RunConfigChangedHook, Same, settings, TypeOK
<1>5. CASE RetryHook(p)
  BY <1>1, <1>5 DEF RetryHook, Same, juju, settings
<1> QED
  BY <1>2, <1>3, <1>4, <1>5 DEF StartHook

LEMMA OthersRun ==
  ASSUME TypeOK, NEW p \in Proxies, NEW q \in Proxies, q # p,
         ServeUnit(p) \/ ProcessSome(p) \/ EndHook(p) \/ FailHook(p)
  PROVE  Same(q) /\ UNCHANGED <<conf, leader, elections, req, sends>>
<1>1. CASE ServeUnit(p)
  <2>1. PICK c \in Clients : \/ ClientRelationJoined(p, c)
                             \/ ClientRelationChanged(p, c)
                             \/ RadosgwRelation(p, c)
                             \/ MdsRelationJoined(p, c)
    BY <1>1 DEF ServeUnit
  <2>2. todo'[q] = todo[q] /\ reading'[q] = reading[q]
        /\ outGiven'[q] = outGiven[q]
    BY <2>1
    DEF ClientRelationJoined, ClientRelationChanged, RadosgwRelation,
        MdsRelationJoined, FetchRequest, ProvideAccess, TypeOK
  <2> QED
    BY <2>1, <2>2
    DEF ClientRelationJoined, ClientRelationChanged, RadosgwRelation,
        MdsRelationJoined, Same, juju, settings
<1>2. CASE ProcessSome(p)
  BY <1>2 DEF ProcessSome, ProcessRequests, Same, juju, settings, TypeOK
<1>3. CASE EndHook(p)
  BY <1>3 DEF EndHook, ClearOutput, Same, juju, TypeOK
<1>4. CASE FailHook(p)
  BY <1>4 DEF FailHook, ClearOutput, Same, juju, settings, TypeOK
<1> QED
  BY <1>1, <1>2, <1>3, <1>4

LEMMA StepSettled == TypeOK /\ SettledInv /\ [Next]_vars => SettledInv'
<1> SUFFICES ASSUME TypeOK, SettledInv, [Next]_vars PROVE SettledInv'
  OBVIOUS
<1>1. CASE \E c \in Clients : SendRequestIfNeeded(c)
  BY <1>1, SendSettled
<1>2. CASE \E c \in Clients, r \in Requests : ChangeWant(c, r)
  <2>1. \A q \in Proxies :
          Same(q) /\ UNCHANGED <<conf, leader, elections, req, sends>>
    BY <1>2 DEF ChangeWant, Same, juju, settings, hook
  <2> QED
    BY <2>1, Frame DEF SettledInv
<1>3. CASE Configure
  BY <1>3, ConfigureSettled
<1>4. CASE \E p \in Proxies : ElectLeader(p)
  BY <1>4, ElectSettled
<1>5. CASE \E p \in Proxies : Uniter(p) \/ FailHook(p)
  <2>1. PICK p \in Proxies : Uniter(p) \/ FailHook(p)
    BY <1>5
  <2>2. ProxyInv(p)'
    BY <2>1, StartSettled, ServeUnitSettled, ProcessSettled, EndSettled,
       FailSettled
    DEF Uniter, SettledInv
  <2>3. ASSUME NEW q \in Proxies, q # p PROVE ProxyInv(q)'
    <3>1. Same(q) /\ UNCHANGED <<conf, leader, elections, req, sends>>
      BY <2>1, <2>3, OthersStart, OthersRun DEF Uniter
    <3> QED
      BY <3>1, Frame DEF SettledInv
  <2> QED
    BY <2>2, <2>3 DEF SettledInv
<1>6. CASE UNCHANGED vars
  <2>1. \A q \in Proxies :
          Same(q) /\ UNCHANGED <<conf, leader, elections, req, sends>>
    BY <1>6 DEF vars, Same, juju, settings, hook
  <2> QED
    BY <2>1, Frame DEF SettledInv
<1> QED
  BY <1>1, <1>2, <1>3, <1>4, <1>5, <1>6 DEF Next

LEMMA SettledSuffices == TypeOK /\ SettledInv => SettledUnitIsServed
<1> SUFFICES ASSUME TypeOK, SettledInv, NEW p \in Proxies, NEW c \in Clients,
                    Settled(p, c), Ready(conf)
             PROVE  /\ given[p][c] = conf
                    /\ req[c] # None /\ Responsible(p, c)
                         => AnsweredLast(p, c)
  BY DEF SettledUnitIsServed, Responsible
<1> QED
  BY IdlePromise DEF SettledInv, Settled

\* A configured proxy with no hook left to run has given every unit the
\* current configuration and answered the last request of every unit it is
\* responsible for.
THEOREM UnitsAreServed == Spec => []SettledUnitIsServed
<1>1. Init => TypeOK /\ SettledInv
  BY InitTypeOK, InitSettled
<1>2. TypeOK /\ SettledInv /\ [Next]_vars => (TypeOK /\ SettledInv)'
  BY StepTypeOK, StepSettled
<1>3. TypeOK /\ SettledInv => SettledUnitIsServed
  BY SettledSuffices
<1> QED
  BY <1>1, <1>2, <1>3, PTL DEF Spec

NoFallBack ==
  \A p \in Proxies, c \in Clients :
    /\ given'[p][c] >= given[p][c]
    /\ rsp[p][c] # None =>
         rsp'[p][c] # None /\ rsp'[p][c].send >= rsp[p][c].send

\* What a proxy shows never falls back to an older configuration or to the
\* answer to an older request.
THEOREM SettingsOnlyAdvance == Spec => SettingsNeverGoBack
<1>1. Init => TypeOK /\ SettledInv
  BY InitTypeOK, InitSettled
<1>2. TypeOK /\ SettledInv /\ [Next]_vars => (TypeOK /\ SettledInv)'
  BY StepTypeOK, StepSettled
<1>3. TypeOK /\ SettledInv /\ [Next]_vars => [NoFallBack]_vars
  <2> SUFFICES ASSUME TypeOK, SettledInv, [Next]_vars PROVE NoFallBack
    OBVIOUS
  <2>1. ASSUME NEW q \in Proxies, NEW c \in Clients
        PROVE  /\ given[q][c] \in Nat
               /\ rsp[q][c] # None => rsp[q][c].send \in Nat
               /\ outRsp[q][c] # None => outRsp[q][c].send \in Nat
    BY ConversationAssumption DEF TypeOK, Reply
  <2>2. CASE \E p \in Proxies : EndHook(p)
    <3>1. PICK p \in Proxies : EndHook(p)
      BY <2>2
    <3>2. ASSUME NEW q \in Proxies, NEW c \in Clients
          PROVE  /\ given'[q][c] \in {given[q][c],
                        Published(given[q][c], outGiven[q][c], 0)}
                 /\ rsp'[q][c] \in {rsp[q][c],
                        Published(rsp[q][c], outRsp[q][c], None)}
      BY <3>1 DEF EndHook, TypeOK
    <3>3. ASSUME NEW q \in Proxies, NEW c \in Clients
          PROVE  /\ outGiven[q][c] # 0 => outGiven[q][c] >= given[q][c]
                 /\ outRsp[q][c] # None /\ rsp[q][c] # None =>
                      outRsp[q][c].send >= rsp[q][c].send
      BY <2>1 DEF SettledInv, ProxyInv, HookInv, OrderInv
    <3>4. ASSUME NEW q \in Proxies, NEW c \in Clients
          PROVE  /\ given'[q][c] >= given[q][c]
                 /\ rsp[q][c] # None =>
                      rsp'[q][c] # None /\ rsp'[q][c].send >= rsp[q][c].send
      BY <2>1, <3>2, <3>3 DEF Published
    <3> QED
      BY <3>4 DEF NoFallBack
  <2>3. CASE ~ \E p \in Proxies : EndHook(p)
    <3>1. given' = given /\ rsp' = rsp
      BY <2>3
      DEF Next, Uniter, StartHook, ServeUnit, ProcessSome, ChangeWant,
          SendRequestIfNeeded, Configure, ElectLeader, RunJoinedHook,
          RunChangedHook, RunConfigChangedHook, RetryHook,
          ClientRelationJoined, ClientRelationChanged, RadosgwRelation,
          MdsRelationJoined, ProcessRequests, FailHook, settings, vars
    <3> QED
      BY <2>1, <3>1 DEF NoFallBack
  <2> QED
    BY <2>2, <2>3
<1> QED
  BY <1>1, <1>2, <1>3, PTL DEF Spec, SettingsNeverGoBack, NoFallBack
=============================================================================
