---------------------- MODULE ProtocolGatewayProofs ----------------------
(***************************************************************************)
(* Proofs about ProtocolGateway, for every set of messages, hooks and      *)
(* sessions, every batch size and every scenario.                          *)
(***************************************************************************)
EXTENDS ProtocolGateway, FiniteSetTheorems, WellFoundedInduction, TLAPS

EventRecords == [msg : Messages, sequence : Nat, id : Nat, state : States]

(* A session's objects, by message.                                        *)
Partial == UNION {[S -> Rows] : S \in SUBSET Messages}

Places == {"idle", "lookup", "insert", "commit", "dispatch", "run", "receipt", "account", "cancel",
           "canceling", "look", "flush", "poll", "refresh", "deliver"}
Kinds == {"none", "send", "chat", "mcp", "hook", "cancel", "tick", "read", "stream"}

SessionRecords ==
    [pc : Places, kind : Kinds, msg : Messages \cup {0}, key : Keys \cup {0}, left : SUBSET Messages, copy : Partial,
     saw : Statuses, new : Partial, pending : Seq(EventRecords), use : BOOLEAN, final : BOOLEAN]

Types ==
    /\ row \in [Messages -> Rows] /\ task \in [Messages -> Statuses]
    /\ works \in [Messages -> Nat] /\ ids \in Nat
    /\ events \in [Messages -> SUBSET EventRecords] /\ \A m \in Messages : IsFiniteSet(events[m])
    /\ session \in [Sessions -> SessionRecords] /\ sent = [m \in Messages |-> sent[m]]
    /\ global \in [cursor : Nat, got : SUBSET Nat, late : SUBSET Nat]
    /\ scene.guarded \in BOOLEAN /\ receipts \in SUBSET Keys

(* An id the global stream has passed was sent, or drawn before it passed. *)
Passed(i) == i <= global.cursor => i \in global.got \cup global.late

HasEnded(m) == \E e \in events[m] : e.state \in Terminal

(* A message that is known has its task, one work, and an event for its    *)
(* end; the runs of hooks have no protocol task.                           *)
MessageInv(m) ==
    /\ Known(m) => m \notin Runs /\ task[m] # "NONE"
    /\ m \notin Runs => works[m] = IF Known(m) THEN 1 ELSE 0
    /\ row[m].state \in Terminal => HasEnded(m)
    /\ \A e \in events[m] : e.msg = m /\ e.id \in 1..ids /\ Passed(e.id)
    /\ sent[m] # "cut"

(* A session copies rows that exist, and updates what it has copied; only  *)
(* an insertion writes a row that it has no copy of, and that row does not *)
(* exist before it commits.                                                *)
RowsGood(s) ==
    /\ s.left \subseteq DOMAIN s.copy /\ \A m \in DOMAIN s.copy : Known(m)
    /\ \A m \in DOMAIN s.new :
          /\ s.new[m].state # "ABSENT"
          /\ s.pc \in {"look", "flush", "commit"}
          /\ m \in DOMAIN s.copy \/ (DOMAIN s.copy = {} /\ m = s.msg /\ ~Known(m) /\ m \notin Runs
                                      /\ s.pc = "commit" /\ s.new[m].state = "SUBMITTED")

(* What it has added to the log: with an id that was drawn, and with the   *)
(* end of a task when it writes one.                                       *)
EventsGood(s) ==
    /\ \A i \in DOMAIN s.pending : s.pending[i].id \in 1..ids /\ Passed(s.pending[i].id)
    /\ \A m \in DOMAIN s.new \cap DOMAIN s.copy :
          s.new[m].state # s.copy[m].state /\ s.new[m].state \in Terminal =>
             \E i \in DOMAIN s.pending : s.pending[i].msg = m /\ s.pending[i].state = s.new[m].state

PcGood(s) ==
    /\ s.pc \in {"lookup", "insert", "cancel", "run"} => DOMAIN s.copy = {} /\ s.msg \in Messages
    /\ s.pc = "insert" => s.msg \notin Runs
    /\ s.pc = "lookup" /\ s.msg \in Runs => s.kind = "hook"
    /\ s.pc \in {"cancel", "dispatch", "poll", "refresh", "deliver"} => s.msg \in Messages /\ Known(s.msg)
    /\ s.pc \in {"canceling", "flush"} => s.msg \in DOMAIN s.copy /\ s.msg \in Messages
    /\ s.pc = "dispatch" => s.msg \in DOMAIN s.copy
    /\ s.pc = "flush" => s.saw # "NONE"
    /\ s.pc = "deliver" /\ s.final => HasEnded(s.msg)
    /\ s.pc = "run" => s.msg \in Runs
    /\ s.pc \in {"run", "receipt"} => s.kind = "hook" /\ s.msg \in Messages
    /\ s.kind = "hook" => s.key \in Keys /\ s.msg = MessageOf[s.key]
    /\ s.pc = "receipt" => works[s.msg] > 0
    /\ s.kind = "hook" /\ s.msg \in Runs => s.pc \in {"lookup", "run", "receipt", "account"}
    /\ s.pc = "canceling" => s.left = {}
    /\ s.pc \in {"look", "flush", "commit"} /\ s.kind # "tick" =>
          s.msg \in Messages /\ s.msg \in DOMAIN s.copy \cup DOMAIN s.new /\ s.left \subseteq {s.msg}

Good(s) == RowsGood(s) /\ EventsGood(s) /\ PcGood(s)

Delivered(m) == \E key \in receipts : MessageOf[key] = m

(* A run of a hook that was not delivered twice, and whose key is not cut: *)
(* no two handlers are at it, and it was started at most once, by one that *)
(* wrote or will write its receipt.                                        *)
At(s, m) == s.kind = "hook" /\ s.msg = m /\ s.pc \in {"run", "receipt"}
RunInv(m) ==
    /\ \A c, d \in Sessions : At(session[c], m) /\ At(session[d], m) => c = d
    /\ works[m] \in {0, 1}
    /\ works[m] = 1 => Delivered(m) \/ \E c \in Sessions : At(session[c], m) /\ session[c].pc = "receipt"
    /\ \A c \in Sessions : At(session[c], m) /\ session[c].pc = "run" => works[m] = 0

Whole == {m \in Runs : ~Cut(m)}

ReceiptsInv == \A kept \in receipts : \E key \in Keys : Stored[key] = kept /\ works[MessageOf[key]] > 0

RunsInv == ReceiptsInv /\ \A m \in Whole \ doubled : RunInv(m)

(* Two sessions never hold the lock of the same row.                       *)
Locks == \A c, d \in Sessions : c # d => DOMAIN session[c].new \cap DOMAIN session[d].new = {}

GatewayInv ==
    /\ Types /\ RunsInv /\ Locks /\ global.cursor <= ids
    /\ \A m \in Messages : MessageInv(m)
    /\ \A c \in Sessions : Good(session[c])

LEMMA NoObjects == <<>> \in Partial /\ DOMAIN <<>> = {}
<1>1. <<>> \in [{} -> Rows]
  OBVIOUS
<1> QED BY <1>1 DEF Partial

LEMMA PutObject ==
  ASSUME NEW f \in Partial, NEW m \in Messages, NEW r \in Rows
  PROVE  /\ Put(f, m, r) \in Partial /\ DOMAIN Put(f, m, r) = DOMAIN f \cup {m}
         /\ Put(f, m, r)[m] = r /\ \A k \in DOMAIN f : k # m => Put(f, m, r)[k] = f[k]
<1>1. PICK S \in SUBSET Messages : f \in [S -> Rows]
  BY DEF Partial
<1>2. Put(f, m, r) \in [S \cup {m} -> Rows]
  BY <1>1 DEF Put
<1> QED BY <1>1, <1>2 DEF Partial, Put

LEMMA OnlyObject ==
  ASSUME NEW m \in Messages, NEW r \in Rows
  PROVE  Only(m, r) \in Partial /\ DOMAIN Only(m, r) = {m} /\ Only(m, r)[m] = r
<1>1. Only(m, r) \in [{m} -> Rows]
  BY DEF Only
<1> QED BY <1>1 DEF Partial, Only

LEMMA CopiedRows ==
  ASSUME row \in [Messages -> Rows], NEW S \in SUBSET Messages
  PROVE  [m \in S |-> row[m]] \in Partial /\ DOMAIN [m \in S |-> row[m]] = S
<1>1. [m \in S |-> row[m]] \in [S -> Rows]
  OBVIOUS
<1> QED BY <1>1 DEF Partial

LEMMA ObjectTypes ==
  ASSUME NEW f \in Partial
  PROVE  DOMAIN f \subseteq Messages /\ \A m \in DOMAIN f : f[m] \in Rows
  BY DEF Partial

LEMMA ShownRows ==
  ASSUME NEW status \in Statuses, status # "NONE"
  PROVE  Shown(status) \in Rows /\ Shown(status).state # "ABSENT" /\ Shown(status).says # "ACCEPTED"
         /\ Shown(status).says # "GATEWAY"
<1>1. StateOf(status) \in States \ {"ABSENT"}
  BY DEF StateOf, Statuses, States, Ended, Terminal
<1> QED BY <1>1 DEF Shown, Row, Rows, Statuses, Ended

LEMMA IdleType ==
  /\ Idle \in SessionRecords /\ Idle.pc = "idle" /\ Idle.kind = "none" /\ DOMAIN Idle.new = {}
  /\ DOMAIN Idle.copy = {} /\ Idle.left = {} /\ Idle.pending = <<>> /\ Idle.new = <<>>
<1>1. <<>> \in Seq(EventRecords)
  OBVIOUS
<1>2. "NONE" \in Statuses
  BY DEF Statuses
<1>3. ASSUME NEW e \in Partial \cap Seq(EventRecords), NEW r \in Statuses, NEW z \in Messages \cup {0}, NEW y \in Keys \cup {0},
             NEW p \in Places, NEW k \in Kinds
      PROVE  [pc |-> p, kind |-> k, msg |-> z, key |-> y, left |-> {}, copy |-> e, saw |-> r,
              new |-> e, pending |-> e, use |-> FALSE, final |-> FALSE] \in SessionRecords
  BY DEF SessionRecords
<1>4. Idle \in SessionRecords
  <2>1. 0 \in Messages \cup {0} /\ 0 \in Keys \cup {0} /\ "idle" \in Places /\ "none" \in Kinds
    BY DEF Places, Kinds
  <2>2. <<>> \in Partial \cap Seq(EventRecords)
    BY <1>1, NoObjects
  <2> QED BY <1>2, <1>3, <2>1, <2>2, Zenon DEF Idle
<1> QED BY <1>4, NoObjects DEF Idle

LEMMA LeastNatural ==
  ASSUME NEW T \in SUBSET Nat, T # {}
  PROVE  \E m \in T : \A n \in T : m <= n
<1> DEFINE R == {ss \in Nat \X Nat : ss[1] < ss[2]}
<1>1. IsWellFoundedOn(R, Nat)
  BY NatLessThanWellFounded DEF OpToRel
<1>2. PICK m \in T : \A n \in T : ~ (<<n, m>> \in R)
  BY <1>1, WFMin
<1>3. \A n \in T : ~(n < m)
  BY <1>2
<1> QED BY <1>3

LEMMA GreatestNatural ==
  ASSUME NEW S \in SUBSET Nat, S # {}, NEW b \in Nat, \A n \in S : n <= b
  PROVE  \E m \in S : \A n \in S : n <= m
<1> DEFINE T == {n \in Nat : \A k \in S : k <= n}
<1>1. PICK m \in T : \A n \in T : m <= n
  <2> b \in T /\ T \in SUBSET Nat
    OBVIOUS
  <2> QED BY LeastNatural
<1>2. m \in S
  <2> SUFFICES ASSUME m \notin S PROVE FALSE
    OBVIOUS
  <2>1. m \in Nat /\ \A k \in S : k \in Nat /\ k < m
    BY <1>1
  <2>2. m - 1 \in T
    <3>1. PICK k \in S : k \in Nat /\ k < m
      BY <2>1
    <3> QED BY <2>1, <3>1
  <2> QED BY <1>1, <2>1, <2>2
<1> QED BY <1>1, <1>2

LEMMA Initially == Init => GatewayInv
<1> SUFFICES ASSUME Init PROVE GatewayInv
  OBVIOUS
<1> USE DEF Init
<1>1. scene.known \subseteq Messages \ Runs
  BY GatewayAssumption
<1>2. NoRow \in Rows /\ Shown("RUNNING") \in Rows /\ Shown("RUNNING").state = "WORKING"
      /\ "RUNNING" \in Statuses /\ "NONE" \in Statuses /\ NoRow.state = "ABSENT"
  BY DEF NoRow, Row, Rows, States, Shown, StateOf, Statuses, Terminal
<1>3. Types
  <2>1. IsFiniteSet({})
    BY FS_EmptySet
  <2>2. scene.guarded \in BOOLEAN
    BY GatewayAssumption
  <2> QED BY <1>2, <2>1, <2>2, IdleType DEF Types
<1>4. ASSUME NEW m \in Messages PROVE MessageInv(m)
  <2>1. row[m].state \notin Terminal /\ (Known(m) <=> m \in scene.known)
    BY <1>2 DEF Known, Terminal
  <2> QED BY <1>1, <2>1 DEF MessageInv
<1>5. Good(Idle)
  BY IdleType DEF Good, RowsGood, EventsGood, PcGood
<1>6. RunsInv
  <2>1. Runs \subseteq Messages
    BY GatewayAssumption
  <2> QED BY <1>1, <2>1, IdleType DEF RunsInv, RunInv, At, Whole, ReceiptsInv
<1>7. Locks
  BY IdleType DEF Locks
<1> QED BY <1>3, <1>4, <1>5, <1>6, <1>7 DEF GatewayInv

(* What the others see of a session's step that writes no row and commits  *)
(* no event.                                                               *)
Aside ==
    /\ UNCHANGED <<row, events, global, scene>>
    /\ task' \in [Messages -> Statuses] /\ \A m \in Messages : task[m] # "NONE" => task'[m] # "NONE"
    /\ works' \in [Messages -> Nat] /\ \A m \in Messages \ Runs : works'[m] = works[m]
    /\ (\A m \in Messages : works'[m] >= works[m]) /\ receipts' \in SUBSET Keys
    /\ ids' \in Nat /\ ids <= ids'
    /\ sent' = [m \in Messages |-> sent'[m]] /\ \A m \in Messages : sent'[m] # "cut"

LEMMA AsideMessages ==
  ASSUME GatewayInv, Aside
  PROVE  global.cursor <= ids' /\ \A m \in Messages : MessageInv(m)'
<1>1. Types /\ global.cursor <= ids
  BY DEF GatewayInv
<1>2. ASSUME NEW m \in Messages PROVE MessageInv(m)'
  <2>1. MessageInv(m)
    BY DEF GatewayInv
  <2>2. \A e \in events[m] : e.id \in 1..ids'
    BY <1>1, <2>1 DEF MessageInv, Types, Aside
  <2> QED BY <2>1, <2>2 DEF MessageInv, Aside, Known, Passed, HasEnded
<1> QED BY <1>1, <1>2 DEF Types, Aside

(* Nothing that a session relies on is lost.                               *)
LEMMA AsideSessions ==
  ASSUME GatewayInv, Aside, NEW d \in Sessions
  PROVE  RowsGood(session[d]) /\ EventsGood(session[d]) /\ PcGood(session[d])
         /\ \A i \in 1..ids : i \in 1..ids'
<1>1. ids \in Nat /\ ids' \in Nat /\ ids <= ids'
  BY DEF GatewayInv, Types, Aside
<1> QED BY <1>1 DEF GatewayInv, Good

LEMMA Stay ==
  ASSUME GatewayInv, Aside, NEW s, Good(s)
  PROVE  Good(s)'
<1>1. \A i \in 1..ids : i \in 1..ids'
  BY DEF GatewayInv, Types, Aside
<1>2. RowsGood(s)'
  BY DEF Good, RowsGood, Known, Aside
<1>3. EventsGood(s)'
  BY <1>1 DEF Good, EventsGood, Passed, Aside
<1>4. PcGood(s)'
  <2>1. s.pc = "receipt" => works'[s.msg] > 0
    BY DEF Good, PcGood, Aside, GatewayInv, Types
  <2> QED BY <2>1 DEF Good, PcGood, Known, HasEnded, Aside
<1> QED BY <1>2, <1>3, <1>4 DEF Good

(* A step of one session that writes no row and commits no event.          *)
LEMMA Local ==
  ASSUME GatewayInv, NEW c \in Sessions, NEW s \in SessionRecords, Goes(c, s), Aside, RunsInv',
         \A d \in Sessions \ {c} : DOMAIN s.new \cap DOMAIN session[d].new = {}, Good(s)'
  PROVE  GatewayInv'
<1>1. session \in [Sessions -> SessionRecords] /\ Types
  BY DEF GatewayInv, Types
<1>2. session'[c] = s /\ \A d \in Sessions \ {c} : session'[d] = session[d]
  BY <1>1 DEF Goes
<1>3. Types'
  BY <1>1 DEF Types, Goes, Aside
<1>4. Locks'
  BY <1>2 DEF GatewayInv, Locks
<1>5. ASSUME NEW d \in Sessions PROVE Good(session[d])'
  <2>1. CASE d = c
    BY <1>2, <2>1 DEF Good, RowsGood, EventsGood, PcGood
  <2>2. CASE d # c
    <3>1. PICK r : r = session[d]
      OBVIOUS
    <3>2. Good(r) /\ session'[d] = r
      BY <1>2, <2>2, <3>1 DEF GatewayInv
    <3>3. Good(r)'
      BY <3>2, Stay
    <3> QED BY <3>2, <3>3 DEF Good, RowsGood, EventsGood, PcGood
  <2> QED BY <2>1, <2>2
<1> QED BY <1>3, <1>4, <1>5, AsideMessages DEF GatewayInv, Aside

(* A session that is not at the run of a hook leaves it alone.             *)
LEMMA OtherRun ==
  ASSUME GatewayInv, NEW c \in Sessions, NEW s, Goes(c, s), receipts \subseteq receipts',
         doubled \subseteq doubled', NEW m \in Whole \ doubled', works'[m] = works[m],
         ~At(session[c], m), ~At(s, m)
  PROVE  RunInv(m)'
<1>1. session \in [Sessions -> SessionRecords] /\ RunInv(m)
  BY DEF GatewayInv, Types, RunsInv
<1>2. session'[c] = s /\ \A d \in Sessions \ {c} : session'[d] = session[d]
  BY <1>1 DEF Goes
<1>3. \A d \in Sessions : /\ At(session'[d], m) => d # c /\ session'[d] = session[d]
                          /\ At(session[d], m) => d # c /\ session'[d] = session[d]
  BY <1>2
<1>4. \A d \in Sessions : At(session'[d], m) <=> At(session[d], m) /\ session'[d] = session[d]
  BY <1>2, <1>3
<1>5. \A d, e \in Sessions : At(session'[d], m) /\ At(session'[e], m) => d = e
  BY <1>1, <1>4 DEF RunInv
<1>6. \A d \in Sessions : At(session'[d], m) /\ session'[d].pc = "run" => works'[m] = 0
  BY <1>1, <1>4 DEF RunInv
<1>7. works'[m] = 1 => Delivered(m)' \/ \E d \in Sessions : At(session'[d], m) /\ session'[d].pc = "receipt"
  <2>1. CASE works'[m] # 1 \/ Delivered(m)
    BY <2>1 DEF Delivered
  <2>2. CASE works'[m] = 1 /\ ~Delivered(m)
    <3>1. PICK d \in Sessions : At(session[d], m) /\ session[d].pc = "receipt"
      BY <1>1, <2>2 DEF RunInv
    <3>2. session'[d] = session[d]
      BY <1>3, <3>1
    <3> QED BY <3>1, <3>2
  <2> QED BY <2>1, <2>2
<1>8. works'[m] \in {0, 1}
  BY <1>1 DEF RunInv
<1> QED BY <1>5, <1>6, <1>7, <1>8 DEF RunInv, At

LEMMA ReceiptsStay ==
  ASSUME GatewayInv, UNCHANGED receipts, \A m \in Messages : works'[m] \in Nat /\ works'[m] >= works[m]
  PROVE  ReceiptsInv'
<1>1. ASSUME NEW kept \in receipts PROVE \E key \in Keys : Stored[key] = kept /\ works'[MessageOf[key]] > 0
  <2>1. PICK key \in Keys : Stored[key] = kept /\ works[MessageOf[key]] > 0
    BY DEF GatewayInv, RunsInv, ReceiptsInv
  <2>2. MessageOf[key] \in Messages /\ works[MessageOf[key]] \in Nat
    BY GatewayAssumption DEF GatewayInv, Types
  <2> QED BY <2>1, <2>2
<1> QED BY <1>1 DEF ReceiptsInv

LEMMA WorksGrow ==
  ASSUME GatewayInv, UNCHANGED works
  PROVE  \A m \in Messages : works'[m] \in Nat /\ works'[m] >= works[m]
  BY DEF GatewayInv, Types

LEMMA RunsFrame ==
  ASSUME GatewayInv, NEW c \in Sessions, NEW s, Goes(c, s), UNCHANGED receipts,
         \A m \in Messages : works'[m] \in Nat /\ works'[m] >= works[m],
         \A m \in Runs : works'[m] = works[m], doubled \subseteq doubled',
         \A m \in Whole \ doubled' : ~At(session[c], m) /\ ~At(s, m)
  PROVE  RunsInv'
<1>1. ASSUME NEW m \in Whole \ doubled' PROVE RunInv(m)'
  BY <1>1, OtherRun DEF Whole
<1>2. ReceiptsInv'
  BY ReceiptsStay DEF GatewayInv, RunsInv
<1> QED BY <1>1, <1>2 DEF RunsInv

(* A step that draws no id, starts nothing and is not at a run.            *)
LEMMA Quiet ==
  ASSUME GatewayInv, NEW c \in Sessions, NEW s \in SessionRecords, Goes(c, s), Good(s),
         UNCHANGED <<row, events, global, scene, task, works, ids, receipts>>, doubled \subseteq doubled',
         sent' = [m \in Messages |-> sent'[m]], \A m \in Messages : sent'[m] # "cut",
         DOMAIN s.new \subseteq DOMAIN session[c].new,
         \A m \in Whole \ doubled' : ~At(session[c], m) /\ ~At(s, m)
  PROVE  GatewayInv'
<1>1. Aside
  BY DEF Aside, GatewayInv, Types
<1>2. RunsInv'
  BY <1>1, RunsFrame, WorksGrow
<1>3. Good(s)'
  BY <1>1, Stay
<1>4. \A d \in Sessions \ {c} : DOMAIN s.new \cap DOMAIN session[d].new = {}
  BY DEF GatewayInv, Locks
<1> QED BY <1>1, <1>2, <1>3, <1>4, Local

LEMMA SentStays ==
  ASSUME GatewayInv, sent' = sent
  PROVE  sent' = [m \in Messages |-> sent'[m]] /\ \A m \in Messages : sent'[m] # "cut"
  BY DEF GatewayInv, Types, MessageInv

LEMMA Acting ==
  ASSUME GatewayInv, NEW c \in Sessions
  PROVE  session[c] \in SessionRecords /\ Good(session[c])
  BY DEF GatewayInv, Types

LEMMA IdleIsGood == Good(Idle) /\ Idle \in SessionRecords /\ \A m : ~At(Idle, m)
  BY IdleType DEF Good, RowsGood, EventsGood, PcGood, At

(* Whoever moves no session leaves them what they rely on.                 *)
LEMMA Elsewhere ==
  ASSUME GatewayInv, Aside, UNCHANGED <<session, works, receipts, doubled>>
  PROVE  GatewayInv'
<1>1. Types' /\ Locks'
  BY DEF GatewayInv, Types, Locks, Aside
<1>2. RunsInv'
  BY DEF GatewayInv, RunsInv, RunInv, At, ReceiptsInv, Delivered
<1>3. ASSUME NEW d \in Sessions PROVE Good(session[d])'
  <2>1. PICK r : r = session[d]
    OBVIOUS
  <2>2. Good(r) /\ session'[d] = r
    BY <2>1 DEF GatewayInv
  <2>3. Good(r)'
    BY <2>2, Stay
  <2> QED BY <2>2, <2>3 DEF Good, RowsGood, EventsGood, PcGood
<1> QED BY <1>1, <1>2, <1>3, AsideMessages DEF GatewayInv, Aside

LEMMA DecideKeeps ==
  ASSUME GatewayInv, UNCHANGED <<row, task, works, events, ids, receipts, session, sent, global, doubled, scene>>
  PROVE  GatewayInv'
<1>1. Aside
  BY SentStays DEF Aside, GatewayInv, Types
<1> QED BY <1>1, Elsewhere

LEMMA BusKeeps ==
  ASSUME GatewayInv, NEW m \in Messages, BusMoves(m)
  PROVE  GatewayInv'
<1>1. task \in [Messages -> Statuses]
  BY DEF GatewayInv, Types
<1>2. PICK status \in Statuses \ {"NONE"} : task' = [task EXCEPT ![m] = status]
  BY DEF BusMoves, Statuses, Ended
<1>3. Aside
  BY <1>1, <1>2, SentStays DEF Aside, GatewayInv, Types, BusMoves
<1> QED BY <1>3, Elsewhere DEF BusMoves

LEMMA AccountKeeps ==
  ASSUME GatewayInv, NEW c \in Sessions, Account(c)
  PROVE  GatewayInv'
<1>1. \A m : ~At(session[c], m)
  BY DEF Account, At
<1> QED BY <1>1, IdleIsGood, IdleType, SentStays, Quiet DEF Account

LEMMA AuthoriseKeeps ==
  ASSUME GatewayInv, NEW c \in Sessions, Authorise(c)
  PROVE  GatewayInv'
<1>1. PICK kind \in {"send", "chat", "mcp", "hook", "cancel"}, m \in Messages : \E key \in KeysOf(m) :
        /\ session[c].pc = "idle" /\ (m \in Hooks) = (kind = "hook") /\ (kind = "cancel" => Known(m))
        /\ \/ UNCHANGED session
           \/ Goes(c, [Idle EXCEPT !.pc = IF kind = "cancel" THEN "cancel" ELSE "lookup",
                                   !.kind = kind, !.msg = m, !.key = key, !.use = scene.guarded])
  BY ZenonT(30) DEF Authorise, Starts
<1>11. PICK key \in KeysOf(m) :
        \/ UNCHANGED session
        \/ Goes(c, [Idle EXCEPT !.pc = IF kind = "cancel" THEN "cancel" ELSE "lookup",
                                !.kind = kind, !.msg = m, !.key = key, !.use = scene.guarded])
  BY <1>1
<1>12. key \in Keys \cup {0} /\ (kind = "hook" => key \in Keys /\ MessageOf[key] = m)
  BY <1>1 DEF KeysOf
<1>2. CASE UNCHANGED session
  BY <1>2, DecideKeeps DEF Authorise
<1>3. CASE ~ UNCHANGED session
  <2>1. PICK s : s = [Idle EXCEPT !.pc = IF kind = "cancel" THEN "cancel" ELSE "lookup",
                                  !.kind = kind, !.msg = m, !.key = key, !.use = scene.guarded]
    OBVIOUS
  <2>2. Goes(c, s)
    BY <1>11, <1>3, <2>1
  <2>3. s \in SessionRecords
    <3>1. scene.guarded \in BOOLEAN
      BY DEF GatewayInv, Types
    <3>2. m \in Messages \cup {0}
      OBVIOUS
    <3>3. (IF kind = "cancel" THEN "cancel" ELSE "lookup") \in Places /\ kind \in Kinds
      BY DEF Places, Kinds
    <3> QED BY <1>12, <2>1, <3>1, <3>2, <3>3, IdleIsGood DEF SessionRecords
  <2>4. Good(s)
    <3>1. m \in Runs => kind = "hook"
      BY <1>1, GatewayAssumption
    <3> QED BY <1>1, <1>12, <2>1, <3>1, IdleType DEF Good, RowsGood, EventsGood, PcGood, Idle
  <2>5. (\A k : ~At(session[c], k) /\ ~At(s, k)) /\ DOMAIN s.new = {}
    BY <1>1, <2>1, IdleType DEF At, Idle
  <2> QED BY <2>2, <2>3, <2>4, <2>5, SentStays, Quiet DEF Authorise
<1> QED BY <1>2, <1>3

(* A copy of rows that exist.                                              *)
LEMMA LoadsGood ==
  ASSUME GatewayInv, NEW r \in SessionRecords, NEW S \in SUBSET Messages, \A m \in S : Known(m),
         r.kind = "tick" \/ (r.msg \in Messages /\ S = {r.msg}),
         r.kind = "hook" => r.msg \notin Runs /\ r.key \in Keys /\ r.msg = MessageOf[r.key],
         NEW s, s = [r EXCEPT !.pc = "look", !.left = S, !.copy = [m \in S |-> row[m]],
                              !.new = <<>>, !.pending = <<>>]
  PROVE  s \in SessionRecords /\ Good(s) /\ DOMAIN s.new = {} /\ \A m : ~At(s, m)
<1>1. [m \in S |-> row[m]] \in Partial /\ DOMAIN [m \in S |-> row[m]] = S
  BY CopiedRows DEF GatewayInv, Types
<1>2. <<>> \in Seq(EventRecords) /\ <<>> \in Partial /\ DOMAIN <<>> = {}
  BY NoObjects
<1>3. PICK f \in Partial : f = [m \in S |-> row[m]] /\ DOMAIN f = S
  BY <1>1
<1>4. PICK e : e = <<>> /\ e \in Seq(EventRecords) /\ e \in Partial /\ DOMAIN e = {}
  BY <1>2
<1>5. s = [r EXCEPT !.pc = "look", !.left = S, !.copy = f, !.new = e, !.pending = e]
  BY <1>3, <1>4
<1>6. /\ s \in SessionRecords /\ s.pc = "look" /\ s.key = r.key /\ s.kind = r.kind /\ s.msg = r.msg
      /\ s.left = S /\ s.copy = f /\ s.new = e /\ s.pending = e
  BY <1>3, <1>4, <1>5 DEF SessionRecords, Places
<1> QED BY <1>3, <1>4, <1>6 DEF Good, RowsGood, EventsGood, PcGood, At

LEMMA PollKeeps ==
  ASSUME GatewayInv, NEW c \in Sessions, Poll(c)
  PROVE  GatewayInv'
<1>1. PICK r \in SessionRecords : r = session[c] /\ Good(r) /\ r.pc = "poll"
  BY Acting DEF Poll
<1>2. /\ r.msg \in Messages /\ Known(r.msg)
      /\ r.kind = "hook" => r.msg \notin Runs /\ r.key \in Keys /\ r.msg = MessageOf[r.key]
  BY <1>1 DEF Good, PcGood
<1>3. PICK s : s = [r EXCEPT !.pc = "look", !.left = {r.msg}, !.copy = [m \in {r.msg} |-> row[m]],
                             !.new = <<>>, !.pending = <<>>]
  OBVIOUS
<1>4. s \in SessionRecords /\ Good(s) /\ DOMAIN s.new = {} /\ \A m : ~At(s, m)
  BY ZenonT(30), <1>2, <1>3, LoadsGood
<1>5. Goes(c, s) /\ \A m : ~At(session[c], m)
  BY <1>1, <1>3 DEF Poll, Loads, At
<1> QED BY <1>4, <1>5, SentStays, Quiet DEF Poll

LEMMA TickKeeps ==
  ASSUME GatewayInv, NEW c \in Sessions, Tick(c)
  PROVE  GatewayInv'
<1>1. PICK r : r = [Idle EXCEPT !.kind = "tick"]
  OBVIOUS
<1>2. r \in SessionRecords /\ r.kind = "tick"
  BY <1>1, IdleIsGood DEF SessionRecords, Kinds
<1>3. PICK S : S = FirstOf(Listed, Batch)
  OBVIOUS
<1>4. S \in SUBSET Messages /\ \A m \in S : Known(m)
  BY <1>3 DEF FirstOf, Listed, Active
<1>5. PICK s : s = [r EXCEPT !.pc = "look", !.left = S, !.copy = [m \in S |-> row[m]],
                             !.new = <<>>, !.pending = <<>>]
  OBVIOUS
<1>6. s \in SessionRecords /\ Good(s) /\ DOMAIN s.new = {} /\ \A m : ~At(s, m)
  BY <1>2, <1>4, <1>5, LoadsGood
<1>7. Goes(c, s) /\ \A m : ~At(session[c], m)
  BY <1>1, <1>3, <1>5 DEF Tick, Loads, Starts, At
<1> QED BY <1>6, <1>7, SentStays, Quiet DEF Tick

LEMMA ReadKeeps ==
  ASSUME GatewayInv, NEW c \in Sessions, Read(c)
  PROVE  GatewayInv'
<1>1. PICK kind \in {"read", "stream"}, m \in Messages :
        /\ session[c].pc = "idle" /\ Known(m)
        /\ Loads(c, [Idle EXCEPT !.kind = kind, !.msg = m], {m})
        /\ sent' = IF kind = "stream" THEN [sent EXCEPT ![m] = "open"] ELSE sent
        /\ UNCHANGED <<row, task, works, events, ids, receipts, approval, cursor, global, doubled, scene>>
  BY DEF Read, Starts
<1>2. PICK r : r = [Idle EXCEPT !.kind = kind, !.msg = m]
  OBVIOUS
<1>3. r \in SessionRecords /\ r.kind = kind /\ r.msg = m
  BY <1>2, IdleIsGood DEF SessionRecords, Kinds
<1>4. PICK s : s = [r EXCEPT !.pc = "look", !.left = {m}, !.copy = [k \in {m} |-> row[k]],
                             !.new = <<>>, !.pending = <<>>]
  OBVIOUS
<1>5. s \in SessionRecords /\ Good(s) /\ DOMAIN s.new = {} /\ \A k : ~At(s, k)
  <2>1. PICK S \in SUBSET Messages : S = {m}
    OBVIOUS
  <2>2. \A k \in S : Known(k)
    BY <1>1, <2>1
  <2>3. r.msg \in Messages /\ S = {r.msg} /\ r.kind # "hook"
    BY <1>1, <1>3, <2>1
  <2>4. s = [r EXCEPT !.pc = "look", !.left = S, !.copy = [k \in S |-> row[k]],
                      !.new = <<>>, !.pending = <<>>]
    BY <1>4, <2>1
  <2> QED BY <1>3, <2>2, <2>3, <2>4, LoadsGood
<1>6. Goes(c, s) /\ \A k : ~At(session[c], k)
  BY <1>1, <1>2, <1>4 DEF Loads, At
<1>7. sent = [k \in Messages |-> sent[k]] /\ \A k \in Messages : sent[k] # "cut"
  BY DEF GatewayInv, Types, MessageInv
<1>8. sent' = [k \in Messages |-> sent'[k]] /\ \A k \in Messages : sent'[k] # "cut"
  BY <1>1, <1>7
<1> QED BY <1>1, <1>5, <1>6, <1>8, Quiet

LEMMA LookKeeps ==
  ASSUME GatewayInv, NEW c \in Sessions, Look(c)
  PROVE  GatewayInv'
<1>1. PICK r \in SessionRecords : r = session[c] /\ Good(r) /\ r.pc = "look"
  BY Acting DEF Look
<1>2. r.left \in SUBSET Messages /\ r.left \subseteq DOMAIN r.copy
  BY <1>1 DEF SessionRecords, Good, RowsGood
<1>3. \A m : ~At(session[c], m)
  BY <1>1 DEF At
<1>4. CASE r.left = {}
  <2>1. PICK s : s = [r EXCEPT !.pc = "commit"]
    OBVIOUS
  <2>2. s \in SessionRecords /\ s.new = r.new /\ \A m : ~At(s, m)
    BY <2>1 DEF SessionRecords, Places, At
  <2>3. Good(s)
    BY <1>1, <2>1 DEF Good, RowsGood, EventsGood, PcGood, SessionRecords
  <2>4. Goes(c, s)
    BY <1>1, <1>4, <2>1 DEF Look
  <2> QED BY <1>1, <1>3, <2>2, <2>3, <2>4, SentStays, Quiet DEF Look
<1>5. CASE r.left # {}
  <2>1. PICK m \in r.left : m = Least(r.left)
    <3>1. r.left \in SUBSET Nat
      BY <1>2, GatewayAssumption
    <3>2. \E m \in r.left : \A k \in r.left : m <= k
      BY <1>5, <3>1, LeastNatural
    <3> QED BY <3>2 DEF Least
  <2>2. m \in Messages /\ m \in DOMAIN r.copy /\ Known(m)
    BY <1>1, <1>2 DEF Good, RowsGood
  <2>3. task[m] \in Statuses \ {"NONE"}
    BY <2>2 DEF GatewayInv, Types, MessageInv
  <2>4. PICK s : s = [r EXCEPT !.pc = "flush", !.msg = m, !.saw = task[m]]
    OBVIOUS
  <2>5. s \in SessionRecords /\ s.new = r.new /\ \A k : ~At(s, k)
    BY <2>2, <2>3, <2>4 DEF SessionRecords, Places, At
  <2>6. Good(s)
    <3>1. /\ s.pc = "flush" /\ s.msg = m /\ s.saw = task[m] /\ s.key = r.key /\ s.kind = r.kind /\ s.left = r.left
          /\ s.copy = r.copy /\ s.pending = r.pending
      BY <2>4 DEF SessionRecords
    <3>2. RowsGood(s)
      BY <1>1, <2>5, <3>1 DEF Good, RowsGood
    <3>3. EventsGood(s)
      BY <1>1, <2>5, <3>1 DEF Good, EventsGood
    <3>4. PcGood(s)
      <4>1. r.kind # "tick" => m = r.msg /\ r.left \subseteq {m}
        BY <1>1, <1>2 DEF Good, PcGood
      <4> QED BY <1>1, <2>2, <2>3, <3>1, <4>1 DEF Good, PcGood
    <3> QED BY <3>2, <3>3, <3>4 DEF Good
  <2>7. Goes(c, s)
    BY <1>1, <1>5, <2>1, <2>4 DEF Look
  <2> QED BY <1>1, <1>3, <2>5, <2>6, <2>7, SentStays, Quiet DEF Look
<1> QED BY <1>4, <1>5

LEMMA CancelLoadKeeps ==
  ASSUME GatewayInv, NEW c \in Sessions, CancelLoad(c)
  PROVE  GatewayInv'
<1>1. PICK r \in SessionRecords : r = session[c] /\ Good(r) /\ r.pc = "cancel"
  BY Acting DEF CancelLoad
<1>2. /\ r.msg \in Messages /\ Known(r.msg) /\ r.left = {} /\ DOMAIN r.new = {}
      /\ row[r.msg] \in Rows /\ task[r.msg] \in Statuses /\ DOMAIN r.copy = {}
  BY <1>1 DEF Good, PcGood, RowsGood, GatewayInv, Types
<1>3. \A m : ~At(session[c], m)
  BY <1>1 DEF At
<1>4. CASE row[r.msg].state \in Terminal
  <2>1. PICK s : s = [r EXCEPT !.pc = "account"]
    OBVIOUS
  <2>2. s \in SessionRecords /\ s.new = r.new /\ \A m : ~At(s, m)
    BY <2>1 DEF SessionRecords, Places, At
  <2>3. Good(s)
    BY <1>1, <1>2, <2>1 DEF Good, RowsGood, EventsGood, PcGood, SessionRecords
  <2>4. Goes(c, s)
    BY <1>1, <1>4, <2>1 DEF CancelLoad
  <2> QED BY <1>1, <1>3, <2>2, <2>3, <2>4, SentStays, Quiet DEF CancelLoad
<1>5. CASE row[r.msg].state \notin Terminal
  <2>1. PICK f \in Partial : f = Only(r.msg, row[r.msg]) /\ DOMAIN f = {r.msg}
    BY <1>2, OnlyObject
  <2>2. PICK s : s = [r EXCEPT !.pc = "canceling", !.copy = f, !.saw = task[r.msg]]
    OBVIOUS
  <2>3. /\ s \in SessionRecords /\ s.pc = "canceling" /\ s.copy = f /\ s.new = r.new /\ s.key = r.key /\ s.kind = r.kind
        /\ s.pending = r.pending /\ s.left = {} /\ s.msg = r.msg
    BY <1>2, <2>1, <2>2 DEF SessionRecords, Places
  <2>4. Good(s) /\ \A m : ~At(s, m)
    <3>1. RowsGood(s)
      BY <1>1, <1>2, <2>1, <2>3 DEF Good, RowsGood
    <3>2. EventsGood(s)
      BY <1>1, <1>2, <2>1, <2>3 DEF Good, EventsGood
    <3>3. PcGood(s)
      BY <1>1, <1>2, <2>1, <2>3 DEF Good, PcGood
    <3> QED BY <2>3, <3>1, <3>2, <3>3 DEF Good, At
  <2>5. Goes(c, s)
    BY <1>1, <1>5, <2>1, <2>2 DEF CancelLoad
  <2> QED BY <1>1, <1>3, <2>3, <2>4, <2>5, SentStays, Quiet DEF CancelLoad
<1> QED BY <1>4, <1>5

LEMMA RefreshKeeps ==
  ASSUME GatewayInv, NEW c \in Sessions, Refresh(c)
  PROVE  GatewayInv'
<1>1. PICK r \in SessionRecords : r = session[c] /\ Good(r) /\ r.pc = "refresh"
  BY Acting DEF Refresh
<1>2. r.msg \in Messages /\ Known(r.msg) /\ DOMAIN r.new = {}
  BY <1>1 DEF Good, PcGood, RowsGood
<1>3. PICK b \in BOOLEAN : b = (row[r.msg].state \in Terminal)
  <2>1. (row[r.msg].state \in Terminal) \in BOOLEAN
    OBVIOUS
  <2> QED BY <2>1, Zenon
<1>4. PICK s : s = [r EXCEPT !.pc = "deliver", !.final = b]
  OBVIOUS
<1>5. /\ s \in SessionRecords /\ s.pc = "deliver" /\ s.final = b /\ s.new = r.new /\ s.msg = r.msg
      /\ s.copy = r.copy /\ s.left = r.left /\ s.pending = r.pending /\ s.key = r.key /\ s.kind = r.kind
  BY <1>3, <1>4 DEF SessionRecords, Places
<1>6. b = TRUE => HasEnded(r.msg)
  BY <1>2, <1>3 DEF GatewayInv, MessageInv
<1>7. Good(s) /\ \A m : ~At(s, m)
  BY <1>1, <1>2, <1>5, <1>6 DEF Good, RowsGood, EventsGood, PcGood, At
<1>8. Goes(c, s) /\ \A m : ~At(session[c], m)
  BY <1>1, <1>3, <1>4 DEF Refresh, At
<1> QED BY <1>1, <1>5, <1>7, <1>8, SentStays, Quiet DEF Refresh

LEMMA DeliverKeeps ==
  ASSUME GatewayInv, NEW c \in Sessions, Deliver(c)
  PROVE  GatewayInv'
<1>1. PICK r \in SessionRecords : r = session[c] /\ Good(r) /\ r.pc = "deliver"
  BY Acting DEF Deliver
<1>2. r.msg \in Messages /\ Known(r.msg) /\ DOMAIN r.new = {} /\ (r.final => HasEnded(r.msg))
  BY <1>1 DEF Good, PcGood, RowsGood
<1>3. sent = [m \in Messages |-> sent[m]] /\ \A m \in Messages : sent[m] # "cut"
  BY DEF GatewayInv, Types, MessageInv
<1>4. sent' = [sent EXCEPT ![r.msg] = IF ~r.final THEN "open" ELSE IF HasEnded(r.msg) THEN "ended" ELSE "cut"]
  BY <1>1 DEF Deliver, HasEnded
<1>5. sent' = [m \in Messages |-> sent'[m]] /\ \A m \in Messages : sent'[m] # "cut"
  BY <1>2, <1>3, <1>4
<1>6. PICK s : s = IF r.final THEN Idle ELSE [r EXCEPT !.pc = "poll"]
  OBVIOUS
<1>7. Goes(c, s) /\ \A m : ~At(session[c], m)
  BY <1>1, <1>6 DEF Deliver, At
<1>8. s \in SessionRecords /\ Good(s) /\ DOMAIN s.new = {} /\ \A m : ~At(s, m)
  <2>1. CASE r.final
    BY <1>6, <2>1, IdleIsGood, IdleType
  <2>2. CASE ~r.final
    <3>1. s = [r EXCEPT !.pc = "poll"]
      BY <1>6, <2>2
    <3> QED BY <1>1, <1>2, <3>1 DEF SessionRecords, Places, Good, RowsGood, EventsGood, PcGood, At
  <2> QED BY <2>1, <2>2
<1> QED BY <1>1, <1>5, <1>7, <1>8, Quiet DEF Deliver

(* Handlers that look for a receipt while another delivers are noted; one  *)
(* that goes on alone finds the hook not run yet.                          *)
LEMMA LookupKeeps ==
  ASSUME GatewayInv, NEW c \in Sessions, Lookup(c)
  PROVE  GatewayInv'
<1>1. PICK r \in SessionRecords : r = session[c] /\ Good(r) /\ r.pc = "lookup"
  BY Acting DEF Lookup
<1>2. PICK m \in Messages : m = r.msg
  BY <1>1 DEF Good, PcGood
<1>3. /\ DOMAIN r.copy = {} /\ DOMAIN r.new = {} /\ r.left = {} /\ (m \in Runs => r.kind = "hook")
      /\ \A k : ~At(session[c], k)
  BY <1>1, <1>2 DEF Good, PcGood, RowsGood, At
<1>4. /\ doubled \subseteq doubled'
      /\ UNCHANGED <<row, task, works, events, ids, receipts, sent, global, scene>>
  BY DEF Lookup
<1>5. CASE r.kind = "hook" /\ Received(r.key)
  <2>1. PICK s : s = [r EXCEPT !.pc = "account"]
    OBVIOUS
  <2>2. s \in SessionRecords /\ s.new = r.new /\ \A k : ~At(s, k)
    BY <2>1 DEF SessionRecords, Places, At
  <2>3. Good(s)
    BY <1>1, <1>3, <2>1 DEF Good, RowsGood, EventsGood, PcGood, SessionRecords
  <2>4. Goes(c, s)
    BY <1>1, <1>2, <1>5, <2>1 DEF Lookup
  <2> QED BY <1>1, <1>3, <1>4, <2>2, <2>3, <2>4, SentStays, Quiet
<1>6. CASE ~(r.kind = "hook" /\ Received(r.key))
  <2>1. doubled' = IF \E d \in Sessions : Delivering(d, m) THEN doubled \cup {m} ELSE doubled
    BY <1>1, <1>2, <1>6 DEF Lookup
  <2>2. CASE Goes(c, Idle)
    BY <1>3, <1>4, <2>2, IdleIsGood, IdleType, SentStays, Quiet
  <2>3. ASSUME m \notin Runs, ~Known(m), NEW s, s = [r EXCEPT !.pc = "insert"], Goes(c, s)
        PROVE  GatewayInv'
    <3>1. s \in SessionRecords /\ s.new = r.new /\ \A k : ~At(s, k)
      BY <2>3 DEF SessionRecords, Places, At
    <3>2. Good(s)
      BY <1>1, <1>2, <1>3, <2>3 DEF Good, RowsGood, EventsGood, PcGood, SessionRecords
    <3> QED BY <1>1, <1>3, <1>4, <2>3, <3>1, <3>2, SentStays, Quiet
  <2>4. ASSUME m \notin Runs, Known(m), NEW f \in Partial, f = Only(m, row[m]), DOMAIN f = {m},
               NEW s, s = [r EXCEPT !.pc = "look", !.left = {m}, !.copy = f], Goes(c, s)
        PROVE  GatewayInv'
    <3>1. /\ s \in SessionRecords /\ s.new = r.new /\ s.pc = "look" /\ s.left = {m} /\ s.copy = f
          /\ s.key = r.key /\ s.kind = r.kind /\ s.msg = m /\ s.pending = r.pending
      BY <1>2, <2>4 DEF SessionRecords, Places
    <3>2. RowsGood(s) /\ EventsGood(s) /\ PcGood(s) /\ \A k : ~At(s, k)
      BY <1>1, <1>2, <1>3, <2>4, <3>1 DEF Good, RowsGood, EventsGood, PcGood, At
    <3> QED BY <1>1, <1>3, <1>4, <2>4, <3>1, <3>2, SentStays, Quiet DEF Good
  <2>5. ASSUME m \in Runs, NEW s, s = [r EXCEPT !.pc = "run"], Goes(c, s)
        PROVE  GatewayInv'
    <3>1. /\ s \in SessionRecords /\ s.new = r.new /\ s.pc = "run" /\ s.msg = m /\ s.kind = "hook"
          /\ s.left = {} /\ s.copy = r.copy /\ s.pending = r.pending
      BY <1>2, <1>3, <2>5 DEF SessionRecords, Places
    <3>2. Good(s)
      BY <1>1, <1>2, <1>3, <2>5, <3>1 DEF Good, RowsGood, EventsGood, PcGood
    <3>3. \A k \in Whole \ doubled' : k # m => RunInv(k)'
      <4>1. \A k : k # m => ~At(s, k)
        BY <3>1 DEF At
      <4> QED BY <1>3, <1>4, <2>5, <4>1, OtherRun DEF Whole
    <3>4. ASSUME m \in Whole \ doubled' PROVE RunInv(m)'
      <4>1. RunInv(m) /\ \A d \in Sessions : ~Delivering(d, m)
        BY <2>1, <2>5, <3>4 DEF GatewayInv, RunsInv
      <4>2. \A d \in Sessions : ~At(session[d], m)
        BY <4>1 DEF At, Delivering
      <4>3. ~Delivered(m)
        <5>1. r.key \in Keys /\ MessageOf[r.key] = m /\ r.key \notin receipts
          BY <1>1, <1>2, <1>3, <1>6, <2>5 DEF Received, Good, PcGood
        <5>2. receipts \subseteq Keys
          BY DEF GatewayInv, Types
        <5> QED BY <2>5, <5>1, <5>2, GatewayAssumption DEF Delivered
      <4>4. works[m] = 0
        BY <4>1, <4>2, <4>3 DEF RunInv
      <4>5. session'[c] = s /\ \A d \in Sessions \ {c} : session'[d] = session[d]
        BY <2>5 DEF Goes, GatewayInv, Types
      <4>6. \A d \in Sessions : At(session'[d], m) => d = c
        BY <4>2, <4>5
      <4>7. works'[m] = 0
        BY <1>4, <4>4
      <4> QED BY <4>6, <4>7 DEF RunInv, At
    <3>5. RunsInv'
      <4>1. ReceiptsInv'
        BY <1>4, ReceiptsStay DEF GatewayInv, Types
      <4> QED BY <3>3, <3>4, <4>1 DEF RunsInv
    <3>6. Aside
      BY <1>4, SentStays DEF Aside, GatewayInv, Types
    <3>7. Good(s)'
      BY <3>2, <3>6, Stay
    <3> QED BY <1>3, <2>5, <3>1, <3>5, <3>6, <3>7, Local
  <2>6. PICK s, f : /\ f = Only(m, row[m])
                    /\ s = IF m \in Runs THEN [r EXCEPT !.pc = "run"]
                           ELSE IF Known(m) THEN [r EXCEPT !.pc = "look", !.left = {m}, !.copy = f]
                           ELSE [r EXCEPT !.pc = "insert"]
    OBVIOUS
  <2>7. Goes(c, s) \/ Goes(c, Idle)
    BY <1>1, <1>2, <1>6, <2>6 DEF Lookup, Refuse
  <2>8. f \in Partial /\ DOMAIN f = {m}
    <3>1. row[m] \in Rows
      BY DEF GatewayInv, Types
    <3> QED BY <2>6, <3>1, OnlyObject
  <2> QED BY <2>2, <2>3, <2>4, <2>5, <2>6, <2>7, <2>8
<1> QED BY <1>5, <1>6

LEMMA DispatchKeeps ==
  ASSUME GatewayInv, NEW c \in Sessions, Dispatch(c)
  PROVE  GatewayInv'
<1>1. PICK r \in SessionRecords : r = session[c] /\ Good(r) /\ r.pc = "dispatch"
  BY Acting DEF Dispatch
<1>2. PICK m \in Messages : m = r.msg /\ Known(m) /\ m \in DOMAIN r.copy /\ DOMAIN r.new = {}
  BY <1>1 DEF Good, PcGood, RowsGood
<1>3. PICK s : s = [r EXCEPT !.pc = "look", !.left = {m}]
  OBVIOUS
<1>4. /\ s \in SessionRecords /\ s.new = r.new /\ s.pc = "look" /\ s.left = {m} /\ s.copy = r.copy
      /\ s.key = r.key /\ s.kind = r.kind /\ s.msg = m /\ s.pending = r.pending
  BY <1>2, <1>3 DEF SessionRecords, Places
<1>5. Good(s) /\ \A k : ~At(s, k) /\ ~At(session[c], k)
  BY <1>1, <1>2, <1>4 DEF Good, RowsGood, EventsGood, PcGood, At
<1>6. Goes(c, s) /\ UNCHANGED <<works, receipts, doubled>>
  BY <1>1, <1>2, <1>3 DEF Dispatch
<1>7. task[m] \in Statuses \ {"NONE"} /\ task \in [Messages -> Statuses]
  BY <1>2 DEF GatewayInv, Types, MessageInv
<1>8. PICK status \in Statuses \ {"NONE"} : task' = [task EXCEPT ![m] = status]
  BY <1>1, <1>2, <1>7 DEF Dispatch, Statuses
<1>9. Aside
  <2>1. task' \in [Messages -> Statuses] /\ \A k \in Messages : task[k] # "NONE" => task'[k] # "NONE"
    BY <1>7, <1>8
  <2>2. UNCHANGED <<row, events, global, scene, works, ids, sent>>
    BY DEF Dispatch
  <2> QED BY <1>6, <2>1, <2>2, SentStays, WorksGrow DEF Aside, GatewayInv, Types
<1>10. Good(s)' /\ RunsInv'
  BY <1>5, <1>6, <1>9, Stay, RunsFrame, WorksGrow
<1> QED BY <1>2, <1>4, <1>6, <1>9, <1>10, Local

(* The run of a hook is started, ...                                       *)
LEMMA RunKeeps ==
  ASSUME GatewayInv, NEW c \in Sessions, Run(c)
  PROVE  GatewayInv'
<1>1. PICK r \in SessionRecords : r = session[c] /\ Good(r) /\ r.pc = "run"
  BY Acting DEF Run
<1>2. PICK m \in Runs : m = r.msg /\ r.kind = "hook" /\ DOMAIN r.copy = {} /\ DOMAIN r.new = {} /\ r.left = {}
  BY <1>1 DEF Good, PcGood, RowsGood
<1>3. PICK s : s = [r EXCEPT !.pc = "receipt"]
  OBVIOUS
<1>4. /\ s \in SessionRecords /\ s.new = r.new /\ s.pc = "receipt" /\ s.left = {} /\ s.copy = r.copy
      /\ s.key = r.key /\ s.kind = "hook" /\ s.msg = m /\ s.pending = r.pending /\ m \in Messages
  BY <1>2, <1>3, GatewayAssumption DEF SessionRecords, Places
<1>5. RowsGood(s) /\ EventsGood(s) /\ r.key \in Keys /\ m = MessageOf[r.key]
  BY <1>1, <1>2, <1>4 DEF Good, RowsGood, EventsGood, PcGood
<1>6. Goes(c, s) /\ works' = [works EXCEPT ![m] = @ + 1] /\ UNCHANGED <<receipts, doubled>>
  BY <1>1, <1>2, <1>3 DEF Run
<1>7. works \in [Messages -> Nat] /\ session \in [Sessions -> SessionRecords]
  BY DEF GatewayInv, Types
<1>8. Aside
  <2>1. /\ works' \in [Messages -> Nat] /\ \A k \in Messages \ Runs : works'[k] = works[k]
        /\ \A k \in Messages : works'[k] >= works[k]
    <3>1. m \in Messages /\ works[m] + 1 \in Nat
      BY <1>4, <1>7
    <3> QED BY <1>2, <1>6, <1>7, <3>1
  <2>2. UNCHANGED <<row, events, global, scene, task, ids, sent>>
    BY DEF Run
  <2> QED BY <1>6, <2>1, <2>2, SentStays DEF Aside, GatewayInv, Types
<1>9. \A k \in Whole \ doubled' : k # m => RunInv(k)'
  <2>1. \A k : k # m => ~At(s, k) /\ ~At(session[c], k)
    BY <1>1, <1>2, <1>4 DEF At
  <2>2. \A k \in Runs : k # m => works'[k] = works[k]
    BY <1>6, <1>7, GatewayAssumption
  <2> QED BY <1>6, <2>1, <2>2, OtherRun DEF Whole
<1>10. ASSUME m \in Whole \ doubled' PROVE RunInv(m)'
  <2>1. RunInv(m) /\ At(session[c], m) /\ session[c].pc = "run"
    BY <1>1, <1>2, <1>6, <1>10 DEF GatewayInv, RunsInv, At
  <2>2. works[m] = 0 /\ \A d \in Sessions : At(session[d], m) => d = c
    BY <2>1 DEF RunInv
  <2>3. session'[c] = s /\ \A d \in Sessions \ {c} : session'[d] = session[d]
    BY <1>6, <1>7 DEF Goes
  <2>4. works'[m] = 1
    BY <1>4, <1>6, <1>7, <2>2
  <2>5. \A d \in Sessions : At(session'[d], m) => d = c
    BY <2>2, <2>3
  <2>6. At(session'[c], m) /\ session'[c].pc = "receipt"
    BY <1>4, <2>3 DEF At
  <2> QED BY <2>4, <2>5, <2>6 DEF RunInv, At
<1>11. RunsInv'
  <2>1. ReceiptsInv'
    BY <1>6, <1>8, ReceiptsStay DEF Aside
  <2> QED BY <1>9, <1>10, <2>1 DEF RunsInv
<1>12. Good(s)'
  <2>1. RowsGood(s)'
    BY <1>5, <1>8 DEF RowsGood, Known, Aside
  <2>2. EventsGood(s)'
    BY <1>4, <1>5, <1>8 DEF EventsGood, Passed, Aside, GatewayInv, Types
  <2>3. works'[m] > 0
    BY <1>4, <1>6, <1>7
  <2>4. PcGood(s)'
    BY <1>2, <1>4, <1>5, <2>3 DEF PcGood
  <2> QED BY <2>1, <2>2, <2>4 DEF Good
<1> QED BY <1>2, <1>4, <1>6, <1>8, <1>11, <1>12, Local

(* ... and has its receipt.                                                *)
LEMMA ReceiptKeeps ==
  ASSUME GatewayInv, NEW c \in Sessions, Receipt(c)
  PROVE  GatewayInv'
<1>1. PICK r \in SessionRecords : r = session[c] /\ Good(r) /\ r.pc = "receipt"
  BY Acting DEF Receipt
<1>2. PICK m \in Messages : m = r.msg /\ r.kind = "hook" /\ DOMAIN r.new = {}
  BY <1>1 DEF Good, PcGood, RowsGood
<1>30. r.key \in Keys /\ m = MessageOf[r.key] /\ works[m] > 0
  BY <1>1, <1>2 DEF Good, PcGood
<1>31. PICK kept \in Keys : kept = Stored[r.key]
  BY <1>30, GatewayAssumption
<1>3. PICK s : s = IF kept \in receipts THEN Idle ELSE [r EXCEPT !.pc = "account"]
  OBVIOUS
<1>4. s \in SessionRecords /\ Good(s) /\ DOMAIN s.new = {} /\ \A k : ~At(s, k)
  <2>1. CASE kept \in receipts
    BY <1>3, <2>1, IdleIsGood, IdleType
  <2>2. CASE kept \notin receipts
    <3>1. s = [r EXCEPT !.pc = "account"]
      BY <1>3, <2>2
    <3>2. /\ s \in SessionRecords /\ s.new = r.new /\ s.pc = "account" /\ s.left = r.left
          /\ s.copy = r.copy /\ s.key = r.key /\ s.kind = "hook" /\ s.msg = m /\ s.pending = r.pending
      BY <1>2, <3>1 DEF SessionRecords, Places
    <3> QED BY <1>1, <1>2, <3>2 DEF Good, RowsGood, EventsGood, PcGood, At
  <2> QED BY <2>1, <2>2
<1>5. Goes(c, s) /\ receipts' = receipts \cup {kept} /\ UNCHANGED <<works, doubled>>
  BY <1>1, <1>3, <1>31 DEF Receipt
<1>6. Aside
  <2>1. UNCHANGED <<row, events, global, scene, task, works, ids, sent>>
    BY DEF Receipt
  <2> QED BY <1>5, <2>1, SentStays, WorksGrow DEF Aside, GatewayInv, Types
<1>7. \A k \in Whole \ doubled' : k # m => RunInv(k)'
  <2>1. \A k : k # m => ~At(s, k) /\ ~At(session[c], k)
    BY <1>1, <1>2, <1>4 DEF At
  <2> QED BY <1>5, <2>1, OtherRun DEF Whole
<1>8. ASSUME m \in Whole \ doubled' PROVE RunInv(m)'
  <2>1. RunInv(m) /\ At(session[c], m)
    BY <1>1, <1>2, <1>5, <1>8 DEF GatewayInv, RunsInv, At
  <2>2. works'[m] \in {0, 1} /\ \A d \in Sessions : At(session[d], m) => d = c
    BY <1>5, <2>1 DEF RunInv
  <2>3. session'[c] = s /\ \A d \in Sessions \ {c} : session'[d] = session[d]
    BY <1>5 DEF Goes, GatewayInv, Types
  <2>4. \A d \in Sessions : ~At(session'[d], m)
    BY <1>4, <2>2, <2>3
  <2>5. kept = r.key
    BY <1>8, <1>30, <1>31, GatewayAssumption DEF Whole, Cut, KeysOf
  <2>6. Delivered(m)'
    BY <1>5, <1>30, <2>5 DEF Delivered
  <2> QED BY <1>5, <2>2, <2>4, <2>6 DEF RunInv, At
<1>9. RunsInv'
  <2>1. ASSUME NEW one \in receipts' PROVE \E key \in Keys : Stored[key] = one /\ works'[MessageOf[key]] > 0
    <3>1. CASE one = kept
      BY <1>5, <1>30, <1>31, <3>1
    <3>2. CASE one \in receipts
      BY <1>5, <3>2 DEF GatewayInv, RunsInv, ReceiptsInv
    <3> QED BY <1>5, <2>1, <3>1, <3>2
  <2> QED BY <1>7, <1>8, <2>1 DEF RunsInv, ReceiptsInv
<1>10. Good(s)'
  BY <1>4, <1>6, Stay
<1> QED BY <1>4, <1>5, <1>6, <1>9, <1>10, Local

LEMMA CrashKeeps ==
  ASSUME GatewayInv, NEW c \in Sessions, Crash(c)
  PROVE  GatewayInv'
<1>1. doubled \subseteq doubled' /\ \A m \in Whole \ doubled' : ~At(session[c], m)
  BY DEF Crash, At, Delivering
<1> QED BY <1>1, IdleIsGood, IdleType, SentStays, Quiet DEF Crash

(* An object and an event are added to a session's: s after, r before.     *)
Grown(s, r, m, new) ==
    /\ s.pc = r.pc /\ s.key = r.key /\ s.kind = r.kind /\ s.msg = r.msg /\ s.left = r.left /\ s.copy = r.copy
    /\ s.saw = r.saw
    /\ DOMAIN s.new = DOMAIN r.new \cup {m} /\ s.new[m] = new
    /\ \A k \in DOMAIN r.new : k # m => s.new[k] = r.new[k]

Logged(s, r, m, new) ==
    /\ \A i \in DOMAIN r.pending : i \in DOMAIN s.pending /\ s.pending[i] = r.pending[i]
    /\ \E i \in DOMAIN s.pending : s.pending[i].msg = m /\ s.pending[i].state = new.state
    /\ \A i \in DOMAIN s.pending :
          (i \in DOMAIN r.pending /\ s.pending[i] = r.pending[i]) \/ s.pending[i].id = ids + 1

With(r, m, new, q) == [r EXCEPT !.new = Put(r.new, m, new), !.pending = q]

LEMMA ObjectAdded ==
  ASSUME NEW r \in SessionRecords, NEW m \in Messages, NEW new \in Rows, NEW q \in Seq(EventRecords)
  PROVE  With(r, m, new, q) \in SessionRecords /\ Grown(With(r, m, new, q), r, m, new)
         /\ With(r, m, new, q).pending = q
<1> DEFINE s == With(r, m, new, q)
<1>1. r.new \in Partial
  BY DEF SessionRecords
<1>2. PICK f : f = Put(r.new, m, new)
  OBVIOUS
<1>3. /\ f \in Partial /\ DOMAIN f = DOMAIN r.new \cup {m} /\ f[m] = new
      /\ \A k \in DOMAIN r.new : k # m => f[k] = r.new[k]
  BY <1>1, <1>2, PutObject
<1>4. s = [r EXCEPT !.new = f, !.pending = q]
  BY <1>2 DEF With
<1> HIDE DEF s
<1>5. /\ s \in SessionRecords /\ s.new = f /\ s.pending = q /\ s.pc = r.pc /\ s.key = r.key /\ s.kind = r.kind
      /\ s.msg = r.msg /\ s.left = r.left /\ s.copy = r.copy /\ s.saw = r.saw
  BY <1>3, <1>4 DEF SessionRecords
<1>6. Grown(s, r, m, new)
  BY <1>3, <1>5 DEF Grown
<1> QED BY <1>5, <1>6 DEF s

LEMMA EventAdded ==
  ASSUME GatewayInv, NEW c \in Sessions, NEW r \in SessionRecords, NEW m \in Messages, NEW new \in Rows,
         AddEvent(c, r, m, new)
  PROVE  /\ ids' = ids + 1
         /\ \E s \in SessionRecords : Goes(c, s) /\ Grown(s, r, m, new) /\ Logged(s, r, m, new)
<1>1. PICK e : e = [msg |-> m, sequence |-> NextSequence(m), id |-> ids + 1, state |-> new.state]
  OBVIOUS
<1>2. e \in EventRecords /\ e.msg = m /\ e.id = ids + 1 /\ e.state = new.state
  <2>1. NextSequence(m) \in Nat
    <3>1. Cardinality(events[m]) \in Nat
      BY FS_CardinalityType DEF GatewayInv, Types
    <3> QED BY <3>1 DEF NextSequence
  <2>2. ids + 1 \in Nat
    BY DEF GatewayInv, Types
  <2>3. new.state \in States
    BY DEF Rows
  <2> QED BY <1>1, <2>1, <2>2, <2>3 DEF EventRecords
<1>3. PICK p \in Seq(EventRecords) : p = r.pending
  BY DEF SessionRecords
<1>4. PICK q : q = Append(p, e) /\ q \in Seq(EventRecords)
  <2>1. Append(p, e) \in Seq(EventRecords)
    BY <1>2
  <2> QED BY <2>1
<1>5. /\ \A i \in DOMAIN p : i \in DOMAIN q /\ q[i] = p[i]
      /\ Len(p) + 1 \in DOMAIN q /\ q[Len(p) + 1] = e
      /\ \A i \in DOMAIN q : i \in DOMAIN p \/ i = Len(p) + 1
  BY <1>2, <1>4
<1>6. PICK s : s = With(r, m, new, q)
  OBVIOUS
<1>7. s \in SessionRecords /\ Grown(s, r, m, new) /\ s.pending = q
  BY <1>4, <1>6, ObjectAdded
<1>8. Goes(c, s) /\ ids' = ids + 1
  <2>1. s = [r EXCEPT !.new = Put(r.new, m, new), !.pending = Append(r.pending, e)]
    BY <1>3, <1>4, <1>6 DEF With
  <2> QED BY <1>1, <2>1 DEF AddEvent
<1>9. Logged(s, r, m, new)
  BY <1>2, <1>3, <1>5, <1>7 DEF Logged
<1> QED BY <1>7, <1>8, <1>9

(* What a session that writes an object has to see to.                     *)
LEMMA EventsStayGood ==
  ASSUME GatewayInv, Aside, NEW r, EventsGood(r), NEW s, NEW m, NEW new, Grown(s, r, m, new),
         \/ Logged(s, r, m, new) /\ ids' = ids + 1
         \/ s.pending = r.pending /\ (m \in DOMAIN r.copy => new.state = r.copy[m].state)
  PROVE  EventsGood(s)'
<1>1. ids \in Nat /\ ids' \in Nat /\ ids <= ids' /\ global.cursor <= ids /\ global.cursor \in Nat
  BY DEF GatewayInv, Types, Aside
<1>2. \A i \in DOMAIN r.pending : r.pending[i].id \in 1..ids' /\ Passed(r.pending[i].id)'
  BY <1>1 DEF EventsGood, Passed, Aside
<1>4. \A i \in DOMAIN s.pending : s.pending[i].id \in 1..ids' /\ Passed(s.pending[i].id)'
  <2>1. ASSUME NEW i \in DOMAIN s.pending
        PROVE  (i \in DOMAIN r.pending /\ s.pending[i] = r.pending[i]) \/ (s.pending[i].id = ids + 1 /\ ids' = ids + 1)
    BY DEF Logged
  <2>2. ASSUME NEW i \in DOMAIN s.pending
        PROVE  s.pending[i].id \in 1..ids' /\ Passed(s.pending[i].id)'
    <3>1. CASE i \in DOMAIN r.pending /\ s.pending[i] = r.pending[i]
      BY <1>2, <3>1
    <3>2. CASE s.pending[i].id = ids + 1 /\ ids' = ids + 1
      <4>1. PICK n : n = s.pending[i].id
        OBVIOUS
      <4>2. n \in 1..ids' /\ ~(n <= global.cursor)
        BY <1>1, <3>2, <4>1
      <4>3. Passed(n)'
        BY <4>2 DEF Passed, Aside
      <4> QED BY <4>1, <4>2, <4>3 DEF Passed
    <3> QED BY <2>1, <3>1, <3>2
  <2> QED BY <2>2 DEF Passed
<1>5. ASSUME NEW k \in DOMAIN s.new \cap DOMAIN s.copy, s.new[k].state # s.copy[k].state,
             s.new[k].state \in Terminal
      PROVE  \E i \in DOMAIN s.pending : s.pending[i].msg = k /\ s.pending[i].state = s.new[k].state
  <2>1. CASE k = m
    BY <1>5, <2>1 DEF Grown, Logged
  <2>2. CASE k # m
    <3>1. k \in DOMAIN r.new \cap DOMAIN r.copy /\ s.new[k] = r.new[k] /\ s.copy = r.copy
      BY <1>5, <2>2 DEF Grown
    <3>2. PICK i \in DOMAIN r.pending : r.pending[i].msg = k /\ r.pending[i].state = r.new[k].state
      BY <1>5, <3>1 DEF EventsGood
    <3>3. i \in DOMAIN s.pending /\ s.pending[i] = r.pending[i]
      BY <3>2 DEF Logged
    <3> QED BY <3>1, <3>2, <3>3
  <2> QED BY <2>1, <2>2
<1> QED BY <1>4, <1>5 DEF EventsGood, Passed

LEMMA LockTaken ==
  ASSUME GatewayInv, NEW c \in Sessions, NEW r, DOMAIN r.new \subseteq DOMAIN session[c].new,
         NEW m, RowFree(c, m), NEW s, NEW new, Grown(s, r, m, new)
  PROVE  \A d \in Sessions \ {c} : DOMAIN s.new \cap DOMAIN session[d].new = {}
  BY DEF GatewayInv, Locks, RowFree, Grown

LEMMA SyncKeeps ==
  ASSUME GatewayInv, NEW c \in Sessions, Sync(c)
  PROVE  GatewayInv'
<1>1. PICK r0 \in SessionRecords : r0 = session[c] /\ Good(r0) /\ r0.pc = "flush"
  BY Acting DEF Sync
<1>2. PICK m \in Messages : m = r0.msg /\ m \in DOMAIN r0.copy /\ r0.saw \in Statuses \ {"NONE"}
  BY <1>1 DEF Good, PcGood, SessionRecords
<1>3. PICK new \in Rows : new = Shown(r0.saw) /\ new.state # "ABSENT"
  BY <1>2, ShownRows
<1>4. PICK r : r = [r0 EXCEPT !.pc = "look", !.left = @ \ {m}]
  OBVIOUS
<1>5. /\ r \in SessionRecords /\ r.pc = "look" /\ r.key = r0.key /\ r.kind = r0.kind /\ r.msg = m /\ r.left = r0.left \ {m}
      /\ r.copy = r0.copy /\ r.new = r0.new /\ r.pending = r0.pending /\ r.saw = r0.saw
  BY <1>2, <1>4 DEF SessionRecords, Places
<1>6. RowFree(c, m) /\ UNCHANGED <<row, task, works, events, receipts, sent, global, doubled, scene>>
  BY <1>1, <1>2 DEF Sync, SessionRecords
<1>7. EventsGood(r)
  BY <1>1, <1>5 DEF Good, EventsGood
<1>8. PICK s \in SessionRecords :
        /\ Goes(c, s) /\ Grown(s, r, m, new)
        /\ \/ Logged(s, r, m, new) /\ ids' = ids + 1
           \/ s.pending = r.pending /\ (m \in DOMAIN r.copy => new.state = r.copy[m].state) /\ ids' = ids
  <2> DEFINE Updates == IF new # r.copy[m] THEN AddEvent(c, r, m, new)
                        ELSE Goes(c, [r EXCEPT !.new = Put(r.new, m, new)]) /\ UNCHANGED ids
  <2>3. Updates
    BY <1>1, <1>2, <1>3, <1>4, <1>5 DEF Sync
  <2>1. CASE new # r.copy[m]
    <3>1. AddEvent(c, r, m, new)
      BY <2>1, <2>3
    <3> QED BY <1>5, <3>1, EventAdded
  <2>2. CASE new = r.copy[m]
    <3>1. PICK s : s = With(r, m, new, r.pending)
      OBVIOUS
    <3>2. r.pending \in Seq(EventRecords)
      BY <1>5 DEF SessionRecords
    <3>3. s \in SessionRecords /\ Grown(s, r, m, new) /\ s.pending = r.pending
      BY <1>5, <3>1, <3>2, ObjectAdded
    <3>4. s = [r EXCEPT !.new = Put(r.new, m, new)]
      BY <1>5, <3>1 DEF SessionRecords, With
    <3>5. Goes(c, s) /\ ids' = ids
      BY <2>2, <2>3, <3>4
    <3> QED BY <2>2, <3>3, <3>5
  <2> QED BY <2>1, <2>2
<1>9. Aside
  BY <1>6, <1>8, SentStays DEF Aside, GatewayInv, Types
<1>10. EventsGood(s)'
  BY <1>7, <1>8, <1>9, EventsStayGood
<1>11. RowsGood(s)'
  <2>1. RowsGood(s)
    BY <1>1, <1>2, <1>3, <1>5, <1>8 DEF Good, RowsGood, Grown
  <2> QED BY <1>6, <2>1 DEF RowsGood, Known
<1>12. PcGood(s)'
  <2>1. PcGood(s)
    BY <1>1, <1>2, <1>5, <1>8 DEF Good, PcGood, Grown
  <2> QED BY <1>6, <2>1 DEF PcGood, Known, HasEnded
<1>13. RunsInv'
  <2>1. \A k : ~At(session[c], k) /\ ~At(s, k)
    BY <1>1, <1>5, <1>8 DEF At, Grown
  <2> QED BY <1>6, <1>8, <2>1, RunsFrame, WorksGrow
<1>14. \A d \in Sessions \ {c} : DOMAIN s.new \cap DOMAIN session[d].new = {}
  BY <1>1, <1>5, <1>6, <1>8, LockTaken
<1> QED BY <1>8, <1>9, <1>10, <1>11, <1>12, <1>13, <1>14, Local DEF Good

LEMMA GatewayRows ==
  /\ Row("SUBMITTED", "ACCEPTED") \in Rows /\ Row("SUBMITTED", "ACCEPTED").state = "SUBMITTED"
  /\ Row("CANCELED", "GATEWAY") \in Rows /\ Row("CANCELED", "GATEWAY").state = "CANCELED"
<1>1. "SUBMITTED" \in States /\ "CANCELED" \in States
  BY DEF States, Terminal
<1> QED BY <1>1 DEF Row, Rows

(* An insertion finds the message unknown, and holds its lock.             *)
LEMMA InsertKeeps ==
  ASSUME GatewayInv, NEW c \in Sessions, Insert(c)
  PROVE  GatewayInv'
<1>1. PICK r0 \in SessionRecords : r0 = session[c] /\ Good(r0) /\ r0.pc = "insert"
  BY Acting DEF Insert
<1>2. PICK m \in Messages : /\ m = r0.msg /\ m \notin Runs /\ DOMAIN r0.copy = {} /\ DOMAIN r0.new = {}
                            /\ r0.left = {}
  BY <1>1 DEF Good, PcGood, RowsGood
<1>3. RowFree(c, m) /\ UNCHANGED <<row, task, works, events, receipts, sent, global, doubled, scene>>
  BY <1>1, <1>2 DEF Insert
<1>4. \A k : ~At(session[c], k)
  BY <1>1 DEF At
<1>5. CASE Taken(m)
  <2>1. Goes(c, Idle) /\ UNCHANGED ids
    BY <1>1, <1>2, <1>5 DEF Insert
  <2> QED BY <1>3, <1>4, <2>1, IdleIsGood, IdleType, SentStays, Quiet
<1>6. CASE ~Taken(m)
  <2>1. PICK new \in Rows : new = Row("SUBMITTED", "ACCEPTED") /\ new.state = "SUBMITTED"
    BY GatewayRows
  <2>2. PICK r : r = [r0 EXCEPT !.pc = "commit"]
    OBVIOUS
  <2>3. /\ r \in SessionRecords /\ r.pc = "commit" /\ r.key = r0.key /\ r.kind = r0.kind /\ r.msg = m /\ r.left = {}
        /\ r.copy = r0.copy /\ r.new = r0.new /\ r.pending = r0.pending
    BY <1>2, <2>2 DEF SessionRecords, Places
  <2>4. AddEvent(c, r, m, new)
    BY <1>1, <1>2, <1>6, <2>1, <2>2 DEF Insert
  <2>5. ids' = ids + 1
    BY <2>3, <2>4, EventAdded
  <2>6. PICK s \in SessionRecords : Goes(c, s) /\ Grown(s, r, m, new) /\ Logged(s, r, m, new)
    BY <2>3, <2>4, EventAdded
  <2>7. EventsGood(r)
    BY <1>1, <2>3 DEF Good, EventsGood
  <2>8. Aside
    BY <1>3, <2>5, SentStays DEF Aside, GatewayInv, Types
  <2>9. EventsGood(s)'
    BY <2>5, <2>6, <2>7, <2>8, EventsStayGood
  <2>10. RowsGood(s)'
    <3>1. ~Known(m) /\ DOMAIN s.new = {m} /\ s.new[m] = new
      BY <1>2, <1>6, <2>3, <2>6 DEF Taken, Grown
    <3>2. RowsGood(s)
      BY <1>2, <2>1, <2>3, <2>6, <3>1 DEF RowsGood, Grown
    <3> QED BY <1>3, <3>2 DEF RowsGood, Known
  <2>11. PcGood(s)'
    <3>1. PcGood(s)
      BY <1>1, <1>2, <2>3, <2>6 DEF Good, PcGood, Grown
    <3> QED BY <1>3, <3>1 DEF PcGood, Known, HasEnded
  <2>12. RunsInv'
    <3>1. \A k : ~At(s, k)
      BY <2>3, <2>6 DEF At, Grown
    <3> QED BY <1>3, <1>4, <2>6, <3>1, RunsFrame, WorksGrow
  <2>13. \A d \in Sessions \ {c} : DOMAIN s.new \cap DOMAIN session[d].new = {}
    BY <1>1, <1>3, <2>3, <2>6, LockTaken
  <2> QED BY <2>6, <2>8, <2>9, <2>10, <2>11, <2>12, <2>13, Local DEF Good
<1> QED BY <1>5, <1>6

LEMMA CancelFlushKeeps ==
  ASSUME GatewayInv, NEW c \in Sessions, CancelFlush(c)
  PROVE  GatewayInv'
<1>1. PICK r0 \in SessionRecords : r0 = session[c] /\ Good(r0) /\ r0.pc = "canceling"
  BY Acting DEF CancelFlush
<1>2. PICK m \in Messages : m = r0.msg /\ m \in DOMAIN r0.copy /\ r0.left = {} /\ DOMAIN r0.new = {}
  BY <1>1 DEF Good, PcGood, RowsGood
<1>3. RowFree(c, m) /\ UNCHANGED <<row, task, works, events, receipts, sent, global, doubled, scene>>
  BY <1>1, <1>2 DEF CancelFlush
<1>4. PICK new \in Rows : new = Row("CANCELED", "GATEWAY") /\ new.state = "CANCELED"
  BY GatewayRows
<1>5. PICK r : r = [r0 EXCEPT !.pc = "commit"]
  OBVIOUS
<1>6. /\ r \in SessionRecords /\ r.pc = "commit" /\ r.key = r0.key /\ r.kind = r0.kind /\ r.msg = m /\ r.left = {}
      /\ r.copy = r0.copy /\ r.new = r0.new /\ r.pending = r0.pending
  BY <1>2, <1>5 DEF SessionRecords, Places
<1>7. AddEvent(c, r, m, new)
  BY <1>1, <1>2, <1>4, <1>5 DEF CancelFlush, Cancel
<1>8. ids' = ids + 1
  BY <1>6, <1>7, EventAdded
<1>9. PICK s \in SessionRecords : Goes(c, s) /\ Grown(s, r, m, new) /\ Logged(s, r, m, new)
  BY <1>6, <1>7, EventAdded
<1>10. EventsGood(r)
  BY <1>1, <1>6 DEF Good, EventsGood
<1>11. Aside
  BY <1>3, <1>8, SentStays DEF Aside, GatewayInv, Types
<1>12. EventsGood(s)'
  BY <1>8, <1>9, <1>10, <1>11, EventsStayGood
<1>13. RowsGood(s)'
  <2>1. RowsGood(s)
    BY <1>1, <1>2, <1>4, <1>6, <1>9 DEF Good, RowsGood, Grown
  <2> QED BY <1>3, <2>1 DEF RowsGood, Known
<1>14. PcGood(s)'
  <2>1. PcGood(s)
    BY <1>1, <1>2, <1>6, <1>9 DEF Good, PcGood, Grown
  <2> QED BY <1>3, <2>1 DEF PcGood, Known, HasEnded
<1>15. RunsInv'
  <2>1. \A k : ~At(session[c], k) /\ ~At(s, k)
    BY <1>1, <1>6, <1>9 DEF At, Grown
  <2> QED BY <1>3, <1>9, <2>1, RunsFrame, WorksGrow
<1>16. \A d \in Sessions \ {c} : DOMAIN s.new \cap DOMAIN session[d].new = {}
  BY <1>1, <1>3, <1>6, <1>9, LockTaken
<1> QED BY <1>9, <1>11, <1>12, <1>13, <1>14, <1>15, <1>16, Local DEF Good

(* The global stream goes on behind the last event it found, and whatever  *)
(* has an id before that is sent or in flight.                             *)
LEMMA StreamKeeps ==
  ASSUME GatewayInv, StreamGlobal
  PROVE  GatewayInv'
<1>1. PICK got : got = {e.id : e \in {e \in Committed : e.id > global.cursor}}
  OBVIOUS
<1>2. /\ got # {}
      /\ global' = [cursor |-> Last(got), got |-> global.got \cup got,
                    late |-> global.late \cup {i \in InFlight : i < Last(got)}]
      /\ UNCHANGED <<row, task, works, events, ids, receipts, session, sent, doubled, scene>>
  BY <1>1 DEF StreamGlobal, ResumeAfter
<1>3. /\ ids \in Nat /\ global.cursor \in Nat /\ global.got \in SUBSET Nat /\ global.late \in SUBSET Nat
      /\ \A m \in Messages : MessageInv(m)
      /\ session \in [Sessions -> SessionRecords] /\ \A d \in Sessions : Good(session[d])
  BY DEF GatewayInv, Types
<1>4. \A e \in Committed : e.id \in 1..ids /\ Passed(e.id)
  BY <1>3 DEF Committed, MessageInv
<1>5. \A i \in InFlight : i \in 1..ids /\ Passed(i)
  BY <1>3 DEF InFlight, Good, EventsGood
<1>6. got \in SUBSET Nat /\ \A i \in got : i <= ids
  BY <1>1, <1>3, <1>4
<1>7. PICK last \in got : last = Last(got) /\ \A i \in got : i <= last
  <2>1. \E n \in got : \A i \in got : i <= n
    BY <1>2, <1>3, <1>6, GreatestNatural
  <2> QED BY <1>2, <2>1 DEF Last
<1>8. /\ global'.cursor = last /\ global'.got = global.got \cup got
      /\ global'.late = global.late \cup {i \in InFlight : i < last} /\ last \in Nat /\ last <= ids
  BY <1>2, <1>6, <1>7
<1>9. \A e \in Committed : Passed(e.id)'
  <2>1. ASSUME NEW e \in Committed, e.id <= last PROVE e.id \in global'.got \cup global'.late
    <3>1. e.id \in 1..ids /\ Passed(e.id) /\ (e.id > global.cursor => e.id \in got)
      BY <1>1, <1>4
    <3> QED BY <1>3, <1>8, <3>1 DEF Passed
  <2> QED BY <1>8, <2>1 DEF Passed
<1>10. \A i \in InFlight : Passed(i)'
  <2>1. ASSUME NEW i \in InFlight, i <= last PROVE i \in global'.got \cup global'.late
    <3>1. i \in 1..ids
      BY <1>5
    <3>2. i = last \/ i < last
      BY <1>8, <2>1, <3>1
    <3> QED BY <1>7, <1>8, <3>2
  <2> QED BY <1>8, <2>1 DEF Passed
<1>11. Types'
  <2>1. global' \in [cursor : Nat, got : SUBSET Nat, late : SUBSET Nat]
    <3>1. PICK l : l = global.late \cup {i \in InFlight : i < last}
      OBVIOUS
    <3>2. PICK g : g = global.got \cup got
      OBVIOUS
    <3>3. global' = [cursor |-> last, got |-> g, late |-> l]
      BY <1>2, <1>7, <3>1, <3>2
    <3>4. \A i \in InFlight : i \in Nat
      BY <1>3, <1>5
    <3>5. l \in SUBSET Nat /\ g \in SUBSET Nat /\ last \in Nat
      BY <1>3, <1>6, <1>8, <3>1, <3>2, <3>4
    <3> QED BY <3>3, <3>5
  <2> QED BY <1>2, <2>1 DEF GatewayInv, Types
<1>12. ASSUME NEW m \in Messages PROVE MessageInv(m)'
  <2>1. MessageInv(m) /\ \A e \in events[m] : Passed(e.id)'
    BY <1>3, <1>9 DEF Committed
  <2> QED BY <1>2, <2>1 DEF MessageInv, Known, HasEnded, Passed
<1>13. ASSUME NEW d \in Sessions PROVE Good(session[d])'
  <2>1. RowsGood(session[d])' /\ PcGood(session[d])'
    BY <1>2, <1>3 DEF Good, RowsGood, PcGood, Known, HasEnded
  <2>2. \A i \in DOMAIN session[d].pending : session[d].pending[i].id \in InFlight
    BY DEF InFlight
  <2>3. EventsGood(session[d])'
    BY <1>2, <1>3, <1>10, <2>2 DEF Good, EventsGood, Passed
  <2> QED BY <2>1, <2>3 DEF Good
<1>14. RunsInv' /\ Locks'
  BY <1>2 DEF GatewayInv, RunsInv, RunInv, ReceiptsInv, Delivered, Locks, At
<1> QED BY <1>2, <1>8, <1>11, <1>12, <1>13, <1>14 DEF GatewayInv

LEMMA PendingFinite ==
  ASSUME NEW q \in Seq(EventRecords)
  PROVE  IsFiniteSet({q[i] : i \in DOMAIN q}) /\ {q[i] : i \in DOMAIN q} \in SUBSET EventRecords
<1> DEFINE T == {q[i] : i \in DOMAIN q}
<1>1. PICK n \in Nat : DOMAIN q = 1..n
  OBVIOUS
<1>2. IsFiniteSet(1..n)
  BY FS_Interval
<1>3. q \in Surjection(1..n, T)
  <2>1. q \in [1..n -> T]
    BY <1>1
  <2>2. \A t \in T : \E i \in 1..n : q[i] = t
    BY <1>1
  <2> QED BY <2>1, <2>2 DEF Surjection
<1>4. IsFiniteSet(T)
  BY <1>2, <1>3, FS_Surjection
<1>5. T \in SUBSET EventRecords
  OBVIOUS
<1> QED BY <1>4, <1>5

(* What a commit writes: the row exists, and if it tells of an end there   *)
(* is an event that does.                                                  *)
LEMMA WrittenRow ==
  ASSUME GatewayInv, NEW r \in SessionRecords, Good(r), NEW m \in DOMAIN r.new
  PROVE  /\ m \in Messages /\ Written(r, m) \in Rows /\ Written(r, m).state # "ABSENT"
         /\ Written(r, m).state \in Terminal =>
               HasEnded(m) \/ \E i \in DOMAIN r.pending : r.pending[i].msg = m /\ r.pending[i].state \in Terminal
         /\ ~Known(m) => DOMAIN r.copy = {} /\ m = r.msg
<1>1. m \in Messages /\ r.new[m] \in Rows /\ row[m] \in Rows /\ r.new[m].state # "ABSENT"
  BY ObjectTypes DEF SessionRecords, GatewayInv, Types, Good, RowsGood
<1>2. CASE m \notin DOMAIN r.copy
  <2>1. DOMAIN r.copy = {} /\ m = r.msg /\ r.new[m].state = "SUBMITTED"
    BY <1>2 DEF Good, RowsGood
  <2>2. Written(r, m) = r.new[m]
    BY <1>2 DEF Written
  <2> QED BY <1>1, <2>1, <2>2 DEF Terminal
<1>3. CASE m \in DOMAIN r.copy
  <2>1. Known(m) /\ r.copy[m] \in Rows
    BY <1>3, ObjectTypes DEF Good, RowsGood, SessionRecords
  <2>2. PICK st, sa : /\ st = IF r.new[m].state # r.copy[m].state THEN r.new[m].state ELSE row[m].state
                      /\ sa = IF r.new[m].says # r.copy[m].says THEN r.new[m].says ELSE row[m].says
    OBVIOUS
  <2>3. Written(r, m) = [state |-> st, says |-> sa]
    BY <1>3, <2>2 DEF Written
  <2>4. Written(r, m) \in Rows /\ Written(r, m).state = st
    BY <1>1, <2>2, <2>3 DEF Rows
  <2>5. st # "ABSENT"
    BY <1>1, <2>1, <2>2 DEF Known
  <2>6. ASSUME st \in Terminal
        PROVE  HasEnded(m) \/ \E i \in DOMAIN r.pending : r.pending[i].msg = m /\ r.pending[i].state \in Terminal
    <3>1. CASE r.new[m].state # r.copy[m].state
      <4>1. PICK i \in DOMAIN r.pending : r.pending[i].msg = m /\ r.pending[i].state = r.new[m].state
        BY <1>3, <2>2, <2>6, <3>1 DEF Good, EventsGood
      <4> QED BY <2>2, <2>6, <3>1, <4>1
    <3>2. CASE r.new[m].state = r.copy[m].state
      BY <1>1, <2>2, <2>6, <3>2 DEF GatewayInv, MessageInv
    <3> QED BY <3>1, <3>2
  <2> QED BY <1>1, <2>1, <2>4, <2>5, <2>6
<1> QED BY <1>2, <1>3

(* Where a session goes on after its commit: it has nothing to write, and  *)
(* keeps its copies unless it has just made a task.                        *)
Emptied(s, r) ==
    /\ DOMAIN s.new = {} /\ s.pending = <<>> /\ s.left = r.left /\ s.msg = r.msg /\ s.key = r.key /\ s.kind = r.kind
    /\ s.kind # "tick"
    /\ \/ s.pc = "dispatch" /\ s.msg \in DOMAIN r.new /\ DOMAIN s.copy = {s.msg}
       \/ /\ s.copy = r.copy /\ s.pc \in {"receipt", "refresh", "account", "poll"}
          /\ s.pc = "receipt" => s.kind = "hook"

LEMMA AfterCommits ==
  ASSUME NEW r \in SessionRecords, Good(r), r.pc = "commit", NEW shown,
         shown = IF r.msg \in DOMAIN r.new THEN r.new[r.msg] ELSE NoRow,
         NEW s \in AfterCommit(r, shown)
  PROVE  s \in SessionRecords /\ (s = Idle \/ Emptied(s, r))
<1>1. PICK e : e = <<>> /\ e \in Seq(EventRecords) /\ e \in Partial /\ DOMAIN e = {}
  <2>1. <<>> \in Seq(EventRecords)
    OBVIOUS
  <2> QED BY <2>1, NoObjects
<1>2. CASE r.kind \in {"tick", "read"}
  BY <1>2, IdleIsGood DEF AfterCommit
<1>3. CASE r.kind \notin {"tick", "read"}
  <2>1. ASSUME NEW pc \in {"dispatch", "receipt", "refresh", "account", "poll"}, NEW f \in Partial,
               s = [r EXCEPT !.pc = pc, !.new = e, !.pending = e, !.copy = f]
        PROVE  /\ s \in SessionRecords /\ s.pc = pc /\ s.new = e /\ s.pending = e /\ s.copy = f
               /\ s.left = r.left /\ s.msg = r.msg /\ s.key = r.key /\ s.kind = r.kind
    BY <1>1, <2>1 DEF SessionRecords, Places
  <2>2. r.copy \in Partial /\ r.msg \in Messages
    BY <1>3 DEF SessionRecords, Good, PcGood
  <2>3. CASE shown.says = "ACCEPTED"
    <3>1. r.msg \in DOMAIN r.new /\ shown \in Rows
      BY <2>3, ObjectTypes DEF NoRow, Row, SessionRecords
    <3>2. PICK f : f = Only(r.msg, shown) /\ f \in Partial /\ DOMAIN f = {r.msg}
      <4>1. Only(r.msg, shown) \in Partial /\ DOMAIN Only(r.msg, shown) = {r.msg}
        BY <2>2, <3>1, OnlyObject
      <4> QED BY <4>1
    <3>3. PICK pc \in {"dispatch", "receipt", "refresh", "account", "poll"} :
            pc = "dispatch" /\ s = [r EXCEPT !.pc = pc, !.new = e, !.pending = e, !.copy = f]
      BY <1>1, <1>3, <2>3, <3>2 DEF AfterCommit
    <3>4. /\ s \in SessionRecords /\ s.pc = "dispatch" /\ s.new = e /\ s.pending = e /\ s.copy = f
          /\ s.left = r.left /\ s.msg = r.msg /\ s.key = r.key /\ s.kind = r.kind
      BY <2>1, <3>2, <3>3
    <3> QED BY <1>1, <1>3, <3>1, <3>2, <3>4 DEF Emptied
  <2>4. CASE shown.says # "ACCEPTED"
    <3>1. PICK pc \in {"receipt", "refresh", "account", "poll"} :
            s = [r EXCEPT !.pc = pc, !.new = e, !.pending = e] /\ (pc = "receipt" => r.kind = "hook")
      BY <1>1, <1>3, <2>4 DEF AfterCommit
    <3>2. s = [r EXCEPT !.pc = pc, !.new = e, !.pending = e, !.copy = r.copy]
      BY <3>1 DEF SessionRecords
    <3>3. /\ s \in SessionRecords /\ s.pc = pc /\ s.new = e /\ s.pending = e /\ s.copy = r.copy
          /\ s.left = r.left /\ s.msg = r.msg /\ s.key = r.key /\ s.kind = r.kind
      BY <2>1, <2>2, <3>1, <3>2
    <3> QED BY <1>1, <1>3, <3>1, <3>3 DEF Emptied
  <2> QED BY <2>3, <2>4
<1> QED BY <1>2, <1>3

(* A commit brings the rows, their events, the task and the work at once.  *)
LEMMA CommitKeeps ==
  ASSUME GatewayInv, NEW c \in Sessions, Commit(c)
  PROVE  GatewayInv'
<1>1. PICK r \in SessionRecords : r = session[c] /\ Good(r) /\ r.pc = "commit"
  BY Acting DEF Commit
<1>2. \A k : ~At(session[c], k)
  BY <1>1 DEF At
<1>3. UNCHANGED <<ids, receipts, sent, global, doubled, scene>>
  BY DEF Commit
<1>4. CASE Refused(r)
  <2>1. Goes(c, Idle) /\ UNCHANGED <<row, task, works, events>>
    BY <1>1, <1>4 DEF Commit
  <2> QED BY <1>2, <1>3, <2>1, IdleIsGood, IdleType, SentStays, Quiet
<1>5. CASE ~Refused(r)
  <2> DEFINE inserts == DOMAIN r.copy = {} /\ r.msg \in DOMAIN r.new
             cancels == r.kind = "cancel" /\ r.saw \notin Ended
             log == {r.pending[i] : i \in DOMAIN r.pending}
  <2>1. /\ row' = [m \in Messages |-> IF m \in DOMAIN r.new THEN Written(r, m) ELSE row[m]]
        /\ events' = [m \in Messages |-> events[m] \cup {e \in log : e.msg = m}]
        /\ task' = IF inserts THEN [task EXCEPT ![r.msg] = "RUNNING"]
                   ELSE IF cancels THEN [task EXCEPT ![r.msg] = "CANCELLED"] ELSE task
        /\ works' = IF inserts THEN [works EXCEPT ![r.msg] = @ + 1] ELSE works
    BY <1>1, <1>5 DEF Commit
  <2>2. PICK shown : shown = IF r.msg \in DOMAIN r.new THEN r.new[r.msg] ELSE NoRow
    OBVIOUS
  <2>3. PICK s \in AfterCommit(r, shown) : Goes(c, s)
    BY <1>1, <1>5, <2>2 DEF Commit
  <2>4. s \in SessionRecords /\ (s = Idle \/ Emptied(s, r))
    BY <1>1, <2>2, <2>3, AfterCommits
  <2>5. PICK L : L = log
    OBVIOUS
  <2>6. IsFiniteSet(L) /\ L \in SUBSET EventRecords
    BY <2>5, PendingFinite DEF SessionRecords
  <2>7. \A e \in L : e.id \in 1..ids /\ Passed(e.id)
    BY <1>1, <2>5 DEF Good, EventsGood
  <2>8. Types
    BY DEF GatewayInv
  <2>9. ASSUME NEW m \in DOMAIN r.new
        PROVE  /\ m \in Messages /\ Written(r, m) \in Rows /\ Written(r, m).state # "ABSENT"
               /\ Written(r, m).state \in Terminal => HasEnded(m) \/ \E e \in L : e.msg = m /\ e.state \in Terminal
               /\ ~Known(m) => DOMAIN r.copy = {} /\ m = r.msg
    BY <1>1, <2>5, WrittenRow
  <2>10. inserts => r.msg \in Messages \ Runs /\ ~Known(r.msg) /\ DOMAIN r.new = {r.msg}
    BY <1>1, <2>9 DEF Good, RowsGood
  <2>11. \A m \in Messages : events'[m] = events[m] \cup {e \in L : e.msg = m}
    BY <2>1, <2>5
  <2>12. \A m \in Messages : row'[m] = IF m \in DOMAIN r.new THEN Written(r, m) ELSE row[m]
    BY <2>1
  <2>13. \A m \in Messages : (Known(m) => Known(m)') /\ (HasEnded(m) => HasEnded(m)')
    BY <2>9, <2>11, <2>12 DEF Known, HasEnded
  <2>14. \A m \in Messages : ~Known(m) /\ Known(m)' => inserts /\ m = r.msg
    BY <2>9, <2>12 DEF Known
  <2>15. inserts => Known(r.msg)'
    BY <2>9, <2>10, <2>12 DEF Known
  <2> HIDE DEF log
  <2>16. /\ task' \in [Messages -> Statuses]
         /\ \A m \in Messages : task'[m] = task[m] \/ task'[m] \in {"RUNNING", "CANCELLED"}
         /\ (inserts => task'[r.msg] = "RUNNING")
    <3>1. task \in [Messages -> Statuses] /\ "RUNNING" \in Statuses /\ "CANCELLED" \in Statuses
      BY <2>8 DEF Types, Statuses, Ended
    <3>2. CASE inserts
      BY <2>1, <2>10, <3>1, <3>2
    <3>3. CASE ~inserts /\ cancels
      BY <2>1, <3>1, <3>3
    <3>4. CASE ~inserts /\ ~cancels
      BY <2>1, <3>1, <3>4
    <3> QED BY <3>2, <3>3, <3>4
  <2>17. /\ works' \in [Messages -> Nat] /\ (inserts => works'[r.msg] = works[r.msg] + 1)
         /\ \A m \in Messages : ~(inserts /\ m = r.msg) => works'[m] = works[m]
    <3>1. works \in [Messages -> Nat]
      BY <2>8 DEF Types
    <3>2. CASE inserts
      <4>1. r.msg \in Messages /\ works[r.msg] + 1 \in Nat
        BY <2>10, <3>1, <3>2
      <4>2. works' = [works EXCEPT ![r.msg] = works[r.msg] + 1]
        BY <2>1, <3>2
      <4> QED BY <3>1, <3>2, <4>1, <4>2
    <3>3. CASE ~inserts
      BY <2>1, <3>1, <3>3
    <3> QED BY <3>2, <3>3
  <2> HIDE DEF inserts, cancels
  <2>18. Types'
    <3>1. row' \in [Messages -> Rows]
      <4>1. \A m \in Messages : row'[m] \in Rows
        BY <2>8, <2>9, <2>12 DEF Types
      <4>2. row' = [m \in Messages |-> row'[m]]
        BY <2>1
      <4> QED BY <4>1, <4>2
    <3>2. events' \in [Messages -> SUBSET EventRecords]
      <4>1. \A m \in Messages : events'[m] \in SUBSET EventRecords
        BY <2>6, <2>8, <2>11 DEF Types
      <4>2. events' = [m \in Messages |-> events'[m]]
        BY <2>1
      <4> QED BY <4>1, <4>2
    <3>3. ASSUME NEW m \in Messages PROVE IsFiniteSet(events'[m])
      <4>1. IsFiniteSet(events[m])
        BY <2>8 DEF Types
      <4>2. IsFiniteSet({e \in L : e.msg = m})
        <5>1. {e \in L : e.msg = m} \in SUBSET L
          OBVIOUS
        <5> QED BY <2>6, <5>1, FS_Subset
      <4>3. IsFiniteSet(events[m] \cup {e \in L : e.msg = m})
        BY <4>1, <4>2, FS_Union
      <4> QED BY <2>11, <4>3
    <3>4. session' \in [Sessions -> SessionRecords]
      BY <2>3, <2>4, <2>8 DEF Goes, Types
    <3> QED BY <1>3, <2>8, <2>16, <2>17, <3>1, <3>2, <3>3, <3>4 DEF Types
  <2>19. RunsInv'
    <3>1. \A m \in Runs : works'[m] = works[m]
      BY <2>10, <2>17, GatewayAssumption
    <3>2. \A k \in Runs : ~At(s, k)
      <4>1. CASE s = Idle
        BY <4>1, IdleIsGood
      <4>2. CASE Emptied(s, r)
        BY <1>1, <4>2 DEF Emptied, At, Good, PcGood
      <4> QED BY <2>4, <4>1, <4>2
    <3>3. \A m \in Messages : works'[m] \in Nat /\ works'[m] >= works[m]
      BY <2>8, <2>17 DEF Types
    <3>4. \A k \in Whole : ~At(s, k)
      BY <3>2 DEF Whole
    <3> QED BY <1>2, <1>3, <2>3, <3>1, <3>3, <3>4, RunsFrame
  <2>20. session'[c] = s /\ \A d \in Sessions \ {c} : session'[d] = session[d]
    BY <2>3, <2>8 DEF Goes, Types
  <2>21. Locks'
    <3>1. DOMAIN s.new = {}
      BY <2>4, IdleType DEF Emptied
    <3> QED BY <2>20, <3>1 DEF GatewayInv, Locks
  <2>22. ASSUME NEW m \in Messages PROVE MessageInv(m)'
    <3>1. MessageInv(m)
      BY DEF GatewayInv
    <3>2. (Known(m) => m \notin Runs /\ task[m] # "NONE")'
      BY <2>10, <2>14, <2>16, <3>1 DEF MessageInv
    <3>3. (m \notin Runs => works[m] = IF Known(m) THEN 1 ELSE 0)'
      <4>1. CASE inserts /\ m = r.msg
        BY <2>10, <2>15, <2>17, <3>1, <4>1 DEF MessageInv
      <4>2. CASE ~(inserts /\ m = r.msg)
        BY <2>13, <2>14, <2>17, <3>1, <4>2 DEF MessageInv
      <4> QED BY <4>1, <4>2
    <3>4. (row[m].state \in Terminal => HasEnded(m))'
      <4>1. ASSUME row'[m].state \in Terminal PROVE \E e \in events'[m] : e.state \in Terminal
        <5>1. HasEnded(m) \/ \E e \in L : e.msg = m /\ e.state \in Terminal
          BY <2>9, <2>12, <3>1, <4>1 DEF MessageInv
        <5> QED BY <2>11, <5>1 DEF HasEnded
      <4> QED BY <4>1 DEF HasEnded
    <3>5. \A e \in events'[m] : e.msg = m /\ e.id \in 1..ids /\ Passed(e.id)
      BY <2>7, <2>11, <3>1 DEF MessageInv
    <3>6. (\A e \in events[m] : e.msg = m /\ e.id \in 1..ids /\ Passed(e.id))'
      BY <1>3, <3>5 DEF Passed
    <3>7. (sent[m] # "cut")'
      BY <1>3, <3>1 DEF MessageInv
    <3> QED BY <3>2, <3>3, <3>4, <3>6, <3>7 DEF MessageInv
  <2>23. ASSUME NEW d \in Sessions PROVE Good(session[d])'
    <3>1. CASE d # c
      <4>1. PICK p \in SessionRecords : p = session[d] /\ Good(p) /\ session'[d] = p
        BY <2>20, <3>1, Acting
      <4>2. DOMAIN p.new \cap DOMAIN r.new = {} /\ DOMAIN p.new \subseteq Messages /\ DOMAIN p.copy \subseteq Messages
        BY <1>1, <3>1, <4>1, ObjectTypes DEF GatewayInv, Locks, SessionRecords
      <4>3. \A m \in DOMAIN p.new : Known(m) <=> Known(m)'
        BY <2>12, <4>2 DEF Known
      <4>4. RowsGood(p)'
        BY <2>13, <4>1, <4>2, <4>3 DEF Good, RowsGood
      <4>5. EventsGood(p)'
        BY <1>3, <4>1 DEF Good, EventsGood, Passed
      <4>6. PcGood(p)'
        <5>1. p.pc = "receipt" => works'[p.msg] > 0
          BY <2>8, <2>17, <4>1 DEF Good, PcGood, Types
        <5> QED BY <2>13, <4>1, <5>1 DEF Good, PcGood
      <4> QED BY <4>1, <4>4, <4>5, <4>6 DEF Good, RowsGood, EventsGood, PcGood
    <3>2. CASE d = c
      <4>1. Good(s)'
        <5>1. CASE s = Idle
          BY <5>1, IdleType DEF Good, RowsGood, EventsGood, PcGood
        <5>2. CASE Emptied(s, r)
          <6>1. /\ s.msg \in Messages /\ s.left \subseteq DOMAIN s.copy
                /\ \A m \in DOMAIN s.copy : m \in Messages /\ Known(m)'
            <7>1. /\ r.msg \in Messages /\ r.msg \in DOMAIN r.copy \cup DOMAIN r.new /\ r.left \subseteq {r.msg}
                  /\ r.left \subseteq DOMAIN r.copy
                  /\ \A m \in DOMAIN r.copy : m \in Messages /\ Known(m)'
              BY <1>1, <2>13, <5>2, ObjectTypes DEF Emptied, Good, PcGood, RowsGood, SessionRecords
            <7>2. r.msg \in DOMAIN r.new => Known(r.msg)'
              BY <2>9, <2>12 DEF Known
            <7> QED BY <5>2, <7>1, <7>2 DEF Emptied
          <6>2. Known(s.msg)'
            <7>1. r.msg \in DOMAIN r.copy \cup DOMAIN r.new /\ s.msg = r.msg
              BY <1>1, <5>2 DEF Emptied, Good, PcGood
            <7>2. r.msg \in DOMAIN r.new => Known(r.msg)'
              BY <2>9, <2>12 DEF Known
            <7>3. r.msg \in DOMAIN r.copy => Known(r.msg)'
              BY <1>1, <2>13, ObjectTypes DEF Good, RowsGood, SessionRecords
            <7> QED BY <7>1, <7>2, <7>3
          <6>3. RowsGood(s)'
            BY <5>2, <6>1 DEF RowsGood, Emptied
          <6>4. EventsGood(s)'
            BY <5>2 DEF EventsGood, Emptied
          <6>5. PcGood(s)'
            <7>1. s.kind = "hook" => s.key \in Keys /\ s.msg = MessageOf[s.key] /\ s.msg \notin Runs
              BY <1>1, <5>2 DEF PcGood, Emptied, Good
            <7>2. s.pc = "receipt" => works'[s.msg] > 0
              BY <2>22, <5>2, <6>1, <6>2, <7>1 DEF MessageInv, Emptied
            <7> QED BY <1>1, <5>2, <6>1, <6>2, <7>1, <7>2 DEF PcGood, Emptied, Good
          <6> QED BY <6>3, <6>4, <6>5 DEF Good
        <5> QED BY <2>4, <5>1, <5>2
      <4> QED BY <2>20, <3>2, <4>1 DEF Good, RowsGood, EventsGood, PcGood
    <3> QED BY <3>1, <3>2
  <2>24. (global.cursor <= ids)'
    BY <1>3 DEF GatewayInv
  <2> QED BY <2>18, <2>19, <2>21, <2>22, <2>23, <2>24 DEF GatewayInv
<1> QED BY <1>4, <1>5

LEMMA Inductive == GatewayInv /\ [Next]_vars => GatewayInv'
<1> SUFFICES ASSUME GatewayInv, [Next]_vars PROVE GatewayInv'
  OBVIOUS
<1>1. ASSUME NEW c \in Sessions, Authorise(c) \/ Read(c) \/ Tick(c) \/ Crash(c) PROVE GatewayInv'
  BY <1>1, AuthoriseKeeps, ReadKeeps, TickKeeps, CrashKeeps
<1>2. ASSUME NEW c \in Sessions, Proceed(c) PROVE GatewayInv'
  BY <1>2, LookupKeeps, InsertKeeps, DispatchKeeps, RunKeeps, ReceiptKeeps, AccountKeeps, CancelLoadKeeps,
     CancelFlushKeeps, LookKeeps, SyncKeeps, CommitKeeps, PollKeeps, RefreshKeeps, DeliverKeeps DEF Proceed
<1>3. CASE Decide
  BY <1>3, DecideKeeps DEF Decide
<1>4. CASE StreamGlobal
  BY <1>4, StreamKeeps
<1>5. CASE \E m \in Messages : BusMoves(m)
  BY <1>5, BusKeeps
<1>6. CASE UNCHANGED vars
  BY <1>6, DecideKeeps DEF vars
<1> QED BY <1>1, <1>2, <1>3, <1>4, <1>5, <1>6 DEF Next

LEMMA Invariance == Spec => []GatewayInv
  BY Initially, Inductive, PTL DEF Spec

(* WorkIsStartedOnce (create_protocol_task with the unique constraint on   *)
(* the message, and webhook_ingress with its receipt): however many        *)
(* deliveries overlap or die, in any number of replicas, a message has one *)
(* task, and a hook one run unless a delivery of it overlapped another or  *)
(* died, or its key is longer than what the receipt keeps.                 *)
THEOREM DeliveredOnce == Spec => []WorkIsStartedOnce
<1>1. GatewayInv => WorkIsStartedOnce
  <2> SUFFICES ASSUME GatewayInv PROVE WorkIsStartedOnce
    OBVIOUS
  <2>1. ASSUME NEW m \in Messages
        PROVE  IF m \in Runs THEN works[m] > 1 => m \in doubled \/ Cut(m)
               ELSE works[m] = IF Known(m) THEN 1 ELSE 0
    <3>1. CASE m \in Runs
      <4>1. m \in doubled \/ Cut(m) \/ RunInv(m)
        BY <3>1 DEF GatewayInv, RunsInv, Whole
      <4> QED BY <3>1, <4>1 DEF RunInv
    <3>2. CASE m \notin Runs
      BY <3>2 DEF GatewayInv, MessageInv
    <3> QED BY <3>1, <3>2
  <2> QED BY <2>1 DEF WorkIsStartedOnce, GatewayInv, RunsInv, ReceiptsInv
<1> QED BY <1>1, Invariance, PTL

(* SubscriptionEndsWithTheTask (a2a_subscribe_task): a subscription closes *)
(* only behind an event that tells of the end, for any number of messages, *)
(* synchronisations and subscribers.                                       *)
THEOREM EndsAreAnnounced == Spec => []SubscriptionEndsWithTheTask
<1>1. GatewayInv => SubscriptionEndsWithTheTask
  BY DEF GatewayInv, MessageInv, SubscriptionEndsWithTheTask
<1> QED BY <1>1, Invariance, PTL

(* StreamMissesOnlyInFlight (protocol_event_stream with add_protocol_event *)
(* that draws the id before the commit): an event that the stream has      *)
(* passed without sending it was in flight then, for any number of writers.*)
THEOREM NothingElseIsMissed == Spec => []StreamMissesOnlyInFlight
<1>1. GatewayInv => StreamMissesOnlyInFlight
  BY DEF GatewayInv, MessageInv, Passed, Committed, StreamMissesOnlyInFlight
<1> QED BY <1>1, Invariance, PTL
=============================================================================
