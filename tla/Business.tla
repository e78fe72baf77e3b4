------------------------------- MODULE Business -------------------------------
(***************************************************************************)
(* The KPI synchronisation of the executive layer (phase 13): a worker on  *)
(* every replica, and POST /api/business/sync, turn the newest evaluation  *)
(* of each task into an outcome row and meter the verified ones; executives*)
(* enter outcomes by hand, which the worker must leave alone.              *)
(*                                                                         *)
(* One tenant.  A synchronisation holds a Redis lock that expires, loads   *)
(* the rows and keeps those copies to the end, commits the estimates with  *)
(* a baseline that depends on the duration, then puts the fixed baseline   *)
(* back, counts what is new and commits again.  A commit writes the        *)
(* columns that differ from the copy, so a row may end up a mixture.       *)
(*                                                                         *)
(* Left out: the money, time and SLA arithmetic, the dashboard, snapshots  *)
(* and billing (they only read).                                           *)
(***************************************************************************)
EXTENDS Naturals, FiniteSets

CONSTANTS
  Outcomes,     \* tasks with an evaluation
  Syncs,        \* workers and synchronisation requests
  Hands,        \* manual-entry requests
  NoOne,        \* nobody holds the lock
  MaxEvals,     \* bound: evaluations of one task
  MaxLapses     \* bound: crashes and expiries of the lock while it is held

ASSUME BusinessAssumption ==
  /\ NoOne \notin Syncs \cup Hands /\ Syncs \cap Hands = {}
  /\ Outcomes # {} /\ IsFiniteSet(Outcomes) /\ IsFiniteSet(Syncs)
  /\ MaxEvals \in Nat /\ MaxLapses \in Nat

VARIABLES
  latest,     \* the newest evaluation of a task: [verified, hash], and how many there were
  row,        \* the outcome row of a task
  meter,      \* quantity of verified_outcomes
  lock,       \* holder of the Redis key
  sync,       \* the synchronisations
  hand,       \* the manual entries
  lapses,     \* crashes and expiries so far
  due,        \* ghost: the verifications that really happened to rows
  doubtful,   \* ghost: somebody wrote over a row that was no longer as he had read it,
              \* or a synchronisation broke off before it counted what it had written
  encounters  \* ghost: the rows that a synchronisation had not found when it began, and
              \* that somebody else wrote before it ended

busVars == <<latest, row, meter, lock, sync, hand, lapses, due, doubtful, encounters>>

NoRow == [mode |-> "NONE", verified |-> FALSE, hash |-> 0, base |-> "fixed"]
Rows == [mode : {"NONE", "ESTIMATED", "MANUAL"}, verified : BOOLEAN,
         hash : 0..MaxEvals, base : {"fixed", "raw", "hand"}]
Columns == {"mode", "verified", "hash", "base"}

\* Two ghosts: `met`, the tasks without a loaded row whose row others write meanwhile,
\* and `made`, those whose verification the first commit wrote.
IdleSync == [pc |-> "idle", before |-> [k \in Outcomes |-> NoRow],
             now |-> [k \in Outcomes |-> NoRow], met |-> {}, made |-> {}]
IdleHand == [pc |-> "idle", task |-> CHOOSE k \in Outcomes : TRUE, copy |-> NoRow]

BusTypeOK ==
  /\ latest \in [Outcomes -> [verified : BOOLEAN, hash : 0..MaxEvals, n : 0..MaxEvals]]
  /\ row \in [Outcomes -> Rows] /\ meter \in Nat /\ due \in Nat /\ encounters \in Nat
  /\ lock \in Syncs \cup {NoOne} /\ lapses \in 0..MaxLapses /\ doubtful \in BOOLEAN
  /\ sync \in [Syncs -> [pc : {"idle", "loaded", "written", "release"},
                         before : [Outcomes -> Rows], now : [Outcomes -> Rows],
                         met : SUBSET Outcomes, made : SUBSET Outcomes]]
  /\ hand \in [Hands -> [pc : {"idle", "loaded", "done"}, task : Outcomes, copy : Rows]]

BusInit ==
  /\ latest = [k \in Outcomes |-> [verified |-> FALSE, hash |-> 0, n |-> 0]]
  /\ row = [k \in Outcomes |-> NoRow] /\ meter = 0 /\ due = 0 /\ lock = NoOne
  /\ sync = [s \in Syncs |-> IdleSync] /\ hand = [h \in Hands |-> IdleHand]
  /\ lapses = 0 /\ doubtful = FALSE /\ encounters = 0

(***************************************************************************)
(* Commits.                                                                *)
(***************************************************************************)

\* What a session that loaded `copy` and left the row as `new` writes over `cur`.
Flushed(cur, copy, new) == [c \in Columns |-> IF new[c] # copy[c] THEN new[c] ELSE cur[c]]

\* It writes over a row that is not what it had read.
Overwrites(cur, copy, new) == new # copy /\ cur # copy

\* The rows become `after`: whoever works without having found one of them meets it.
Meets(after) == [s \in Syncs |->
  IF sync[s].pc \in {"loaded", "written"}
    THEN [sync[s] EXCEPT !.met = @ \cup {k \in Outcomes :
                           sync[s].before[k].mode = "NONE" /\ after[k] # row[k]}]
    ELSE sync[s]]

\* A verification the meter has to count.
NewlyVerified(old, new) ==
  new.verified /\ (~old.verified \/ new.hash # old.hash)

\* The usage meter is one row, incremented by the database.
RecordUsage(n) == meter' = meter + n

(***************************************************************************)
(* The synchronisation.                                                    *)
(***************************************************************************)

\* A worker's tick or a request takes the lock and loads the tenant's rows.
LockSafeSync(s) ==
  /\ sync[s].pc = "idle" /\ lock = NoOne
  /\ lock' = s
  /\ sync' = [sync EXCEPT ![s] = [IdleSync EXCEPT !.pc = "loaded", !.before = row, !.now = row]]
  /\ UNCHANGED <<latest, row, meter, hand, lapses, due, doubtful, encounters>>

\* The row an evaluation gives: estimated, with the baseline of this moment.
Estimate(k) == [mode |-> "ESTIMATED", verified |-> latest[k].verified,
                hash |-> latest[k].hash, base |-> "raw"]

\* What the session thinks the row is: its copy, or, if it had none, what the
\* query finds now.
Seen(s, k) == IF sync[s].before[k].mode = "NONE" THEN row[k] ELSE sync[s].before[k]

MayEstimateMutant(r) == r.mode # "MANUAL" \/ ~r.verified

\* Which outcomes the worker may estimate.
MayEstimate(r) == r.mode # "MANUAL"

\* The first commit.  Entries by hand are left alone, if the copy says so.
SyncOutcomes(s) ==
  LET Evaluated(k) == latest[k].hash > 0 /\ MayEstimate(Seen(s, k))
      new == [k \in Outcomes |-> IF Evaluated(k) THEN Estimate(k) ELSE Seen(s, k)]
      after == [k \in Outcomes |-> Flushed(row[k], Seen(s, k), new[k])]
      made == {k \in Outcomes : NewlyVerified(row[k], after[k])} IN
  /\ sync[s].pc = "loaded"
  /\ row' = after
  /\ sync' = [Meets(after) EXCEPT ![s] = [sync[s] EXCEPT !.pc = "written", !.now = new,
                                                        !.made = made]]
  /\ due' = due + Cardinality(made)
  /\ doubtful' = (doubtful \/ \E k \in Outcomes : Overwrites(row[k], Seen(s, k), new[k]))
  /\ UNCHANGED <<latest, meter, lock, hand, lapses, encounters>>

MeteredMutant(before, now) == {k \in Outcomes : now[k].verified}

\* What is counted: a row that became verified, or is verified for another result.
Metered(before, now) == {k \in Outcomes : NewlyVerified(before[k], now[k])}

ApplyStableBaselineMutant(r) == r

\* The baseline that does not depend on how long the work took.
ApplyStableBaseline(r) == IF r.mode = "ESTIMATED" THEN [r EXCEPT !.base = "fixed"] ELSE r

\* The second commit: the rows it had are the session's own objects, the others are
\* read again; the estimates get the fixed baseline, the meter what is new.
CountVerified(s) ==
  LET got == [k \in Outcomes |-> IF sync[s].before[k].mode = "NONE" THEN row[k]
                                  ELSE sync[s].now[k]]
      now == [k \in Outcomes |-> ApplyStableBaseline(got[k])]
      after == [k \in Outcomes |-> Flushed(row[k], got[k], now[k])] IN
  /\ sync[s].pc = "written"
  /\ row' = after
  /\ sync' = [Meets(after) EXCEPT ![s] = [IdleSync EXCEPT !.pc = "release"]]
  /\ RecordUsage(Cardinality(Metered(sync[s].before, now)))
  /\ encounters' = encounters + Cardinality(sync[s].met)
  /\ doubtful' = (doubtful \/ \E k \in Outcomes : Overwrites(row[k], got[k], now[k]))
  /\ UNCHANGED <<latest, lock, hand, lapses, due>>

\* Compare and delete: the key may be somebody else's by now.
ReleaseLock(s) ==
  /\ sync[s].pc = "release" /\ sync' = [sync EXCEPT ![s] = IdleSync]
  /\ lock' = IF lock = s THEN NoOne ELSE lock
  /\ UNCHANGED <<latest, row, meter, hand, lapses, due, doubtful, encounters>>

\* The replica dies, and its lock stays, or the database refuses, and the lock goes:
\* what the first commit wrote and the second has not counted is never counted.
SyncBreaks(s) ==
  /\ sync[s].pc # "idle" /\ lapses < MaxLapses /\ lapses' = lapses + 1
  /\ lock' \in {lock, IF lock = s THEN NoOne ELSE lock}
  /\ doubtful' = (doubtful \/ sync[s].made # {})
  /\ sync' = [sync EXCEPT ![s] = IdleSync]
  /\ UNCHANGED <<latest, row, meter, hand, due, encounters>>

\* The key lives for five intervals, at least 300 s; a synchronisation may take longer.
LockExpires ==
  /\ lock # NoOne /\ lock' = NoOne
  /\ IF sync[lock].pc = "idle" THEN lapses' = lapses
     ELSE lapses < MaxLapses /\ lapses' = lapses + 1
  /\ UNCHANGED <<latest, row, meter, sync, hand, due, doubtful, encounters>>

(***************************************************************************)
(* An entry by hand, and the evaluations (they come from phase 9).         *)
(***************************************************************************)
HandLoads(h, k) ==
  /\ hand[h].pc = "idle"
  /\ hand' = [hand EXCEPT ![h] = [pc |-> "loaded", task |-> k, copy |-> row[k]]]
  /\ UNCHANGED <<latest, row, meter, lock, sync, lapses, due, doubtful, encounters>>

\* Manual metering: a row that becomes verified, or a new hash that is not empty.
NewlyVerifiedByHand(old, new) ==
  new.verified /\ (~old.verified \/ (new.hash # 0 /\ new.hash # old.hash))

\* The entry, verified or not, with or without the hash of the result.  An insertion
\* that meets a row made meanwhile fails.
UpsertManualOutcome(h, v, x) ==
  LET k == hand[h].task
      new == [mode |-> "MANUAL", verified |-> v, hash |-> x, base |-> "hand"]
      fails == hand[h].copy.mode = "NONE" /\ row[k].mode # "NONE"
      after == IF fails THEN row ELSE [row EXCEPT ![k] = Flushed(row[k], hand[h].copy, new)] IN
  /\ hand[h].pc = "loaded" /\ x \in {0, latest[k].hash}
  /\ row' = after
  /\ sync' = Meets(after)
  /\ hand' = [hand EXCEPT ![h] = [IdleHand EXCEPT !.pc = "done"]]
  /\ RecordUsage(IF ~fails /\ NewlyVerifiedByHand(hand[h].copy, new) THEN 1 ELSE 0)
  /\ due' = due + IF ~fails /\ NewlyVerifiedByHand(row[k], after[k]) THEN 1 ELSE 0
  /\ doubtful' = (doubtful \/ (~fails /\ Overwrites(row[k], hand[h].copy, new)))
  /\ UNCHANGED <<latest, lock, lapses, encounters>>

\* The newest evaluation of a task: of another result, or of the same one again.
Evaluate(k, v, x) ==
  /\ latest[k].n < MaxEvals /\ x \in {latest[k].hash, latest[k].hash + 1} \ {0}
  /\ latest' = [latest EXCEPT ![k] = [verified |-> v, hash |-> x, n |-> @.n + 1]]
  /\ UNCHANGED <<row, meter, lock, sync, hand, lapses, due, doubtful, encounters>>

SyncStep(s) == LockSafeSync(s) \/ SyncOutcomes(s) \/ CountVerified(s) \/ ReleaseLock(s)

BusNext ==
  \/ \E s \in Syncs : SyncStep(s) \/ SyncBreaks(s)
  \/ LockExpires
  \/ \E h \in Hands : \/ \E k \in Outcomes : HandLoads(h, k)
                      \/ \E v \in BOOLEAN, x \in 0..MaxEvals : UpsertManualOutcome(h, v, x)
  \/ \E k \in Outcomes, v \in BOOLEAN, x \in 1..MaxEvals : Evaluate(k, v, x)

\* The worker of every replica ticks for ever, and a key that nobody deletes expires.
BusFairness ==
  /\ \A s \in Syncs : WF_busVars(SyncStep(s))
  /\ WF_busVars(LockExpires)

BusSpec == BusInit /\ [][BusNext]_busVars /\ BusFairness

(***************************************************************************)
(* Properties.                                                             *)
(***************************************************************************)

\* The meter of verified outcomes is what is billed.  Unless somebody wrote over a row
\* that was no longer as he had read it, or a synchronisation broke off before it
\* counted what it had written, it differs from the number of verifications the rows
\* went through by one at most for each row that a synchronisation had not found when
\* it began and that another wrote (an entry by hand) before it ended: such a row it
\* counts as its own, a second time.  Without one the meter is exact.
MeterErrsByEncounters ==
  ~doubtful /\ (\A s \in Syncs : sync[s].pc # "written") =>
    meter <= due + encounters /\ due <= meter + encounters

\* An outcome entered by hand keeps saying so, and what it says is changed only by
\* another entry, or by a synchronisation that had loaded the row while it was an
\* estimate: one that found no row, or the entry itself, leaves it alone.
EntriesYieldToOldEstimates ==
  [][\A k \in Outcomes : row[k].mode = "MANUAL" /\ row'[k] # row[k] =>
       /\ row'[k].mode = "MANUAL"
       /\ \/ \E h \in Hands : hand[h].task = k /\ hand[h].pc = "loaded" /\ hand'[h].pc = "done"
          \/ \E s \in Syncs : /\ sync[s].before[k].mode = "ESTIMATED"
                             /\ sync'[s].pc # sync[s].pc]_busVars

\* Whatever breaks, overlaps or expires on the way, an estimated row comes to show the
\* newest evaluation with the fixed baseline.
KpiCatchesUp ==
  \A k \in Outcomes : []<>(latest[k].hash = 0 \/ row[k].mode = "MANUAL"
     \/ row[k] = [mode |-> "ESTIMATED", verified |-> latest[k].verified,
                  hash |-> latest[k].hash, base |-> "fixed"])
=============================================================================
