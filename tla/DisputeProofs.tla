---------------------------- MODULE DisputeProofs ----------------------------
(***************************************************************************)
(* Disputes beside payouts, for any number of agents, workers and disputes. *)
(* A payout may be frozen while it is processed, paid or failed, so most of *)
(* PayoutProofs' invariant is lost here.  What is left is enough: transfers *)
(* that are recorded, pulled back or undone stay so (Grows), and a handler  *)
(* that is past a reversal's statement has its effect (JobBacked), also     *)
(* when it is a dispute handler that has called it (DeskBacked).            *)
(***************************************************************************)
EXTENDS DisputeProperties, PayoutProofs

(* A payout that shows PAID has a transfer to pull back, so that its reversal *)
(* does not go to the books alone.                                            *)
PaidTransferred == \A p \in Payouts : row[p].status = "PAID" => row[p].transfer > 0

JobBacked(w) ==
    LET p == job[w].payout IN
    /\ job[w].at \notin {"idle", "insert"} => p \in Payouts
    /\ job[w].at \in {"claim", "funds", "transfer", "persist", "post", "paid"} =>
          job[w].attempt > 0
    /\ job[w].at \in {"post", "paid"} => row[p].transfer > 0
    /\ job[w].at \in {"unpost", "reversed"} => p \in pulled
    /\ job[w].at = "reversed" => undone[p] > 0

Returned(p) == p \in pulled /\ undone[p] > 0

DeskBacked(a) ==
    LET p == desk[a].payout IN
    /\ desk[a].at \in {"reverse", "reversing", "balance", "block"} => p \in Payouts
    /\ desk[a].at = "reversing" =>
          job[a].at \in {"pull", "unpost", "reversed"} /\ job[a].payout = p
    /\ desk[a].at \in {"balance", "block"} => Returned(p)
    /\ desk[a].at = "find" => p = 0 /\ desk[a].dispute \in Disputes
    /\ desk[a].at \in {"look", "thaw"} => desk[a].verdict = "WON"
    /\ desk[a].at \in {"refund", "write"} /\ desk[a].verdict \in {"LOST", "REFUNDED"}
          /\ p # 0 => p \in Payouts /\ Returned(p)

RowsBacked == ReversalBacked /\ PaidTransferred /\ IndexHolds(row)

DisputeInv ==
    /\ DisputeTypeOK /\ RowsBacked
    /\ \A w \in Workers : JobBacked(w)
    /\ \A a \in Agents : DeskBacked(a)

Grows ==
    \A p \in Payouts :
        /\ p \in pulled => p \in pulled'
        /\ undone[p] > 0 => undone'[p] > 0
        /\ row[p].transfer > 0 => row'[p].transfer > 0

-------------------------------------------------------------------------------
(* Handlers that do not move keep what they rely on. *)
LEMMA OtherJob ==
    ASSUME Grows, NEW w \in Workers, JobBacked(w), job'[w] = job[w]
    PROVE  JobBacked(w)'
  BY DEF JobBacked, Grows

LEMMA OtherDesk ==
    ASSUME Grows, NEW a \in Agents, DeskBacked(a), desk'[a] = desk[a],
           desk[a].at = "reversing" => job'[a] = job[a]
    PROVE  DeskBacked(a)'
  BY DEF DeskBacked, Returned, Grows

(* The index does not mind a row that stays as it is or stops being active.  *)
LEMMA IndexStays ==
    ASSUME IndexHolds(row),
           \A q \in Payouts : /\ row'[q].txn = row[q].txn
                              /\ row'[q].status \in Active => row[q].status \in Active
    PROVE  IndexHolds(row')
  BY DEF IndexHolds

(* What a payout handler's step does to the money that comes back. *)
Backed(w) ==
    /\ Grows /\ RowsBacked' /\ JobBacked(w)'
    /\ \A v \in Workers \ {w} : job'[v] = job[v]

LEMMA IdleAfterDone ==
    ASSUME TypeOK, NEW w \in Workers, Done(w)
    PROVE  /\ job'[w] = Idle /\ JobBacked(w)'
           /\ \A v \in Workers \ {w} : job'[v] = job[v]
  BY DEF TypeOK, Done, JobBacked, Idle

LEMMA AfterGoto ==
    ASSUME TypeOK, NEW w \in Workers, NEW s, Goto(w, s)
    PROVE  /\ job'[w].at = s /\ job'[w].payout = job[w].payout
           /\ job'[w].attempt = job[w].attempt
           /\ \A v \in Workers \ {w} : job'[v] = job[v]
  BY DEF TypeOK, Job, Goto

(* A step that leaves the rows, the reversals and the other handlers alone.  *)
LEMMA QuietBacked ==
    ASSUME TypeOK, RowsBacked, NEW w \in Workers, UNCHANGED <<row, undone, pulled>>,
           JobBacked(w)', \A v \in Workers \ {w} : job'[v] = job[v]
    PROVE  Backed(w)
  <1>1. Grows
    BY DEF Grows
  <1>2. RowsBacked'
    BY DEF RowsBacked, ReversalBacked, PaidTransferred, IndexHolds
  <1> QED BY <1>1, <1>2 DEF Backed

(* A step that only writes a row's status. *)
LEMMA StatusBacked ==
    ASSUME TypeOK, RowsBacked, NEW w \in Workers, NEW p \in Payouts, NEW s \in Statuses,
           SetStatus(p, s), UNCHANGED <<undone, pulled>>,
           s \in Active => row[p].status \in Active,
           s = "PAID" => row[p].transfer > 0,
           s = "REVERSED" => undone[p] > 0,
           JobBacked(w)', \A v \in Workers \ {w} : job'[v] = job[v]
    PROVE  Backed(w)
  <1>1. /\ row'[p].status = s /\ row'[p].txn = row[p].txn
        /\ row'[p].transfer = row[p].transfer
        /\ \A q \in Payouts \ {p} : row'[q] = row[q]
    BY DEF TypeOK, Row, SetStatus
  <1>2. Grows
    BY <1>1 DEF Grows
  <1>3. IndexHolds(row')
    BY <1>1, IndexStays DEF RowsBacked
  <1>4. ReversalBacked' /\ PaidTransferred'
    BY <1>1 DEF RowsBacked, ReversalBacked, PaidTransferred
  <1> QED BY <1>2, <1>3, <1>4 DEF Backed, RowsBacked, IndexHolds

-------------------------------------------------------------------------------
(* The requests of Payout start a handler that has nothing to rely on yet.   *)
LEMMA RequestBacked ==
    ASSUME TypeOK, RowsBacked, NEW w \in Workers, Request(w)
    PROVE  Backed(w)
  <1>1. ASSUME NEW j, Call(w, j),
               /\ j.at \in {"insert", "gate", "read", "reset", "pull"}
               /\ j.at # "insert" => j.payout \in Payouts
        PROVE  Backed(w)
    <2>1. /\ job'[w] = j /\ \A v \in Workers \ {w} : job'[v] = job[v]
          /\ UNCHANGED <<row, undone, pulled>>
      BY <1>1 DEF Call, TypeOK, books
    <2>2. JobBacked(w)'
      BY <1>1, <2>1 DEF JobBacked
    <2> QED BY <2>1, <2>2, QuietBacked
  <1>2. CASE CreatePayout(w)
    <2>1. PICK t \in Transactions : Call(w, [Idle EXCEPT !.at = "insert", !.txn = t])
      BY <1>2 DEF CreatePayout
    <2> QED BY <1>1, <2>1 DEF Idle
  <1>3. ASSUME NEW p \in Payouts,
               MarkEligible(w, p) \/ ProcessPayout(w, p) \/ RetryPayout(w, p)
                 \/ ForceRetry(w, p)
        PROVE  Backed(w)
    BY <1>1, <1>3 DEF MarkEligible, ProcessPayout, RetryPayout, ForceRetry, Idle
  <1>4. ASSUME NEW p \in Payouts, ReversePayout(w, p) PROVE Backed(w)
    <2>1. row[p].transfer > 0
      BY <1>4 DEF ReversePayout, RowsBacked, PaidTransferred
    <2>2. Reversal(p).at = "pull" /\ Reversal(p).payout = p
      BY <2>1 DEF Reversal, Idle
    <2> QED BY <1>1, <1>4, <2>2 DEF ReversePayout
  <1> QED BY <1>2, <1>3, <1>4 DEF Request

(* Handlers that read, or give up. *)
LEMMA ReadingBacked ==
    ASSUME TypeOK, RowsBacked, NEW w \in Workers, JobBacked(w),
           Gate(w) \/ ReadForProcessing(w) \/ Crash(w)
    PROVE  Backed(w)
  <1>1. UNCHANGED <<row, undone, pulled>>
    BY DEF Gate, ReadForProcessing, Crash, books
  <1>2. CASE Done(w)
    BY <1>1, <1>2, IdleAfterDone, QuietBacked
  <1>3. ASSUME Gate(w), ~Done(w) PROVE Backed(w)
    <2>1. job[w].payout \in Payouts
      BY <1>3 DEF Gate, At, JobBacked
    <2>2. /\ job'[w].at = "grant" /\ job'[w].payout = job[w].payout
          /\ \A v \in Workers \ {w} : job'[v] = job[v]
      BY <1>3 DEF Gate, TypeOK, Job
    <2>3. JobBacked(w)'
      BY <2>1, <2>2 DEF JobBacked
    <2> QED BY <1>1, <2>2, <2>3, QuietBacked
  <1>4. ASSUME ReadForProcessing(w), ~Done(w) PROVE Backed(w)
    <2>1. job[w].payout \in Payouts
      BY <1>4 DEF ReadForProcessing, At, JobBacked
    <2>2. row[job[w].payout].attempts \in Nat
      BY <2>1 DEF TypeOK, Row
    <2>3. /\ job'[w].at = "claim" /\ job'[w].payout = job[w].payout
          /\ job'[w].attempt = row[job[w].payout].attempts + 1
          /\ \A v \in Workers \ {w} : job'[v] = job[v]
      BY <1>4 DEF ReadForProcessing, TypeOK, Job
    <2>4. JobBacked(w)'
      BY <2>1, <2>2, <2>3 DEF JobBacked
    <2> QED BY <1>1, <2>3, <2>4, QuietBacked
  <1> QED BY <1>2, <1>3, <1>4 DEF Crash

(* Handlers that write their row's other fields, or create it. *)
LEMMA InsertBacked ==
    ASSUME TypeOK, RowsBacked, NEW w \in Workers, InsertPayout(w)
    PROVE  Backed(w)
  <1>1. UNCHANGED <<undone, pulled>> /\ Done(w)
    BY DEF InsertPayout, books
  <1>2. CASE UNCHANGED row
    BY <1>1, <1>2, IdleAfterDone, QuietBacked
  <1>3. ASSUME NEW p \in Payouts, IndexHolds(row'),
               row' = [row EXCEPT ![p].status = "PENDING", ![p].txn = job[w].txn]
        PROVE  Backed(w)
    <2>1. /\ row'[p].status = "PENDING" /\ row'[p].transfer = row[p].transfer
          /\ \A q \in Payouts \ {p} : row'[q] = row[q]
      BY <1>3 DEF TypeOK, Row
    <2>2. Grows /\ ReversalBacked' /\ PaidTransferred'
      BY <1>1, <2>1 DEF Grows, RowsBacked, ReversalBacked, PaidTransferred
    <2> QED BY <1>1, <1>3, <2>2, IdleAfterDone DEF Backed, RowsBacked, IndexHolds
  <1> QED BY <1>2, <1>3 DEF InsertPayout

LEMMA GrantBacked ==
    ASSUME TypeOK, RowsBacked, NEW w \in Workers, JobBacked(w), Grant(w)
    PROVE  Backed(w)
  <1> DEFINE p == job[w].payout
  <1>1. UNCHANGED <<undone, pulled>> /\ Done(w) /\ p \in Payouts
    BY DEF Grant, books, JobBacked, At
  <1>2. CASE UNCHANGED row
    BY <1>1, <1>2, IdleAfterDone, QuietBacked
  <1>3. CASE StillPending(p)
    <2>1. row' = [row EXCEPT ![p].status = "ELIGIBLE", ![p].review = job[w].review]
      BY <1>3 DEF Grant
    <2>2. /\ row'[p].status = "ELIGIBLE" /\ row'[p].transfer = row[p].transfer
          /\ row'[p].txn = row[p].txn
          /\ \A q \in Payouts \ {p} : row'[q] = row[q]
      BY <1>1, <2>1 DEF TypeOK, Row
    <2>3. Grows /\ ReversalBacked' /\ PaidTransferred'
      BY <1>1, <2>2 DEF Grows, RowsBacked, ReversalBacked, PaidTransferred
    <2>4. IndexHolds(row')
      BY <1>3, <2>2, IndexStays DEF StillPending, Active, RowsBacked
    <2> QED BY <1>1, <2>3, <2>4, IdleAfterDone DEF Backed, RowsBacked, IndexHolds
  <1> QED BY <1>2, <1>3 DEF Grant

LEMMA ResetBacked ==
    ASSUME TypeOK, RowsBacked, NEW w \in Workers, JobBacked(w), ResetAttempts(w)
    PROVE  Backed(w)
  <1> DEFINE p == job[w].payout
  <1>1. UNCHANGED <<undone, pulled>> /\ Goto(w, "read") /\ p \in Payouts
    BY DEF ResetAttempts, books, JobBacked, At
  <1>2. /\ row'[p].status = row[p].status /\ row'[p].transfer = row[p].transfer
        /\ row'[p].txn = row[p].txn
        /\ \A q \in Payouts \ {p} : row'[q] = row[q]
    BY <1>1 DEF ResetAttempts, TypeOK, Row
  <1>3. Grows /\ ReversalBacked' /\ PaidTransferred'
    BY <1>1, <1>2 DEF Grows, RowsBacked, ReversalBacked, PaidTransferred
  <1>4. IndexHolds(row')
    BY <1>2, IndexStays DEF RowsBacked
  <1>5. JobBacked(w)' /\ \A v \in Workers \ {w} : job'[v] = job[v]
    BY <1>1, AfterGoto DEF JobBacked
  <1> QED BY <1>3, <1>4, <1>5 DEF Backed, RowsBacked, IndexHolds

LEMMA ClaimBacked ==
    ASSUME TypeOK, RowsBacked, NEW w \in Workers, JobBacked(w), Claim(w)
    PROVE  Backed(w)
  <1> DEFINE p == job[w].payout
  <1>1. UNCHANGED <<undone, pulled>> /\ p \in Payouts /\ job[w].attempt > 0
    BY DEF Claim, books, JobBacked, At
  <1>2. CASE UNCHANGED row /\ Done(w)
    BY <1>1, <1>2, IdleAfterDone, QuietBacked
  <1>3. CASE /\ row' = [row EXCEPT ![p].status = "PROCESSING", ![p].attempts = @ + 1]
             /\ IndexHolds(row') /\ Goto(w, "funds")
    <2>1. /\ row'[p].status = "PROCESSING" /\ row'[p].transfer = row[p].transfer
          /\ \A q \in Payouts \ {p} : row'[q] = row[q]
      BY <1>1, <1>3 DEF TypeOK, Row
    <2>2. Grows /\ ReversalBacked' /\ PaidTransferred'
      <3>1. Grows
        BY <1>1, <2>1 DEF Grows
      <3>2. ReversalBacked'
        BY <1>1, <2>1 DEF RowsBacked, ReversalBacked
      <3>3. PaidTransferred'
        BY <1>1, <2>1 DEF RowsBacked, PaidTransferred
      <3> QED BY <3>1, <3>2, <3>3
    <2>3. JobBacked(w)' /\ \A v \in Workers \ {w} : job'[v] = job[v]
      <3>1. /\ job'[w].at = "funds" /\ job'[w].payout = p
            /\ job'[w].attempt = job[w].attempt
            /\ \A v \in Workers \ {w} : job'[v] = job[v]
        BY <1>3, AfterGoto
      <3>2. JobBacked(w)'
        BY <1>1, <3>1 DEF JobBacked
      <3> QED BY <3>1, <3>2
    <2> QED BY <1>3, <2>2, <2>3 DEF Backed, RowsBacked, IndexHolds
  <1> QED BY <1>2, <1>3 DEF Claim

(* A handler that fails its payout and ends. *)
LEMMA FailBacked ==
    ASSUME TypeOK, RowsBacked, NEW w \in Workers, NEW p \in Payouts,
           SetStatus(p, "FAILED"), Done(w), UNCHANGED <<undone, pulled>>
    PROVE  Backed(w)
  <1>1. "FAILED" \in Statuses /\ "FAILED" \notin Active
    BY DEF Statuses, Active
  <1> QED BY <1>1, IdleAfterDone, StatusBacked

LEMMA TransferringBacked ==
    ASSUME TypeOK, RowsBacked, NEW w \in Workers, JobBacked(w),
           CheckEscrow(w) \/ Transfer(w)
    PROVE  Backed(w)
  <1> DEFINE p == job[w].payout
  <1>1. UNCHANGED <<undone, pulled>> /\ p \in Payouts /\ job[w].attempt > 0
    BY DEF CheckEscrow, Transfer, books, JobBacked, At
  <1>2. CASE SetStatus(p, "FAILED") /\ Done(w)
    BY <1>1, <1>2, FailBacked
  <1>3. ASSUME UNCHANGED row, NEW s \in {"transfer", "persist"}, Goto(w, s)
        PROVE  Backed(w)
    <2>1. JobBacked(w)' /\ \A v \in Workers \ {w} : job'[v] = job[v]
      BY <1>1, <1>3, AfterGoto DEF JobBacked
    <2> QED BY <1>1, <1>3, <2>1, QuietBacked
  <1> QED BY <1>2, <1>3 DEF CheckEscrow, Transfer

LEMMA PersistBacked ==
    ASSUME TypeOK, RowsBacked, NEW w \in Workers, JobBacked(w), PersistTransfer(w)
    PROVE  Backed(w)
  <1> DEFINE p == job[w].payout
  <1>1. /\ UNCHANGED <<undone, pulled>> /\ Goto(w, "post") /\ p \in Payouts
        /\ job[w].attempt > 0
    BY DEF PersistTransfer, books, JobBacked, At
  <1>2. /\ row'[p].status = row[p].status /\ row'[p].transfer = job[w].attempt
        /\ row'[p].txn = row[p].txn
        /\ \A q \in Payouts \ {p} : row'[q] = row[q]
    BY <1>1 DEF PersistTransfer, TypeOK, Row
  <1>3. Grows /\ ReversalBacked' /\ PaidTransferred'
    BY <1>1, <1>2 DEF Grows, RowsBacked, ReversalBacked, PaidTransferred
  <1>4. IndexHolds(row')
    BY <1>2, IndexStays DEF RowsBacked
  <1>5. JobBacked(w)' /\ \A v \in Workers \ {w} : job'[v] = job[v]
    BY <1>1, <1>2, AfterGoto DEF JobBacked
  <1> QED BY <1>3, <1>4, <1>5 DEF Backed, RowsBacked, IndexHolds

LEMMA ReleaseBacked ==
    ASSUME TypeOK, RowsBacked, NEW w \in Workers, JobBacked(w), Release(w)
    PROVE  Backed(w)
  <1> DEFINE p == job[w].payout
  <1>1. /\ UNCHANGED <<undone, pulled>> /\ p \in Payouts /\ job[w].attempt > 0
        /\ row[p].transfer > 0
    BY DEF Release, JobBacked, At
  <1>2. CASE SetStatus(p, "FAILED") /\ Done(w)
    BY <1>1, <1>2, FailBacked
  <1>3. CASE UNCHANGED row /\ Goto(w, "paid")
    <2>1. JobBacked(w)' /\ \A v \in Workers \ {w} : job'[v] = job[v]
      BY <1>1, <1>3, AfterGoto DEF JobBacked
    <2> QED BY <1>1, <1>3, <2>1, QuietBacked
  <1> QED BY <1>2, <1>3 DEF Release

LEMMA MarkBacked ==
    ASSUME TypeOK, RowsBacked, NEW w \in Workers, JobBacked(w),
           MarkPaid(w) \/ MarkReversed(w)
    PROVE  Backed(w)
  <1> DEFINE p == job[w].payout
  <1>1. UNCHANGED <<undone, pulled>> /\ Done(w) /\ p \in Payouts
    BY DEF MarkPaid, MarkReversed, books, JobBacked, At
  <1>2. PICK s \in {"PAID", "REVERSED"} :
          /\ SetStatus(p, s)
          /\ s = "PAID" => row[p].transfer > 0
          /\ s = "REVERSED" => undone[p] > 0
    BY DEF MarkPaid, MarkReversed, JobBacked, At
  <1>3. s \in Statuses /\ s \notin Active
    BY <1>2 DEF Statuses, Active
  <1> QED BY <1>1, <1>2, <1>3, IdleAfterDone, StatusBacked

(* The reversal's statements, for a payout handler or for the agent that called *)
(* reversePayout: each goes on with its effect there, or ends the handler.      *)
LEMMA PullBacked ==
    ASSUME TypeOK, RowsBacked, NEW w \in Workers, JobBacked(w), PullBack(w)
    PROVE  /\ Backed(w)
           /\ job'[w].at = "idle" \/ (job'[w].at = "unpost" /\ job'[w].payout = job[w].payout)
  <1> DEFINE p == job[w].payout
  <1>1. UNCHANGED <<row, undone>> /\ p \in Payouts /\ pulled \subseteq pulled'
    BY DEF PullBack, books, JobBacked, At
  <1>2. Grows
    BY <1>1 DEF Grows
  <1>3. RowsBacked'
    BY <1>1 DEF RowsBacked, ReversalBacked, PaidTransferred, IndexHolds
  <1>4. CASE Done(w)
    BY <1>2, <1>3, <1>4, IdleAfterDone DEF Backed, Idle
  <1>5. CASE p \in pulled' /\ Goto(w, "unpost")
    <2>1. JobBacked(w)'
      BY <1>1, <1>5, AfterGoto DEF JobBacked
    <2> QED BY <1>2, <1>3, <1>5, <2>1, AfterGoto DEF Backed
  <1> QED BY <1>4, <1>5 DEF PullBack

LEMMA UndoBacked ==
    ASSUME TypeOK, RowsBacked, NEW w \in Workers, JobBacked(w), Undo(w)
    PROVE  /\ Backed(w)
           /\ job'[w].at = "idle" \/ (job'[w].at = "reversed" /\ job'[w].payout = job[w].payout)
  <1> DEFINE p == job[w].payout
  <1>1. UNCHANGED <<row, pulled>> /\ p \in Payouts /\ p \in pulled
    BY DEF Undo, JobBacked, At
  <1>2. CASE Done(w) /\ UNCHANGED undone
    BY <1>1, <1>2, IdleAfterDone, QuietBacked DEF Idle
  <1>3. CASE undone' = [undone EXCEPT ![p] = @ + 1] /\ Goto(w, "reversed")
    <2>1. undone'[p] > 0 /\ \A q \in Payouts \ {p} : undone'[q] = undone[q]
      BY <1>1, <1>3 DEF TypeOK
    <2>2. Grows
      BY <1>1, <2>1 DEF Grows
    <2>3. RowsBacked'
      BY <1>1, <2>1 DEF RowsBacked, ReversalBacked, PaidTransferred, IndexHolds
    <2>4. JobBacked(w)'
      BY <1>1, <1>3, <2>1, AfterGoto DEF JobBacked
    <2> QED BY <1>3, <2>2, <2>3, <2>4, AfterGoto DEF Backed
  <1> QED BY <1>2, <1>3 DEF Undo

LEMMA StepBacked ==
    ASSUME TypeOK, RowsBacked, NEW w \in Workers, JobBacked(w), Step(w) \/ Crash(w)
    PROVE  Backed(w)
  BY ReadingBacked, InsertBacked, GrantBacked, ResetBacked, ClaimBacked,
     TransferringBacked, PersistBacked, ReleaseBacked, MarkBacked, PullBacked, UndoBacked
     DEF Step

-------------------------------------------------------------------------------
DisputeRows == [status : DisputeStatuses, txn : Transactions, payout : Payouts \cup {0}]

LEMMA FreeType == Free \in Desk /\ NoDispute \in DisputeRows
  BY IdleType DEF Free, Desk, NoDispute, DisputeRows, Row, Statuses, DisputeStatuses

LEMMA LeaveType ==
    ASSUME DisputeTypeOK, NEW a \in Agents, Leave(a)
    PROVE  /\ desk' \in [Agents -> Desk] /\ DeskBacked(a)'
           /\ \A b \in Agents \ {a} : desk'[b] = desk[b]
  <1>1. /\ desk' \in [Agents -> Desk] /\ desk'[a] = Free
        /\ \A b \in Agents \ {a} : desk'[b] = desk[b]
    BY FreeType DEF DisputeTypeOK, Leave
  <1> QED BY <1>1 DEF DeskBacked, Free

Places == {"free", "create", "freeze", "look", "thaw", "find", "reverse",
           "reversing", "balance", "block", "refund", "write"}

LEMMA GoOnType ==
    ASSUME DisputeTypeOK, NEW a \in Agents, NEW s \in Places, GoOn(a, s)
    PROVE  /\ desk' \in [Agents -> Desk] /\ desk'[a].at = s
           /\ desk'[a].payout = desk[a].payout /\ desk'[a].verdict = desk[a].verdict
           /\ \A b \in Agents \ {a} : desk'[b] = desk[b]
  BY DEF DisputeTypeOK, Desk, GoOn, Places

(* A step of an agent that moves no payout handler. *)
LEMMA DeskMoves ==
    ASSUME DisputeInv, NEW a \in Agents, TypeOK', RowsBacked',
           UNCHANGED <<undone, pulled, job>>,
           \A p \in Payouts : row'[p].transfer = row[p].transfer,
           dispute' \in [Disputes -> DisputeRows], refunds' \in [Disputes -> Nat],
           desk' \in [Agents -> Desk], DeskBacked(a)',
           \A b \in Agents \ {a} : desk'[b] = desk[b]
    PROVE  DisputeInv'
  <1>1. Grows
    BY DEF Grows
  <1>2. \A w \in Workers : JobBacked(w)'
    BY <1>1, OtherJob DEF DisputeInv
  <1>3. \A b \in Agents \ {a} : DeskBacked(b)'
    BY <1>1, OtherDesk DEF DisputeInv
  <1>4. DisputeTypeOK'
    BY DEF DisputeTypeOK, DisputeRows
  <1> QED BY <1>2, <1>3, <1>4 DEF DisputeInv

(* ... and writes no row either. *)
LEMMA DeskMovesQuietly ==
    ASSUME DisputeInv, NEW a \in Agents,
           UNCHANGED <<row, released, undone, stripe, pulled, job>>,
           blocked' \in BOOLEAN, balance' \in [Accounts -> Int], calls' \in 0 .. MaxCalls,
           dispute' \in [Disputes -> DisputeRows], refunds' \in [Disputes -> Nat],
           desk' \in [Agents -> Desk], DeskBacked(a)',
           \A b \in Agents \ {a} : desk'[b] = desk[b]
    PROVE  DisputeInv'
  <1>1. TypeOK'
    BY DEF DisputeInv, DisputeTypeOK, TypeOK
  <1>2. RowsBacked'
    BY DEF DisputeInv, RowsBacked, ReversalBacked, PaidTransferred, IndexHolds
  <1> QED BY <1>1, <1>2, DeskMoves

LEMMA Standing ==
    ASSUME DisputeInv
    PROVE  /\ TypeOK /\ RowsBacked /\ DisputeTypeOK
           /\ blocked \in BOOLEAN /\ balance \in [Accounts -> Int]
           /\ calls \in 0 .. MaxCalls /\ row \in [Payouts -> Row]
           /\ dispute \in [Disputes -> DisputeRows] /\ refunds \in [Disputes -> Nat]
           /\ Agents \subseteq Workers
  BY DisputeAssumption DEF DisputeInv, DisputeTypeOK, TypeOK, DisputeRows

-------------------------------------------------------------------------------
(* Requests. *)
LEMMA AskBacked ==
    ASSUME DisputeInv, NEW a \in Agents, NEW first \in Desk, Ask(a, first),
           first.at \in {"create", "write", "look", "find"},
           first.at # "create" => first.payout = 0,
           first.at = "look" => first.verdict = "WON",
           first.at = "find" => first.dispute \in Disputes
    PROVE  DisputeInv'
  <1>1. /\ desk' \in [Agents -> Desk] /\ desk'[a] = first
        /\ \A b \in Agents \ {a} : desk'[b] = desk[b]
    BY DEF DisputeInv, DisputeTypeOK, Ask
  <1>2. DeskBacked(a)'
    BY <1>1 DEF DeskBacked
  <1>3. /\ calls' \in 0 .. MaxCalls
        /\ UNCHANGED <<row, blocked, balance, released, undone, stripe, pulled, job,
                       dispute, refunds>>
    BY Standing, PayoutAssumption DEF Ask, books
  <1> QED BY <1>1, <1>2, <1>3, Standing, DeskMovesQuietly

LEMMA AgentRequestBacked ==
    ASSUME DisputeInv, NEW a \in Agents, AgentRequest(a)
    PROVE  DisputeInv'
  <1>1. ASSUME NEW t \in Transactions, NEW p \in Payouts,
               Ask(a, [Free EXCEPT !.at = "create", !.txn = t, !.payout = p,
                                   !.status = row[p].status])
        PROVE  DisputeInv'
    <2> DEFINE first == [Free EXCEPT !.at = "create", !.txn = t, !.payout = p,
                                     !.status = row[p].status]
    <2>1. row[p].status \in Statuses
      BY Standing DEF Row
    <2>2. first \in Desk /\ first.at = "create"
      BY <2>1, FreeType DEF Desk, Free
    <2> QED BY <1>1, <2>2, AskBacked
  <1>2. ASSUME NEW t \in Transactions, Ask(a, [Free EXCEPT !.at = "create", !.txn = t])
        PROVE  DisputeInv'
    <2> DEFINE first == [Free EXCEPT !.at = "create", !.txn = t]
    <2>1. first \in Desk /\ first.at = "create"
      BY FreeType DEF Desk, Free
    <2> QED BY <1>2, <2>1, AskBacked
  <1>3. CASE OpenDispute(a)
    BY <1>1, <1>2, <1>3 DEF OpenDispute
  <1>4. ASSUME NEW d \in Disputes, NEW verdict \in DisputeStatuses,
               NEW s \in {"write", "look", "find"}, Decide(a, d, verdict, s),
               s = "look" => verdict = "WON"
        PROVE  DisputeInv'
    <2> DEFINE first == [Free EXCEPT !.at = s, !.dispute = d, !.verdict = verdict]
    <2>1. /\ first \in Desk /\ first.at = s /\ first.payout = 0
          /\ first.verdict = verdict /\ first.dispute = d
      BY FreeType DEF Desk, Free
    <2>2. Ask(a, first)
      BY <1>4 DEF Decide
    <2> HIDE DEF first
    <2> QED BY <1>4, <2>1, <2>2, AskBacked
  <1>5. ASSUME NEW d \in Disputes,
               StartReview(a, d) \/ ResolveWon(a, d) \/ ResolveAgainstSeller(a, d)
        PROVE  DisputeInv'
    <2>1. CASE StartReview(a, d)
      BY <1>4, <2>1 DEF StartReview, DisputeStatuses
    <2>2. CASE ResolveWon(a, d)
      BY <1>4, <2>2 DEF ResolveWon, DisputeStatuses
    <2>3. CASE ResolveAgainstSeller(a, d)
      BY <1>4, <2>3 DEF ResolveAgainstSeller, DisputeStatuses
    <2> QED BY <1>5, <2>1, <2>2, <2>3
  <1> QED BY <1>3, <1>5 DEF AgentRequest

-------------------------------------------------------------------------------
(* The statements of openDispute. *)
LEMMA CreateDisputeBacked ==
    ASSUME DisputeInv, NEW a \in Agents, CreateDispute(a)
    PROVE  DisputeInv'
  <1>1. UNCHANGED <<row, blocked, balance, released, undone, stripe, pulled, job, calls,
                    refunds>>
    BY DEF CreateDispute, LedgerSame, RestSame, books
  <1>2. dispute' \in [Disputes -> DisputeRows]
    <2>1. desk[a].txn \in Transactions /\ desk[a].payout \in Payouts \cup {0}
      BY Standing DEF DisputeTypeOK, Desk
    <2>2. ASSUME NEW d \in Disputes,
                 dispute' = [dispute EXCEPT ![d] =
                    [status |-> "OPEN", txn |-> desk[a].txn, payout |-> desk[a].payout]]
          PROVE  dispute' \in [Disputes -> DisputeRows]
      <3>1. [status |-> "OPEN", txn |-> desk[a].txn, payout |-> desk[a].payout] \in DisputeRows
        BY <2>1 DEF DisputeRows, DisputeStatuses
      <3> QED BY <2>2, <3>1, Standing
    <2> QED BY <2>2, Standing DEF CreateDispute
  <1>3. CASE Leave(a)
    BY <1>1, <1>2, <1>3, Standing, LeaveType, DeskMovesQuietly
  <1>4. CASE GoOn(a, "freeze")
    <2>1. /\ desk' \in [Agents -> Desk] /\ desk'[a].at = "freeze"
          /\ \A b \in Agents \ {a} : desk'[b] = desk[b]
      BY <1>4, Standing, GoOnType DEF Places
    <2>2. DeskBacked(a)'
      BY <2>1 DEF DeskBacked
    <2> QED BY <1>1, <1>2, <2>1, <2>2, Standing, DeskMovesQuietly
  <1> QED BY <1>3, <1>4 DEF CreateDispute

(* A row is set to a status that is neither PAID nor REVERSED, if the index  *)
(* allows it. *)
LEMMA RowWritten ==
    ASSUME DisputeInv, NEW p, NEW s \in Statuses \ {"PAID", "REVERSED"},
           SetStatus(p, s), IndexHolds(row'), UNCHANGED <<undone, pulled>>
    PROVE  /\ RowsBacked' /\ row' \in [Payouts -> Row]
           /\ \A q \in Payouts : row'[q].transfer = row[q].transfer
  <1>1. row' \in [Payouts -> Row]
    BY Standing, StatusType
  <1>2. ASSUME NEW q \in Payouts
        PROVE  /\ row'[q].transfer = row[q].transfer
               /\ row'[q].status \in {"PAID", "REVERSED"} => row'[q] = row[q]
    <2>1. CASE q = p
      BY <2>1, Standing DEF SetStatus, Row
    <2>2. CASE q # p
      BY <2>2, Standing DEF SetStatus
    <2> QED BY <2>1, <2>2
  <1>3. ReversalBacked' /\ PaidTransferred'
    BY <1>2, Standing DEF RowsBacked, ReversalBacked, PaidTransferred
  <1> QED BY <1>1, <1>2, <1>3 DEF RowsBacked, IndexHolds

LEMMA RowKept ==
    ASSUME DisputeInv, UNCHANGED <<row, undone, pulled>>
    PROVE  /\ RowsBacked' /\ row' \in [Payouts -> Row]
           /\ \A q \in Payouts : row'[q].transfer = row[q].transfer
  BY Standing DEF RowsBacked, ReversalBacked, PaidTransferred, IndexHolds

LEMMA FreezeBacked ==
    ASSUME DisputeInv, NEW a \in Agents, Freeze(a)
    PROVE  DisputeInv'
  <1>1. /\ UNCHANGED <<blocked, balance, released, undone, stripe, pulled, job, calls,
                       dispute, refunds>>
        /\ Leave(a)
    BY DEF Freeze, LedgerSame, RestSame, books
  <1>2. /\ RowsBacked' /\ row' \in [Payouts -> Row]
        /\ \A q \in Payouts : row'[q].transfer = row[q].transfer
    <2>1. CASE UNCHANGED row
      BY <1>1, <2>1, RowKept
    <2>2. CASE SetStatus(desk[a].payout, "PENDING") /\ IndexHolds(row')
      BY <1>1, <2>2, RowWritten DEF Statuses
    <2> QED BY <2>1, <2>2 DEF Freeze, Frozen, SetStatus
  <1>3. TypeOK'
    BY <1>1, <1>2, Standing DEF TypeOK
  <1> QED BY <1>1, <1>2, <1>3, Standing, LeaveType, DeskMoves

-------------------------------------------------------------------------------
(* The statements of resolveWon. *)
LEMMA LookBacked ==
    ASSUME DisputeInv, NEW a \in Agents, LookAtFrozen(a)
    PROVE  DisputeInv'
  <1>1. UNCHANGED <<row, blocked, balance, released, undone, stripe, pulled, job, calls,
                    dispute, refunds>>
    BY DEF LookAtFrozen, LedgerSame, RestSame, books
  <1>2. desk[a].verdict = "WON"
    BY DEF LookAtFrozen, On, DisputeInv, DeskBacked
  <1>3. PICK s \in {"thaw", "write"} : GoOn(a, s)
    BY DEF LookAtFrozen
  <1>4. /\ desk' \in [Agents -> Desk] /\ desk'[a].at = s /\ desk'[a].verdict = "WON"
        /\ \A b \in Agents \ {a} : desk'[b] = desk[b]
    BY <1>2, <1>3, Standing, GoOnType DEF Places
  <1>5. DeskBacked(a)'
    BY <1>3, <1>4 DEF DeskBacked
  <1> QED BY <1>1, <1>4, <1>5, Standing, DeskMovesQuietly

LEMMA ThawBacked ==
    ASSUME DisputeInv, NEW a \in Agents, Thaw(a)
    PROVE  DisputeInv'
  <1>1. UNCHANGED <<blocked, balance, released, undone, stripe, pulled, job, calls,
                    dispute, refunds>>
    BY DEF Thaw, LedgerSame, RestSame, books
  <1>2. desk[a].verdict = "WON"
    BY DEF Thaw, On, DisputeInv, DeskBacked
  <1>3. CASE UNCHANGED row /\ Leave(a)
    BY <1>1, <1>3, Standing, LeaveType, DeskMovesQuietly
  <1>4. CASE /\ SetStatus(dispute[desk[a].dispute].payout, "ELIGIBLE")
             /\ IndexHolds(row') /\ GoOn(a, "write")
    <2>1. /\ RowsBacked' /\ row' \in [Payouts -> Row]
          /\ \A q \in Payouts : row'[q].transfer = row[q].transfer
      BY <1>1, <1>4, RowWritten DEF Statuses
    <2>2. TypeOK'
      BY <1>1, <2>1, Standing DEF TypeOK
    <2>3. /\ desk' \in [Agents -> Desk] /\ desk'[a].at = "write"
          /\ desk'[a].verdict = "WON" /\ \A b \in Agents \ {a} : desk'[b] = desk[b]
      BY <1>2, <1>4, Standing, GoOnType DEF Places
    <2>4. DeskBacked(a)'
      BY <2>3 DEF DeskBacked
    <2> QED BY <1>1, <2>1, <2>2, <2>3, <2>4, Standing, DeskMoves
  <1> QED BY <1>3, <1>4 DEF Thaw, SetStatus

-------------------------------------------------------------------------------
(* The statements of resolveLost and resolveRefunded. *)

(* After the reversal, or without one, the handler refunds or writes.        *)
LEMMA AfterReversalBacked ==
    ASSUME DisputeInv, NEW a \in Agents, GoOn(a, AfterReversal(a)),
           \/ desk[a].payout = 0
           \/ desk[a].payout \in Payouts /\ Returned(desk[a].payout),
           UNCHANGED <<undone, pulled>>
    PROVE  /\ desk' \in [Agents -> Desk] /\ DeskBacked(a)'
           /\ \A b \in Agents \ {a} : desk'[b] = desk[b]
  <1>1. PICK s \in {"refund", "write"} : GoOn(a, s)
    BY DEF AfterReversal
  <1>2. /\ desk' \in [Agents -> Desk] /\ desk'[a].at = s
        /\ desk'[a].payout = desk[a].payout
        /\ \A b \in Agents \ {a} : desk'[b] = desk[b]
    BY <1>1, Standing, GoOnType DEF Places
  <1>3. DeskBacked(a)'
    BY <1>1, <1>2 DEF DeskBacked, Returned
  <1> QED BY <1>2, <1>3

LEMMA FindBacked ==
    ASSUME DisputeInv, NEW a \in Agents, FindPayout(a)
    PROVE  DisputeInv'
  <1>1. UNCHANGED <<row, blocked, balance, released, undone, stripe, pulled, job, calls,
                    dispute, refunds>>
    BY DEF FindPayout, LedgerSame, RestSame, books
  <1>2. desk[a].payout = 0 /\ desk[a] \in Desk
    BY Standing DEF FindPayout, On, DisputeInv, DisputeTypeOK, DeskBacked
  <1>3. ASSUME NEW p \in ToReverse(desk[a].dispute), row[p].status = "PAID",
               desk' = [desk EXCEPT ![a].at = "reverse", ![a].payout = p]
        PROVE  DisputeInv'
    <2>1. p \in Payouts
      <3>1. desk[a].dispute \in Disputes
        BY DEF DisputeInv, DeskBacked, FindPayout, On
      <3>2. dispute[desk[a].dispute].payout \in Payouts \cup {0}
        BY <3>1, Standing DEF DisputeRows
      <3> QED BY <1>3, <3>2 DEF ToReverse
    <2>2. /\ desk' \in [Agents -> Desk] /\ desk'[a].at = "reverse"
          /\ desk'[a].payout = p /\ \A b \in Agents \ {a} : desk'[b] = desk[b]
      <3> DEFINE new == [desk[a] EXCEPT !.at = "reverse", !.payout = p]
      <3>1. desk \in [Agents -> Desk] /\ desk[a] \in Desk
        BY Standing DEF DisputeTypeOK
      <3>2. new \in Desk /\ new.at = "reverse" /\ new.payout = p
        BY <2>1, <3>1 DEF Desk
      <3>3. desk' = [desk EXCEPT ![a] = new]
        BY <1>3, <3>1
      <3> HIDE DEF new
      <3> QED BY <3>1, <3>2, <3>3
    <2>3. DeskBacked(a)'
      BY <2>1, <2>2 DEF DeskBacked
    <2> QED BY <1>1, <2>2, <2>3, Standing, DeskMovesQuietly
  <1>4. CASE GoOn(a, AfterReversal(a))
    BY <1>1, <1>2, <1>4, Standing, AfterReversalBacked, DeskMovesQuietly
  <1> QED BY <1>3, <1>4 DEF FindPayout

LEMMA StartReversalBacked ==
    ASSUME DisputeInv, NEW a \in Agents, StartReversal(a)
    PROVE  DisputeInv'
  <1> DEFINE p == desk[a].payout
  <1>1. UNCHANGED <<row, blocked, balance, released, undone, stripe, pulled, calls,
                    dispute, refunds>>
    BY DEF StartReversal, LedgerSame, books
  <1>2. CASE UNCHANGED job /\ Leave(a)
    BY <1>1, <1>2, Standing, LeaveType, DeskMovesQuietly
  <1>3. CASE /\ row[p].status = "PAID" /\ job' = [job EXCEPT ![a] = Reversal(p)]
             /\ GoOn(a, "reversing")
    <2>1. p \in Payouts /\ row[p].transfer \in Nat /\ row[p].transfer > 0
      BY <1>3, Standing
         DEF StartReversal, On, DisputeInv, DeskBacked, RowsBacked, PaidTransferred, Row
    <2>2. Reversal(p) \in Job /\ Reversal(p).at = "pull" /\ Reversal(p).payout = p
      <3> HIDE DEF p
      <3>1. Reversal(p) \in Job
        BY <2>1, ReversalType
      <3>2. Reversal(p).at = "pull" /\ Reversal(p).payout = p
        BY <2>1 DEF Reversal, Idle
      <3> QED BY <3>1, <3>2
    <2> HIDE DEF p
    <2>3. /\ job' \in [Workers -> Job] /\ job'[a] = Reversal(p)
          /\ \A v \in Workers \ {a} : job'[v] = job[v]
      BY <1>3, <2>2, Standing DEF TypeOK
    <2>4. /\ desk' \in [Agents -> Desk] /\ desk'[a].at = "reversing" /\ desk'[a].payout = p
          /\ \A b \in Agents \ {a} : desk'[b] = desk[b]
      BY <1>3, Standing, GoOnType DEF Places, p
    <2>5. Grows
      BY <1>1 DEF Grows
    <2>6. \A w \in Workers : JobBacked(w)'
      <3>1. JobBacked(a)'
        BY <2>1, <2>2, <2>3 DEF JobBacked
      <3> QED BY <2>3, <2>5, <3>1, OtherJob DEF DisputeInv
    <2>7. \A b \in Agents : DeskBacked(b)'
      <3>1. DeskBacked(a)'
        BY <2>1, <2>2, <2>3, <2>4 DEF DeskBacked
      <3>2. ASSUME NEW b \in Agents \ {a} PROVE DeskBacked(b)'
        BY <2>3, <2>4, <2>5, Standing, OtherDesk DEF DisputeInv
      <3> QED BY <3>1, <3>2
    <2>8. DisputeTypeOK'
      BY <1>1, <2>3, <2>4, Standing DEF DisputeTypeOK, TypeOK
    <2>9. RowsBacked'
      BY <1>1, RowKept
    <2> QED BY <2>6, <2>7, <2>8, <2>9 DEF DisputeInv
  <1> QED BY <1>2, <1>3 DEF StartReversal

(* The handler an agent has called goes on, and the agent with it. *)
LEMMA CalledStep ==
    ASSUME DisputeInv, NEW a \in Agents, Backed(a), TypeOK',
           UNCHANGED <<dispute, refunds>>, desk' \in [Agents -> Desk], DeskBacked(a)',
           \A b \in Agents \ {a} : desk'[b] = desk[b]
    PROVE  DisputeInv'
  <1>1. \A w \in Workers : JobBacked(w)'
    BY OtherJob DEF DisputeInv, Backed
  <1>2. \A b \in Agents \ {a} : DeskBacked(b)'
    BY Standing, OtherDesk DEF DisputeInv, Backed
  <1>3. DisputeTypeOK'
    BY Standing DEF DisputeTypeOK, DisputeRows
  <1> QED BY <1>1, <1>2, <1>3 DEF DisputeInv, Backed

LEMMA ReversalStepBacked ==
    ASSUME DisputeInv, NEW a \in Agents, ReversalStep(a)
    PROVE  DisputeInv'
  <1> DEFINE p == desk[a].payout
  <1>1. /\ a \in Workers /\ JobBacked(a) /\ p \in Payouts /\ job[a].payout = p
        /\ job[a].at \in {"pull", "unpost", "reversed"}
        /\ On(a, "reversing") /\ UNCHANGED <<dispute, refunds>>
    BY Standing DEF ReversalStep, On, DisputeInv, DeskBacked
  <1>2. TypeOK'
    BY <1>1, Standing, StepType DEF ReversalStep, Step
  <1>3. CASE MarkReversed(a) /\ GoOn(a, "balance")
    <2>1. Backed(a)
      BY <1>1, <1>3, Standing, MarkBacked
    <2>2. Returned(p)
      BY <1>1, <1>3 DEF MarkReversed, At, JobBacked, Returned
    <2>3. /\ desk' \in [Agents -> Desk] /\ desk'[a].at = "balance" /\ desk'[a].payout = p
          /\ \A b \in Agents \ {a} : desk'[b] = desk[b]
      BY <1>3, Standing, GoOnType DEF Places
    <2>4. DeskBacked(a)'
      BY <1>1, <2>1, <2>2, <2>3 DEF DeskBacked, Returned, Backed, Grows
    <2> QED BY <1>1, <1>2, <2>1, <2>3, <2>4, CalledStep
  <1>4. CASE /\ PullBack(a) \/ Undo(a)
             /\ desk' = IF job'[a].at = "idle" THEN [desk EXCEPT ![a] = Thrown(a)] ELSE desk
    <2>1. /\ Backed(a)
          /\ job'[a].at = "idle" \/ (job'[a].at \in {"unpost", "reversed"} /\ job'[a].payout = p)
      BY <1>1, <1>4, Standing, PullBacked, UndoBacked
    <2>2. CASE job'[a].at = "idle"
      <3>1. Leave(a)
        BY <1>4, <2>2 DEF Leave, Thrown
      <3> QED BY <1>1, <1>2, <2>1, <3>1, Standing, LeaveType, CalledStep
    <2>3. CASE job'[a].at # "idle"
      <3>1. desk' = desk
        BY <1>4, <2>3
      <3>2. DeskBacked(a)'
        BY <1>1, <2>1, <2>3, <3>1 DEF DeskBacked, On
      <3>3. desk' \in [Agents -> Desk]
        BY <3>1, Standing DEF DisputeTypeOK
      <3> QED BY <1>1, <1>2, <2>1, <3>1, <3>2, <3>3, CalledStep
    <2> QED BY <2>2, <2>3
  <1> QED BY <1>1, <1>3, <1>4 DEF ReversalStep

LEMMA BalanceBacked ==
    ASSUME DisputeInv, NEW a \in Agents, ReadSellerBalance(a) \/ BlockSeller(a)
    PROVE  DisputeInv'
  <1>1. /\ UNCHANGED <<row, balance, released, undone, stripe, pulled, job, calls,
                       dispute, refunds>>
        /\ blocked' \in BOOLEAN
    BY Standing DEF ReadSellerBalance, BlockSeller, LedgerSame, RestSame, books
  <1>2. desk[a].payout \in Payouts /\ Returned(desk[a].payout)
    BY DEF ReadSellerBalance, BlockSeller, On, DisputeInv, DeskBacked
  <1>3. CASE GoOn(a, AfterReversal(a))
    BY <1>1, <1>2, <1>3, Standing, AfterReversalBacked, DeskMovesQuietly
  <1>4. CASE GoOn(a, "block")
    <2>1. /\ desk' \in [Agents -> Desk] /\ desk'[a].at = "block"
          /\ desk'[a].payout = desk[a].payout
          /\ \A b \in Agents \ {a} : desk'[b] = desk[b]
      BY <1>4, Standing, GoOnType DEF Places
    <2>2. DeskBacked(a)'
      BY <1>1, <1>2, <2>1 DEF DeskBacked, Returned
    <2> QED BY <1>1, <2>1, <2>2, Standing, DeskMovesQuietly
  <1> QED BY <1>3, <1>4 DEF ReadSellerBalance, BlockSeller

LEMMA RefundType ==
    ASSUME TypeOK, Refund!Post(RefundPosting)
    PROVE  balance' \in [Accounts -> Int]
  <1>1. ASSUME NEW x \in Accounts
        PROVE  /\ Refund!AmountOf(RefundPosting.credit, x) \in Int
               /\ Refund!AmountOf(RefundPosting.debit, x) \in Int
    BY PayoutAssumption DEF RefundPosting, Refund!AmountOf
  <1> QED BY <1>1 DEF Refund!Post, TypeOK

LEMMA RefundBacked ==
    ASSUME DisputeInv, NEW a \in Agents, PostRefund(a)
    PROVE  DisputeInv'
  <1>1. UNCHANGED <<row, blocked, released, undone, stripe, pulled, job, calls, dispute>>
    BY DEF PostRefund, RestSame
  <1>2. CASE UNCHANGED <<balance, refunds>> /\ Leave(a)
    BY <1>1, <1>2, Standing, LeaveType, DeskMovesQuietly
  <1>3. CASE /\ Refund!Post(RefundPosting) /\ GoOn(a, "write")
             /\ refunds' = [refunds EXCEPT ![desk[a].dispute] = @ + 1]
    <2>1. balance' \in [Accounts -> Int] /\ refunds' \in [Disputes -> Nat]
      <3>1. balance' \in [Accounts -> Int]
        BY <1>3, Standing, RefundType
      <3>2. \A d \in Disputes : refunds[d] \in Nat /\ refunds[d] + 1 \in Nat
        BY Standing
      <3>3. refunds' \in [Disputes -> Nat]
        BY <1>3, <3>2, Standing
      <3> QED BY <3>1, <3>3
    <2>2. /\ desk' \in [Agents -> Desk] /\ desk'[a].at = "write"
          /\ desk'[a].payout = desk[a].payout /\ desk'[a].verdict = desk[a].verdict
          /\ \A b \in Agents \ {a} : desk'[b] = desk[b]
      BY <1>3, Standing, GoOnType DEF Places
    <2>3. DeskBacked(a) /\ On(a, "refund")
      BY DEF DisputeInv, PostRefund
    <2>4. DeskBacked(a)'
      BY <1>1, <2>2, <2>3 DEF DeskBacked, Returned, On
    <2> QED BY <1>1, <2>1, <2>2, <2>4, Standing, DeskMovesQuietly
  <1>4. CASE UNCHANGED <<balance, refunds>> /\ GoOn(a, "write")
    <2>1. /\ desk' \in [Agents -> Desk] /\ desk'[a].at = "write"
          /\ desk'[a].payout = desk[a].payout /\ desk'[a].verdict = desk[a].verdict
          /\ \A b \in Agents \ {a} : desk'[b] = desk[b]
      BY <1>4, Standing, GoOnType DEF Places
    <2>2. DeskBacked(a) /\ On(a, "refund")
      BY DEF DisputeInv, PostRefund
    <2>3. DeskBacked(a)'
      BY <1>1, <2>1, <2>2 DEF DeskBacked, Returned, On
    <2> QED BY <1>1, <1>4, <2>1, <2>3, Standing, DeskMovesQuietly
  <1> QED BY <1>2, <1>3, <1>4 DEF PostRefund

LEMMA VerdictBacked ==
    ASSUME DisputeInv, NEW a \in Agents, WriteVerdict(a)
    PROVE  DisputeInv'
  <1>1. UNCHANGED <<row, blocked, balance, released, undone, stripe, pulled, job, calls,
                    refunds>>
    BY DEF WriteVerdict, LedgerSame, RestSame, books
  <1>2. dispute' \in [Disputes -> DisputeRows]
    <2>1. desk[a].verdict \in DisputeStatuses
      BY Standing DEF DisputeTypeOK, Desk
    <2> QED BY <2>1, Standing DEF WriteVerdict, WriteStatus, DisputeRows
  <1> QED BY <1>1, <1>2, Standing, LeaveType, DeskMovesQuietly DEF WriteVerdict

LEMMA AgentCrashBacked ==
    ASSUME DisputeInv, NEW a \in Agents, AgentCrash(a)
    PROVE  DisputeInv'
  <1>1. /\ UNCHANGED <<row, blocked, balance, released, undone, stripe, pulled, calls,
                       dispute, refunds>>
        /\ Leave(a) /\ Done(a) /\ a \in Workers
    BY Standing DEF AgentCrash, LedgerSame, books
  <1>2. Backed(a)
    BY <1>1, Standing, IdleAfterDone, QuietBacked
  <1>3. TypeOK'
    <2>1. job' \in [Workers -> Job]
      BY <1>1, Standing, DoneType
    <2> QED BY <1>1, <2>1, Standing DEF TypeOK
  <1> QED BY <1>1, <1>2, <1>3, Standing, LeaveType, CalledStep

-------------------------------------------------------------------------------
(* A payout handler's own step, which no dispute handler waits for. *)
LEMMA PayoutStepBacked ==
    ASSUME DisputeInv, NEW w \in Workers, PayoutStep(w)
    PROVE  DisputeInv'
  <1>1. TypeOK /\ RowsBacked /\ JobBacked(w) /\ UNCHANGED <<dispute, refunds, desk>>
    BY Standing DEF DisputeInv, PayoutStep
  <1>2. job[w].at \notin {"idle", "insert"} => job[w].payout \in Payouts
    BY <1>1 DEF JobBacked
  <1>3. Backed(w)
    BY <1>1, RequestBacked, StepBacked DEF PayoutStep
  <1>4. TypeOK'
    BY <1>1, <1>2, RequestType, StepType DEF PayoutStep
  <1>5. \A v \in Workers : JobBacked(v)'
    BY <1>3, OtherJob DEF DisputeInv, Backed
  <1>6. ASSUME NEW a \in Agents PROVE DeskBacked(a)'
    <2>1. desk[a].at = "reversing" => a # w
      BY DEF PayoutStep, On
    <2>2. desk[a].at = "reversing" => job'[a] = job[a]
      BY <1>3, <2>1, Standing DEF Backed
    <2> QED BY <1>1, <1>3, <2>2, OtherDesk DEF DisputeInv, Backed
  <1>7. DisputeTypeOK'
    BY <1>1, <1>4, Standing DEF DisputeTypeOK
  <1> QED BY <1>3, <1>5, <1>6, <1>7 DEF DisputeInv, Backed

LEMMA DisputeInitBacked == DisputeInit => DisputeInv
  <1> SUFFICES ASSUME DisputeInit PROVE DisputeInv
    OBVIOUS
  <1>1. TypeOK
    BY InitInv DEF DisputeInit, IInv
  <1>2. DisputeTypeOK
    BY <1>1, FreeType DEF DisputeInit, DisputeTypeOK, DisputeRows
  <1>3. RowsBacked
    BY DEF DisputeInit, Init, NoRow, RowsBacked, ReversalBacked, PaidTransferred,
           IndexHolds, Active
  <1>4. \A w \in Workers : JobBacked(w)
    BY DEF DisputeInit, Init, Idle, JobBacked
  <1>5. \A a \in Agents : DeskBacked(a)
    BY DEF DisputeInit, Free, DeskBacked
  <1> QED BY <1>2, <1>3, <1>4, <1>5 DEF DisputeInv

LEMMA DisputeStutters == DisputeInv /\ UNCHANGED vars => DisputeInv'
  <1> SUFFICES ASSUME DisputeInv, UNCHANGED vars PROVE DisputeInv'
    OBVIOUS
  <1>1. UNCHANGED <<row, blocked, balance, released, undone, stripe, pulled, job, calls,
                    dispute, refunds, desk>>
    BY DEF vars, payoutVars, books
  <1>2. Grows
    BY <1>1 DEF Grows
  <1>3. \A w \in Workers : JobBacked(w)'
    BY <1>1, <1>2, OtherJob DEF DisputeInv
  <1>4. \A a \in Agents : DeskBacked(a)'
    BY <1>1, <1>2, OtherDesk DEF DisputeInv
  <1>5. DisputeTypeOK'
    BY <1>1, Standing DEF DisputeTypeOK, TypeOK
  <1>6. RowsBacked'
    BY <1>1, RowKept
  <1> QED BY <1>3, <1>4, <1>5, <1>6 DEF DisputeInv

LEMMA DisputeStepBacked == DisputeInv /\ [DisputeNext]_vars => DisputeInv'
  <1>1. ASSUME DisputeInv, NEW a \in Agents, AgentStep(a) PROVE DisputeInv'
    BY <1>1, CreateDisputeBacked, FreezeBacked, LookBacked, ThawBacked, FindBacked,
       StartReversalBacked, ReversalStepBacked, BalanceBacked, RefundBacked,
       VerdictBacked DEF AgentStep
  <1> QED BY <1>1, AgentRequestBacked, AgentCrashBacked, PayoutStepBacked,
             DisputeStutters DEF DisputeNext

-------------------------------------------------------------------------------
(* dispute.service.ts and payout.service.ts together: reversed money stays so, *)
(* and every handler past a reversal finds it done.                            *)
THEOREM DisputeInvariance == DisputeSpec => []DisputeInv
  BY DisputeInitBacked, DisputeStepBacked, PTL DEF DisputeSpec

(* dispute.service.ts: disputes, refunds and the agents' places keep their types. *)
THEOREM DisputeTypeCorrect == DisputeSpec => []DisputeTypeOK
  <1>1. DisputeInv => DisputeTypeOK
    BY DEF DisputeInv
  <1> QED BY <1>1, DisputeInvariance, PTL

(* dispute.service.ts:130-133, 164-168: a verdict against the seller, about a *)
(* payout found PAID, comes after the money is back at Stripe and in the      *)
(* books, with any number of agents, payout handlers and crashes.             *)
THEOREM NoVerdictWithoutReversal == DisputeSpec => []VerdictNeedsReversal
  <1>1. DisputeInv => VerdictNeedsReversal
    BY DEF DisputeInv, DeskBacked, VerdictNeedsReversal, Returned
  <1> QED BY <1>1, DisputeInvariance, PTL

(* payout.service.ts:411-439: the books give back only what Stripe has pulled *)
(* back, and REVERSED rows are given back, also when dispute handlers and     *)
(* payout handlers reverse the same payout.                                   *)
THEOREM ReversalsAreBacked == DisputeSpec => []ReversalBacked
  <1>1. DisputeInv => ReversalBacked
    BY DEF DisputeInv, RowsBacked
  <1> QED BY <1>1, DisputeInvariance, PTL

(* Payout_active_per_transaction: freezing, thawing and retrying payouts      *)
(* while others are created leaves a transaction one active payout at most.   *)
THEOREM OneActiveInDisputes == DisputeSpec => []OneActivePayout
  <1>1. DisputeInv => OneActivePayout
    BY IndexCounts DEF DisputeInv, RowsBacked, OneActivePayout
  <1> QED BY <1>1, DisputeInvariance, PTL
===============================================================================
