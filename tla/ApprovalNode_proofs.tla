------------------------- MODULE ApprovalNode_proofs ---------------------------
(***************************************************************************)
(* What holds of ApprovalNode for any node: first its type and what keeps  *)
(* the requests of any number that are handled at the same time apart, and *)
(* then how they decide the node together, at the same time and one by one.*)
(***************************************************************************)
EXTENDS ApprovalNode, FiniteSetTheorems, TLAPS

Rows     == [Slots -> TaskStatus]
Results  == {"NONE", "APPROVED", "REJECTED"}

(* A request that is handled is about a task, which has a row.             *)
Busy == \A h \in Handlers : pc[h] # "idle" => node # "NONE" /\ request[h].task \in Slots

(* Until a request updates its task, its transaction holds no row.         *)
Unlocked == \A h \in Handlers : pc[h] \in {"idle", "validated"} => Locked(h) = {}

(* A row that one transaction has updated is updated by no other before it *)
(* has ended, and what it wrote is a decision about a task of the node.    *)
RowsApart == \A h, o \in Handlers : h # o => Locked(h) \cap Locked(o) = {}

IInv == TypeOK /\ Busy /\ Unlocked /\ RowsApart

USE DEF TaskStatus, Undecided

LEMMA Partial ==
  ASSUME NEW S, NEW f PROVE
    f \in UNION {[rows -> TaskStatus] : rows \in SUBSET S}
      <=> DOMAIN f \subseteq S /\ f \in [DOMAIN f -> TaskStatus]
  OBVIOUS

LEMMA Unwritten == Nothing.node = "NONE" /\ Nothing.tasks = << >>
                   /\ << >> \in [{} -> TaskStatus] /\ DOMAIN << >> = {}
  BY DEF Nothing, Outcome

--------------------------------------------------------------------------------
(* What the handlers compute are rows for the tasks of the node.           *)

LEMMA PromotedRows == ASSUME NEW t \in Rows, NEW g PROVE Promoted(t, g) \in Rows
  BY DEF Rows, Promoted

LEMMA CancelledRows == ASSUME NEW t \in Rows, NEW S PROVE Cancelled(t, S) \in Rows
  BY DEF Rows, Cancelled

LEMMA ApprovalRows ==
  ASSUME NEW t \in Rows, NEW g
  PROVE  handleApproval(t, g).tasks \in Rows /\ handleApproval(t, g).node \in Results
  <1>1. Promoted(t, g) \in Rows
    BY PromotedRows
  <1>2. SettledGroup(Promoted(t, g), g) \in Rows
    BY <1>1, CancelledRows DEF SettledGroup
  <1>3. Completed(SettledGroup(Promoted(t, g), g)) \in Rows
    BY <1>2, CancelledRows DEF Completed
  <1> QED BY <1>1, <1>2, <1>3 DEF handleApproval, Outcome, Results

LEMMA ResultRows ==
  ASSUME IInv, NEW h \in Handlers, pc[h] # "idle"
  PROVE  Seen(h) \in Rows /\ Result(h).tasks \in Rows /\ Result(h).node \in Results
  <1>1. tasks \in Rows /\ DOMAIN tasks = Slots
    BY DEF IInv, Busy, TypeOK, Rows
  <1>2. Locked(h) \subseteq Slots /\ written[h].tasks \in [Locked(h) -> TaskStatus]
    BY <1>1, Partial DEF IInv, TypeOK, Locked
  <1>3. Seen(h) \in Rows
    BY <1>1, <1>2 DEF Seen, Rows
  <1>4. handleRejection(Seen(h)).tasks \in Rows /\ handleRejection(Seen(h)).node \in Results
    BY <1>3, CancelledRows DEF handleRejection, Outcome, Results
  <1> QED BY <1>3, <1>4, ApprovalRows DEF Result

--------------------------------------------------------------------------------
LEMMA SameSlots == setup' = setup => Slots' = Slots
  BY DEF Slots, Groups

LEMMA InitIInv == Init => IInv
  <1> SUFFICES ASSUME Init PROVE IInv
    OBVIOUS
  <1>1. NoRequest \in [task : Slots \cup {<<0, 0>>}, approve : BOOLEAN]
    BY DEF NoRequest
  <1>2. tasks \in [{} -> TaskStatus]
    BY Unwritten DEF Init
  <1>3. Nothing \in [tasks : UNION {[rows -> TaskStatus] : rows \in SUBSET DOMAIN tasks}, node : Results]
    BY Unwritten, Partial DEF Nothing, Outcome, Results
  <1>4. TypeOK
    BY <1>1, <1>2, <1>3 DEF Init, TypeOK, Results
  <1>5. \A h \in Handlers : Locked(h) = {}
    BY Unwritten DEF Init, Locked
  <1> QED BY <1>4, <1>5 DEF Init, IInv, Busy, Unlocked, RowsApart

(* A handler that ends gives its rows back.                                *)
LEMMA FinishKeeps ==
  ASSUME IInv, NEW h \in Handlers, Finish(h), pc[h] # "idle",
         node' # "NONE", node' \in {"PENDING", "APPROVED", "REJECTED"}, tasks' \in Rows
  PROVE  IInv'
  <1>1. node # "NONE" /\ DOMAIN tasks = Slots
    BY DEF IInv, Busy, TypeOK
  <1>2. setup' = setup /\ Slots' = Slots
    BY SameSlots DEF Finish
  <1>3. DOMAIN tasks' = Slots
    BY DEF Rows
  <1>4. Nothing \in [tasks : UNION {[rows -> TaskStatus] : rows \in SUBSET Slots}, node : Results]
    BY Unwritten, Partial DEF Nothing, Outcome, Results
  <1>5. written' \in [Handlers -> [tasks : UNION {[rows -> TaskStatus] : rows \in SUBSET Slots}, node : Results]]
    BY <1>1, <1>4 DEF Finish, IInv, TypeOK, Results
  <1>6. request' \in [Handlers -> [task : Slots \cup {<<0, 0>>}, approve : BOOLEAN]]
    BY DEF Finish, NoRequest, IInv, TypeOK
  <1>7. TypeOK'
    BY <1>2, <1>3, <1>5, <1>6 DEF Finish, IInv, TypeOK, Results, Rows
  <1>8. \A o \in Handlers : /\ pc'[o] = IF o = h THEN "idle" ELSE pc[o]
                            /\ request'[o] = IF o = h THEN NoRequest ELSE request[o]
                            /\ written'[o] = IF o = h THEN Nothing ELSE written[o]
    BY DEF Finish, IInv, TypeOK
  <1>9. \A o \in Handlers : Locked(o)' = IF o = h THEN {} ELSE Locked(o)
    BY <1>8, Unwritten DEF Locked
  <1>10. Busy'
    BY <1>2, <1>8 DEF IInv, Busy
  <1>11. Unlocked' /\ RowsApart'
    BY <1>8, <1>9 DEF IInv, Unlocked, RowsApart
  <1> QED BY <1>7, <1>10, <1>11 DEF IInv

(* A handler that goes on with more rows than it had.                      *)
LEMMA WriteKeeps ==
  ASSUME IInv, NEW h \in Handlers, pc[h] # "idle", UNCHANGED <<setup, node, tasks, request>>,
         NEW step \in {"updated", "decided"}, pc' = [pc EXCEPT ![h] = step],
         NEW w, written' = [written EXCEPT ![h] = w],
         w \in [tasks : UNION {[rows -> TaskStatus] : rows \in SUBSET Slots}, node : Results],
         \A o \in Handlers : o # h => DOMAIN w.tasks \cap Locked(o) = {}
  PROVE  IInv'
  <1>1. node # "NONE" /\ DOMAIN tasks = Slots /\ Slots' = Slots
    BY SameSlots DEF IInv, Busy, TypeOK
  <1>2. written' \in [Handlers -> [tasks : UNION {[rows -> TaskStatus] : rows \in SUBSET Slots}, node : Results]]
    BY <1>1 DEF IInv, TypeOK, Results
  <1>3. pc' \in [Handlers -> {"idle", "validated", "updated", "decided"}]
    BY DEF IInv, TypeOK
  <1>4. TypeOK'
    BY <1>1, <1>2, <1>3 DEF IInv, TypeOK, Results
  <1>5. \A o \in Handlers : /\ pc'[o] = IF o = h THEN step ELSE pc[o]
                            /\ written'[o] = IF o = h THEN w ELSE written[o]
    BY DEF IInv, TypeOK
  <1>6. \A o \in Handlers : Locked(o)' = IF o = h THEN DOMAIN w.tasks ELSE Locked(o)
    BY <1>5 DEF Locked
  <1>7. Busy'
    BY <1>1, <1>5 DEF IInv, Busy
  <1>8. Unlocked' /\ RowsApart'
    BY <1>5, <1>6 DEF IInv, Unlocked, RowsApart
  <1> QED BY <1>4, <1>7, <1>8 DEF IInv

LEMMA UpdateKeeps ==
  ASSUME IInv, NEW h \in Handlers, UpdateTask(h) PROVE IInv'
  <1> DEFINE f == [s \in {request[h].task} |-> IF request[h].approve THEN "APPROVED" ELSE "REJECTED"]
             w == [written[h] EXCEPT !.tasks = f]
  <1>1. request[h].task \in Slots /\ DOMAIN tasks = Slots /\ pc[h] = "validated"
    BY DEF UpdateTask, IInv, Busy, TypeOK
  <1>2. f \in [DOMAIN f -> TaskStatus] /\ DOMAIN f = {request[h].task}
    OBVIOUS
  <1> HIDE DEF f
  <1>3. f \in UNION {[rows -> TaskStatus] : rows \in SUBSET Slots}
    BY <1>1, <1>2, Partial
  <1>4. w \in [tasks : UNION {[rows -> TaskStatus] : rows \in SUBSET Slots}, node : Results] /\ w.tasks = f
    BY <1>1, <1>3 DEF IInv, TypeOK, Results
  <1>5. written' = [written EXCEPT ![h] = w]
    BY DEF UpdateTask, f, IInv, TypeOK
  <1>6. \A o \in Handlers : o # h => DOMAIN w.tasks \cap Locked(o) = {}
    BY <1>1, <1>2, <1>4 DEF UpdateTask, Waits, WaitsFor
  <1> HIDE DEF w
  <1> QED BY <1>1, <1>4, <1>5, <1>6, WriteKeeps DEF UpdateTask

LEMMA DecideKeeps ==
  ASSUME IInv, NEW h \in Handlers, Decide(h) PROVE IInv'
  <1> DEFINE f == Restrict(Result(h).tasks, Writes(h) \cup Locked(h))
             w == Outcome(f, Result(h).node)
  <1>1. pc[h] = "updated" /\ DOMAIN tasks = Slots
    BY DEF Decide, IInv, Busy, TypeOK
  <1>2. Result(h).tasks \in Rows /\ Result(h).node \in Results
    BY <1>1, ResultRows
  <1>3. Writes(h) \cup Locked(h) \subseteq Slots
    BY <1>1, Partial DEF Writes, Locked, IInv, TypeOK
  <1>4. f \in [DOMAIN f -> TaskStatus] /\ DOMAIN f = Writes(h) \cup Locked(h)
    BY <1>2, <1>3 DEF Restrict, Rows
  <1> HIDE DEF f
  <1>5. f \in UNION {[rows -> TaskStatus] : rows \in SUBSET Slots}
    BY <1>3, <1>4, Partial
  <1>6. w \in [tasks : UNION {[rows -> TaskStatus] : rows \in SUBSET Slots}, node : Results] /\ w.tasks = f
    BY <1>2, <1>5 DEF Outcome
  <1>7. written' = [written EXCEPT ![h] = w]
    BY DEF Decide, f
  <1>8. \A o \in Handlers : o # h => DOMAIN w.tasks \cap Locked(o) = {}
    BY <1>1, <1>4, <1>6 DEF Decide, Waits, WaitsFor, IInv, RowsApart
  <1> HIDE DEF w
  <1> QED BY <1>1, <1>6, <1>7, <1>8, WriteKeeps DEF Decide

LEMMA ExecuteKeeps == IInv /\ execute => IInv'
  <1> SUFFICES ASSUME IInv, execute PROVE IInv'
    OBVIOUS
  <1>1. \A a, k : processAutoApprovals(a, k) \in TaskStatus
    BY DEF processAutoApprovals
  <1>2. tasks' \in Rows /\ node' \in {"PENDING", "APPROVED"} /\ DOMAIN tasks = {}
    BY <1>1 DEF execute, Rows, IInv, TypeOK
  <1>3. Slots' = Slots /\ \A h \in Handlers : Locked(h)' = Locked(h)
    BY SameSlots DEF execute, Locked
  <1>4. TypeOK'
    BY <1>2, <1>3 DEF execute, IInv, TypeOK, Rows
  <1>5. Busy' /\ Unlocked' /\ RowsApart'
    BY <1>2, <1>3 DEF execute, IInv, Busy, Unlocked, RowsApart
  <1> QED BY <1>4, <1>5 DEF IInv

LEMMA ArriveKeeps ==
  ASSUME IInv, NEW h \in Handlers, NEW s \in DOMAIN tasks, NEW approve \in BOOLEAN,
         validateApprovalRequest(h, s, approve)
  PROVE  IInv'
  <1>1. node # "NONE" /\ DOMAIN tasks = Slots /\ Slots' = Slots
        /\ \A o \in Handlers : Locked(o)' = Locked(o)
    BY SameSlots DEF validateApprovalRequest, IInv, TypeOK, Locked
  <1>2. TypeOK'
    BY <1>1 DEF validateApprovalRequest, IInv, TypeOK
  <1>3. Busy' /\ Unlocked' /\ RowsApart'
    BY <1>1 DEF validateApprovalRequest, IInv, TypeOK, Busy, Unlocked, RowsApart
  <1> QED BY <1>2, <1>3 DEF IInv

LEMMA NextIInv == IInv /\ [Next]_vars => IInv'
  <1> SUFFICES ASSUME IInv, [Next]_vars PROVE IInv'
    OBVIOUS
  <1>1. ASSUME NEW h \in Handlers, Commit(h) PROVE IInv'
    <2>1. pc[h] # "idle" /\ node # "NONE"
      BY <1>1 DEF Commit, IInv, Busy
    <2>2. tasks' \in Rows /\ node' \in {"PENDING", "APPROVED", "REJECTED"}
      BY <1>1, <2>1, ResultRows DEF Commit, IInv, TypeOK
    <2> QED BY <1>1, <2>1, <2>2, FinishKeeps DEF Commit
  <1>2. ASSUME NEW h \in Handlers, RollBack(h) PROVE IInv'
    <2>1. pc[h] # "idle"
      BY <1>2 DEF RollBack, WaitsFor
    <2>2. tasks' \in Rows /\ node' \in {"PENDING", "APPROVED", "REJECTED"}
      BY <1>2, <2>1 DEF RollBack, IInv, Busy, TypeOK, Rows
    <2> QED BY <1>2, <2>1, <2>2, FinishKeeps DEF RollBack
  <1>3. CASE UNCHANGED vars
    BY <1>3, SameSlots DEF vars, IInv, TypeOK, Busy, Unlocked, RowsApart, Locked
  <1> QED
    BY <1>1, <1>2, <1>3, ExecuteKeeps, ArriveKeeps, UpdateKeeps, DecideKeeps DEF Next, Arrive

(* The tasks, the node and what the transactions have written are always   *)
(* what they may be, for any approvers and any requests at the same time.  *)
THEOREM TypeCorrect == Spec => []TypeOK
  <1>1. IInv => TypeOK
    BY DEF IInv
  <1> QED BY <1>1, InitIInv, NextIInv, PTL DEF Spec

(* Two requests that are handled at the same time never have both updated  *)
(* one task: the row lock of the first update keeps the other waiting.     *)
THEOREM OneWriterPerTask == Spec => []RowsApart
  <1>1. IInv => RowsApart
    BY DEF IInv
  <1> QED BY <1>1, InitIInv, NextIInv, PTL DEF Spec

--------------------------------------------------------------------------------
(* How the requests of an approval node decide it together: what may be    *)
(* decided at the same time, and what is decided one request at a time.    *)

(* Every approver resolves to somebody, so that groups are approvers.  The *)
(* second part is what SelectSeq makes of the first; it is defined by      *)
(* recursion, which the provers do not look into.                          *)
Resolved ==
  \A c \in Cases :
    /\ \A g \in DOMAIN c.approvers : c.approvers[g].users # << >>
    /\ GroupsOf(c) = c.approvers

LEMMA GroupFacts ==
  ASSUME Resolved, setup \in Cases
  PROVE  /\ Groups = setup.approvers
         /\ Len(setup.approvers) \in Nat
         /\ DOMAIN Groups = 1 .. Len(setup.approvers)
         /\ \A g \in DOMAIN Groups : ConfigOf(g) = Groups[g] /\ Groups[g].type \in ApproverTypes
         /\ \A g \in DOMAIN Groups : DOMAIN Groups[g].users = 1 .. Len(Groups[g].users)
                                     /\ Len(Groups[g].users) \in Nat \ {0}
  <1> DEFINE A == [type : ApproverTypes, reuse : BOOLEAN, users : Seq(Users)]
  <1>1. setup.approvers \in Seq(A) /\ Groups = setup.approvers
        /\ \A g \in DOMAIN setup.approvers : setup.approvers[g].users # << >>
    BY CaseAssumption DEF Groups, Resolved
  <1> HIDE DEF A
  <1>2. /\ Len(setup.approvers) \in Nat /\ DOMAIN setup.approvers = 1 .. Len(setup.approvers)
        /\ \A g \in DOMAIN setup.approvers : setup.approvers[g] \in A
    BY <1>1
  <1>3. \A g \in DOMAIN Groups : Groups[g].users \in Seq(Users) /\ Groups[g].type \in ApproverTypes
    BY <1>1, <1>2 DEF A
  <1>4. \A u \in Seq(Users) : u # << >> => DOMAIN u = 1 .. Len(u) /\ Len(u) \in Nat \ {0}
    OBVIOUS
  <1>5. \A g \in DOMAIN Groups : DOMAIN Groups[g].users = 1 .. Len(Groups[g].users)
                                  /\ Len(Groups[g].users) \in Nat \ {0}
    BY <1>1, <1>3, <1>4
  <1> QED BY <1>1, <1>2, <1>3, <1>5 DEF ConfigOf

LEMMA SlotFacts ==
  ASSUME Resolved, setup \in Cases
  PROVE  /\ \A g \in DOMAIN Groups : InGroup(g) # {} /\ InGroup(g) \subseteq Slots
         /\ \A g, s : s \in InGroup(g) <=> s \in Slots /\ s[1] = g
         /\ \A s \in Slots : s[1] \in DOMAIN Groups /\ s[2] \in DOMAIN Groups[s[1]].users
                             /\ s = <<s[1], s[2]>>
         /\ \A g \in DOMAIN Groups : \A k \in DOMAIN Groups[g].users : <<g, k>> \in InGroup(g)
  <1>1. \A g \in DOMAIN Groups : \A k \in DOMAIN Groups[g].users : <<g, k>> \in InGroup(g)
    BY DEF Slots, InGroup
  <1>2. \A g \in DOMAIN Groups : 1 \in DOMAIN Groups[g].users
    BY GroupFacts
  <1>3. \A s \in Slots : s[1] \in DOMAIN Groups /\ s[2] \in DOMAIN Groups[s[1]].users
                         /\ s = <<s[1], s[2]>>
    BY DEF Slots
  <1> QED BY <1>1, <1>2, <1>3 DEF InGroup

(* A set of numbers has a least one: as many numbers are below all of its  *)
(* members, itself included, as that member and zero make.                 *)
LEMMA MinIs ==
  ASSUME NEW S \in SUBSET Nat, S # {}
  PROVE  Min(S) \in S /\ \A y \in S : Min(S) <= y
  <1> DEFINE T == {n \in Nat : \A y \in S : n <= y}
  <1>1. PICK s \in S : TRUE
    OBVIOUS
  <1>2. T \in SUBSET (0 .. s) /\ IsFiniteSet(0 .. s) /\ 0 \in T
    BY FS_Interval
  <1>3. IsFiniteSet(T)
    BY <1>2, FS_Subset
  <1>4. PICK c \in Nat : c = Cardinality(T)
    BY <1>3, FS_CardinalityType
  <1>5. c \notin T
    <2>1. SUFFICES ASSUME c \in T PROVE FALSE
      OBVIOUS
    <2>2. 0 .. c \in SUBSET T
      BY <2>1
    <2>3. Cardinality(0 .. c) = c + 1
      BY FS_Interval
    <2>4. Cardinality(0 .. c) <= c
      BY <1>3, <1>4, <2>2, FS_Subset
    <2> QED BY <2>3, <2>4
  <1>6. c # 0
    BY <1>2, <1>3, <1>4, FS_EmptySet
  <1>7. c - 1 \in T
    <2>1. SUFFICES ASSUME c - 1 \notin T PROVE FALSE
      OBVIOUS
    <2>2. \A n \in T : n \in Nat /\ n < c - 1
      BY <1>6, <2>1
    <2> HIDE DEF T
    <2>3. PICK d \in Int : d = c - 2
      OBVIOUS
    <2>4. T \in SUBSET (0 .. d)
      BY <2>2, <2>3
    <2>5. IsFiniteSet(0 .. d) /\ Cardinality(0 .. d) = IF 0 > d THEN 0 ELSE d + 1
      BY FS_Interval
    <2>6. c <= Cardinality(0 .. d)
      BY <1>4, <2>4, <2>5, FS_Subset
    <2> QED BY <1>6, <2>3, <2>5, <2>6
  <1>8. c - 1 \in S
    BY <1>5, <1>7
  <1> QED BY <1>7, <1>8 DEF Min

(* Groups are the same as long as the case is.                             *)
LEMMA SameGroups ==
  ASSUME setup' = setup
  PROVE  Slots' = Slots /\ Groups' = Groups /\ \A g : InGroup(g)' = InGroup(g)
  BY DEF Slots, Groups, InGroup

--------------------------------------------------------------------------------
(* Requests at the same time.                                              *)

(* Nobody rejects, and nobody is asked after another: what is needed of a  *)
(* node for requests not to disturb one another.                           *)
Undisturbed ==
  /\ ~ MayReject
  /\ \A c \in Cases : \A g \in DOMAIN c.approvers : c.approvers[g].type # "LINE"

(* Alternatives that nobody has approved before.                           *)
NoPriorAlternative == \A c \in Cases : c.logic = "OR" => c.prior = {}

(* Consensus in the tasks t, and t without a task to decide.               *)
AgreedIn(t, g) ==
  LET given == {s \in InGroup(g) : t[s] = "APPROVED"}
  IN  IF Groups[g].type = "ANY" THEN given # {} ELSE given = InGroup(g)
ConsensusIn(t) ==
  IF setup.logic = "AND" THEN \A g \in DOMAIN Groups : AgreedIn(t, g)
  ELSE \E g \in DOMAIN Groups : AgreedIn(t, g)
QuietIn(t) == \A s \in Slots : t[s] \notin Undecided

(* A task is cancelled only beside the approved one of a role.             *)
SoundIn(t) ==
  \A s \in Slots : t[s] = "CANCELLED" =>
    Groups[s[1]].type = "ANY" /\ \E r \in InGroup(s[1]) : t[r] = "APPROVED"

InTransaction(h) == pc[h] \in {"updated", "decided"}

(* Nobody waits for another and nobody has rejected.                       *)
Approving ==
  /\ \A s \in DOMAIN tasks : tasks[s] \in {"PENDING", "APPROVED", "CANCELLED"}
  /\ \A h \in Handlers : pc[h] # "idle" => request[h].approve
  /\ node # "REJECTED"

(* A transaction has approved its own task; the others it has written, it  *)
(* has cancelled, and they were to be decided.                             *)
WrittenBy(h) ==
  InTransaction(h) =>
    /\ request[h].task \in Locked(h) /\ written[h].tasks[request[h].task] = "APPROVED"
    /\ \A s \in Locked(h) :
         \/ written[h].tasks[s] = "APPROVED"
         \/ written[h].tasks[s] = "CANCELLED" /\ tasks[s] = "PENDING"
    /\ pc[h] = "updated" => Locked(h) = {request[h].task}

(* Unless it has found the node complete, it has cancelled only the others *)
(* of its own role; if it has, the tasks as it sees them agree with that.  *)
DecidedBy(h) ==
  pc[h] = "decided" =>
    /\ written[h].node # "REJECTED"
    /\ written[h].node = "NONE" =>
         \A s \in Locked(h) : written[h].tasks[s] = "CANCELLED" =>
           s[1] = request[h].task[1] /\ Groups[s[1]].type = "ANY"
    /\ written[h].node = "APPROVED" => ConsensusIn(Seen(h)) /\ QuietIn(Seen(h))

WrittenSo == \A h \in Handlers : WrittenBy(h)
DecidedSo == \A h \in Handlers : DecidedBy(h)

NodeSo ==
  /\ node = "PENDING" => SoundIn(tasks)
  /\ node = "APPROVED" => ConsensusIn(tasks)
  /\ NoPriorAlternative /\ node = "APPROVED" => QuietIn(tasks)

RaceInv == IInv /\ Approving /\ WrittenSo /\ DecidedSo /\ NodeSo

(* The tasks that a node gets, from whoever has approved before.           *)
LEMMA FirstRows ==
  ASSUME Resolved, Undisturbed, setup \in Cases,
         NEW t, t = [s \in Slots |-> processAutoApprovals(Groups[s[1]], s[2])]
  PROVE  /\ \A s \in Slots : t[s] \in {"PENDING", "APPROVED", "CANCELLED"}
         /\ SoundIn(t)
  <1>1. \A g \in DOMAIN Groups : Groups[g].type \in {"ALL", "ANY"}
    BY GroupFacts DEF Undisturbed, ApproverTypes
  <1>2. \A s \in Slots : Groups[s[1]].type = "ALL" => t[s] \in {"PENDING", "APPROVED"}
    BY DEF processAutoApprovals
  <1>3. ASSUME NEW s \in Slots, Groups[s[1]].type = "ANY"
        PROVE  /\ t[s] \in {"PENDING", "APPROVED", "CANCELLED"}
               /\ t[s] = "CANCELLED" => \E r \in InGroup(s[1]) : t[r] = "APPROVED"
    <2> DEFINE a == Groups[s[1]]
               fresh == {j \in DOMAIN a.users : ~ shouldAutoApprove(a, a.users[j])}
               known == DOMAIN a.users \ fresh
               r == <<s[1], Min(known)>>
    <2>1. /\ t[s] \in {"PENDING", "APPROVED", "CANCELLED"}
          /\ t[s] = "CANCELLED" => known # {}
      BY <1>3 DEF processAutoApprovals
    <2>2. ASSUME known # {} PROVE r \in InGroup(s[1]) /\ t[r] = "APPROVED"
      <3>1. s[1] \in DOMAIN Groups /\ known \in SUBSET Nat
        BY SlotFacts, GroupFacts
      <3>2. Min(known) \in DOMAIN a.users
        BY <2>2, <3>1, MinIs
      <3>3. r \in InGroup(s[1]) /\ r \in Slots /\ r[1] = s[1] /\ r[2] = Min(known)
        BY <3>1, <3>2, SlotFacts
      <3>4. t[r] = processAutoApprovals(a, Min(known))
        BY <3>3
      <3>5. processAutoApprovals(a, Min(known)) = "APPROVED"
        BY <1>3, <2>2 DEF processAutoApprovals
      <3> QED BY <3>3, <3>4, <3>5
    <2> QED BY <2>1, <2>2
  <1>4. \A s \in Slots : Groups[s[1]].type \in {"ALL", "ANY"}
    BY <1>1, SlotFacts
  <1>5. \A s \in Slots :
          /\ t[s] \in {"PENDING", "APPROVED", "CANCELLED"}
          /\ t[s] = "CANCELLED" => Groups[s[1]].type = "ANY" /\ \E r \in InGroup(s[1]) : t[r] = "APPROVED"
    BY <1>2, <1>3, <1>4
  <1> QED BY <1>5 DEF SoundIn

(* What the tasks of a group that has none to decide say of it.            *)
LEMMA ClosedGroupAgrees ==
  ASSUME Resolved, Undisturbed, setup \in Cases, NEW t, SoundIn(t),
         \A s \in Slots : t[s] \in {"PENDING", "APPROVED", "CANCELLED"},
         NEW g \in DOMAIN Groups, \A s \in InGroup(g) : t[s] \notin Undecided
  PROVE  AgreedIn(t, g)
  <1>0. \A s \in InGroup(g) : s \in Slots /\ s[1] = g
    BY DEF InGroup
  <1>1. \A s \in InGroup(g) : s \in Slots /\ s[1] = g /\ t[s] \in {"APPROVED", "CANCELLED"}
    BY <1>0
  <1>2. InGroup(g) # {}
    BY SlotFacts
  <1> QED BY <1>1, <1>2 DEF AgreedIn, SoundIn

(* The executor's completion check and the approval handler's.             *)
LEMMA ExecutorAgrees ==
  ASSUME Resolved, Undisturbed, setup \in Cases, NEW t, SoundIn(t),
         \A s \in Slots : t[s] \in {"PENDING", "APPROVED", "CANCELLED"},
         checkApprovalNodeCompletion(t)
  PROVE  /\ ConsensusIn(t)
         /\ setup.logic = "AND" => QuietIn(t)
  <1> DEFINE statuses(g) == {t[s] : s \in InGroup(g)}
  <1>1. \A g \in DOMAIN Groups : ConfigOf(g).type # "LINE"
    BY GroupFacts DEF Undisturbed
  <1>2. PICK completed \in SUBSET DOMAIN Groups :
          /\ \A g \in completed : statuses(g) \cap Undecided = {}
          /\ IF setup.logic = "AND" THEN completed = DOMAIN Groups ELSE completed # {}
    BY <1>1 DEF checkApprovalNodeCompletion
  <1>3. \A g \in completed : AgreedIn(t, g)
    BY <1>2, ClosedGroupAgrees
  <1> QED BY <1>2, <1>3, SlotFacts DEF ConsensusIn, QuietIn

(* The groups that have something to decide.                               *)
Remaining(t) == {g \in DOMAIN Groups : \E s \in InGroup(g) : t[s] \in Undecided}

LEMMA CompletedMeans ==
  ASSUME Resolved, setup \in Cases, NEW t
  PROVE  isApprovalNodeCompleted(t) <=>
           IF setup.logic = "AND" THEN Remaining(t) = {} ELSE Remaining(t) # DOMAIN Groups
  <1>1. DOMAIN Groups = 1 .. Len(setup.approvers) /\ Len(setup.approvers) \in Nat
    BY GroupFacts
  <1>2. IsFiniteSet(DOMAIN Groups) /\ Cardinality(DOMAIN Groups) = Len(setup.approvers)
    BY <1>1, FS_Interval
  <1>3. /\ Remaining(t) \in SUBSET DOMAIN Groups
        /\ Cardinality(Remaining(t)) \in Nat /\ Cardinality(Remaining(t)) <= Len(setup.approvers)
        /\ Cardinality(Remaining(t)) = Len(setup.approvers) => Remaining(t) = DOMAIN Groups
    BY <1>2, FS_Subset, FS_CardinalityType DEF Remaining
  <1>4. Cardinality(Remaining(t)) < Len(setup.approvers) <=> Remaining(t) # DOMAIN Groups
    BY <1>1, <1>2, <1>3
  <1> QED BY <1>4 DEF isApprovalNodeCompleted, Remaining

LEMMA HandlerAgrees ==
  ASSUME Resolved, Undisturbed, setup \in Cases, NEW t, SoundIn(t),
         \A s \in Slots : t[s] \in {"PENDING", "APPROVED", "CANCELLED"},
         isApprovalNodeCompleted(t)
  PROVE  /\ ConsensusIn(t)
         /\ setup.logic = "AND" => QuietIn(t)
  <1>1. \A g \in DOMAIN Groups \ Remaining(t) : AgreedIn(t, g)
    BY ClosedGroupAgrees DEF Remaining
  <1>2. IF setup.logic = "AND" THEN Remaining(t) = {} ELSE Remaining(t) # DOMAIN Groups
    BY CompletedMeans
  <1>3. Remaining(t) \subseteq DOMAIN Groups
    BY DEF Remaining
  <1>4. Remaining(t) = {} => QuietIn(t)
    BY SlotFacts DEF Remaining, QuietIn
  <1> QED BY <1>1, <1>2, <1>3, <1>4 DEF ConsensusIn

(* From the tasks t to u no approval is withdrawn and no task reopened.    *)
Grows(t, u) ==
  \A s \in Slots :
    /\ t[s] = "APPROVED" => u[s] = "APPROVED"
    /\ t[s] \notin Undecided => u[s] \notin Undecided

LEMMA GrowsKeeps ==
  ASSUME NEW t, NEW u, Grows(t, u)
  PROVE  /\ ConsensusIn(t) => ConsensusIn(u)
         /\ QuietIn(t) => QuietIn(u)
  <1>1. \A g : InGroup(g) \subseteq Slots
    BY DEF InGroup
  <1>2. \A g : AgreedIn(t, g) => AgreedIn(u, g)
    BY <1>1 DEF AgreedIn, Grows
  <1> QED BY <1>2 DEF ConsensusIn, QuietIn, Grows

(* What an approval makes of the tasks t, its own among them: it cancels   *)
(* what is no longer needed, and finds the node complete only by consensus.*)
LEMMA ApprovalDoes ==
  ASSUME Resolved, Undisturbed, setup \in Cases, NEW t \in Rows, NEW g \in DOMAIN Groups,
         \A s \in Slots : t[s] \in {"PENDING", "APPROVED", "CANCELLED"},
         \E s \in InGroup(g) : t[s] = "APPROVED"
  PROVE  LET done == handleApproval(t, g)
         IN  /\ done.node \in {"NONE", "APPROVED"}
             /\ \A s \in Slots :
                  \/ done.tasks[s] = t[s]
                  \/ t[s] = "PENDING" /\ done.tasks[s] = "CANCELLED"
             /\ done.node = "NONE" =>
                  \A s \in Slots : done.tasks[s] # t[s] => s[1] = g /\ Groups[g].type = "ANY"
             /\ done.node = "APPROVED" => QuietIn(done.tasks)
             /\ done.node = "APPROVED" /\ SoundIn(t) => ConsensusIn(done.tasks)
  <1> DEFINE done == handleApproval(t, g)
             settled == SettledGroup(t, g)
  <1>1. Waiting(t, g) = {} /\ Stops(t, g) = {}
    BY DEF Waiting, Stops, InGroup
  <1>2. Promoted(t, g) = t
    BY <1>1 DEF Promoted, Rows
  <1>3. done = IF isApprovalNodeCompleted(settled) THEN Outcome(Completed(settled), "APPROVED")
               ELSE Outcome(settled, "NONE")
    BY <1>1, <1>2 DEF handleApproval
  <1>4. Groups[g].type \in {"ALL", "ANY"} /\ ConfigOf(g) = Groups[g]
    BY GroupFacts DEF Undisturbed, ApproverTypes
  <1>5. settled \in Rows
    BY CancelledRows DEF SettledGroup
  <1>6. \A s \in Slots :
          \/ settled[s] = t[s]
          \/ /\ t[s] = "PENDING" /\ settled[s] = "CANCELLED"
             /\ s[1] = g /\ Groups[g].type = "ANY"
    BY <1>4 DEF SettledGroup, requiresAllApprovers, Cancelled, InGroup
  <1> HIDE DEF settled
  <1>7. Completed(settled) \in Rows /\ \A s \in Slots :
          \/ Completed(settled)[s] = settled[s]
          \/ settled[s] = "PENDING" /\ Completed(settled)[s] = "CANCELLED"
    BY <1>5, <1>6, CancelledRows DEF Completed, Cancelled
  <1>8. /\ done.node \in {"NONE", "APPROVED"}
        /\ done.node = "APPROVED" => done.tasks = Completed(settled) /\ isApprovalNodeCompleted(settled)
        /\ done.node = "NONE" => done.tasks = settled
    BY <1>3 DEF Outcome
  <1> HIDE DEF done
  <1>9. ASSUME done.node = "APPROVED" PROVE QuietIn(done.tasks)
    <2>1. CASE setup.logic = "AND"
      <3>1. Completed(settled) = settled /\ Remaining(settled) = {}
        BY <1>8, <1>9, <2>1, CompletedMeans DEF Completed
      <3> QED BY <1>8, <1>9, <3>1, SlotFacts DEF Remaining, QuietIn
    <2>2. CASE setup.logic # "AND"
      <3>1. Completed(settled) = Cancelled(settled, Slots)
        BY <2>2, CaseAssumption DEF Completed
      <3> QED BY <1>8, <1>9, <3>1 DEF Cancelled, QuietIn
    <2> QED BY <2>1, <2>2
  <1>10. ASSUME done.node = "APPROVED", SoundIn(t) PROVE ConsensusIn(done.tasks)
    <2>1. \E s \in InGroup(g) : settled[s] = "APPROVED"
      BY <1>6 DEF InGroup
    <2>2. SoundIn(settled)
      <3> SUFFICES ASSUME NEW s \in Slots, settled[s] = "CANCELLED"
                   PROVE  Groups[s[1]].type = "ANY" /\ \E r \in InGroup(s[1]) : settled[r] = "APPROVED"
        BY DEF SoundIn
      <3>1. CASE settled[s] # t[s]
        BY <1>6, <2>1, <3>1
      <3>2. CASE settled[s] = t[s]
        <4>1. Groups[s[1]].type = "ANY" /\ \E r \in InGroup(s[1]) : t[r] = "APPROVED"
          BY <1>10, <3>2 DEF SoundIn
        <4> QED BY <1>6, <4>1 DEF InGroup
      <3> QED BY <3>1, <3>2
    <2>3. ConsensusIn(settled)
      BY <1>6, <1>8, <1>10, <2>2, HandlerAgrees
    <2>4. Grows(settled, Completed(settled))
      BY <1>7 DEF Grows
    <2> QED BY <1>8, <1>10, <2>3, <2>4, GrowsKeeps
  <1>11. \A s \in Slots :
           \/ done.tasks[s] = t[s]
           \/ t[s] = "PENDING" /\ done.tasks[s] = "CANCELLED"
    BY <1>6, <1>7, <1>8
  <1>12. done.node = "NONE" =>
           \A s \in Slots : done.tasks[s] # t[s] => s[1] = g /\ Groups[g].type = "ANY"
    BY <1>6, <1>8
  <1> QED BY <1>8, <1>9, <1>10, <1>11, <1>12 DEF done

LEMMA SameConsensus ==
  ASSUME setup' = setup
  PROVE  /\ ConsensusIn(tasks)' <=> ConsensusIn(tasks')
         /\ QuietIn(tasks)' <=> QuietIn(tasks')
         /\ SoundIn(tasks)' <=> SoundIn(tasks')
  BY SameGroups DEF ConsensusIn, QuietIn, SoundIn, AgreedIn

(* The tasks as a transaction sees them: what it has written, and else     *)
(* what is committed.                                                      *)
LEMMA SeenIs ==
  ASSUME RaceInv, NEW h \in Handlers, pc[h] # "idle"
  PROVE  /\ tasks \in Rows /\ Locked(h) \subseteq Slots
         /\ Seen(h) \in Rows
         /\ \A s \in Slots : Seen(h)[s] = IF s \in Locked(h) THEN written[h].tasks[s] ELSE tasks[s]
         /\ \A s \in Slots : Seen(h)[s] \in {"PENDING", "APPROVED", "CANCELLED"}
         /\ Grows(tasks, Seen(h))
  <1>1. tasks \in Rows /\ DOMAIN tasks = Slots
    BY DEF RaceInv, IInv, Busy, TypeOK, Rows
  <1>2. Locked(h) \subseteq Slots
    BY <1>1, Partial DEF RaceInv, IInv, TypeOK, Locked
  <1>3. Seen(h) \in Rows
    BY ResultRows DEF RaceInv
  <1>4. \A s \in Slots : Seen(h)[s] = IF s \in Locked(h) THEN written[h].tasks[s] ELSE tasks[s]
    BY <1>1 DEF Seen
  <1>5. \A s \in Locked(h) :
          \/ written[h].tasks[s] = "APPROVED"
          \/ written[h].tasks[s] = "CANCELLED" /\ tasks[s] = "PENDING"
    <2>1. CASE InTransaction(h)
      BY <2>1 DEF RaceInv, WrittenSo, WrittenBy
    <2>2. CASE ~ InTransaction(h)
      BY <2>2 DEF RaceInv, InTransaction, IInv, TypeOK, Unlocked
    <2> QED BY <2>1, <2>2
  <1>6. \A s \in Slots : tasks[s] \in {"PENDING", "APPROVED", "CANCELLED"}
    BY <1>1 DEF RaceInv, Approving
  <1>7. \A s \in Slots : Seen(h)[s] \in {"PENDING", "APPROVED", "CANCELLED"}
    BY <1>4, <1>5, <1>6
  <1>8. Grows(tasks, Seen(h))
    BY <1>4, <1>5 DEF Grows
  <1> QED BY <1>1, <1>2, <1>3, <1>4, <1>7, <1>8

(* What one request does, as far as another one can tell.                  *)
Apart(h) ==
  /\ setup' = setup /\ tasks' \in Rows /\ Grows(tasks, tasks')
  /\ \A s \in Slots : tasks'[s] # tasks[s] => s \in Locked(h)
  /\ \A o \in Handlers : o # h =>
       pc'[o] = pc[o] /\ request'[o] = request[o] /\ written'[o] = written[o]

LEMMA OthersRace ==
  ASSUME RaceInv, NEW h \in Handlers, Apart(h), NEW o \in Handlers, o # h
  PROVE  WrittenBy(o)' /\ DecidedBy(o)'
  <1>1. /\ Locked(o)' = Locked(o) /\ Locked(o) \cap Locked(h) = {}
        /\ pc'[o] = pc[o] /\ request'[o] = request[o] /\ written'[o] = written[o]
    BY DEF Apart, Locked, RaceInv, IInv, RowsApart
  <1>2. CASE pc[o] = "idle"
    BY <1>1, <1>2 DEF WrittenBy, DecidedBy, InTransaction
  <1>3. CASE pc[o] # "idle"
    <2>1. Locked(o) \subseteq Slots /\ Slots' = Slots /\ Groups' = Groups
      BY <1>3, SeenIs, SameGroups DEF Apart
    <2>2. \A s \in Locked(o) : tasks'[s] = tasks[s]
      BY <1>1, <2>1 DEF Apart
    <2>3. WrittenBy(o)'
      BY <1>1, <2>2 DEF RaceInv, WrittenSo, WrittenBy, InTransaction
    <2>4. \A s \in Slots : Seen(o)'[s] = IF s \in Locked(o) THEN written[o].tasks[s] ELSE tasks'[s]
      BY <1>1, <2>1 DEF Seen, Apart, Rows
    <2>5. Grows(Seen(o), Seen(o)')
      BY <1>3, <2>4, SeenIs DEF Grows, Apart
    <2>6. /\ ConsensusIn(Seen(o)) => ConsensusIn(Seen(o)')
          /\ QuietIn(Seen(o)) => QuietIn(Seen(o)')
      BY <2>5, GrowsKeeps
    <2>7. /\ ConsensusIn(Seen(o))' <=> ConsensusIn(Seen(o)')
          /\ QuietIn(Seen(o))' <=> QuietIn(Seen(o)')
      BY SameGroups DEF Apart, ConsensusIn, QuietIn, AgreedIn
    <2>8. DecidedBy(o)'
      BY <1>1, <2>1, <2>6, <2>7 DEF RaceInv, DecidedSo, DecidedBy
    <2> QED BY <2>3, <2>8
  <1> QED BY <1>2, <1>3

LEMMA StepRace ==
  ASSUME RaceInv, IInv', NEW h \in Handlers, Apart(h),
         WrittenBy(h)', DecidedBy(h)', Approving', NodeSo'
  PROVE  RaceInv'
  <1>1. \A o \in Handlers : WrittenBy(o)' /\ DecidedBy(o)'
    BY OthersRace
  <1> QED BY <1>1 DEF RaceInv, WrittenSo, DecidedSo

LEMMA SameTasks ==
  ASSUME RaceInv, UNCHANGED <<setup, node, tasks>>
  PROVE  NodeSo' /\ Grows(tasks, tasks')
  BY SameConsensus DEF RaceInv, NodeSo, NoPriorAlternative, Grows

LEMMA ExecuteRace ==
  ASSUME Resolved, Undisturbed, RaceInv, IInv', execute
  PROVE  RaceInv'
  <1> DEFINE t == [s \in Slots |-> processAutoApprovals(Groups[s[1]], s[2])]
  <1>1. setup' = setup /\ setup \in Cases /\ tasks' = t /\ Slots' = Slots
        /\ node' = IF checkApprovalNodeCompletion(t) THEN "APPROVED" ELSE "PENDING"
    BY SameGroups DEF execute, RaceInv, IInv, TypeOK
  <1>2. (\A s \in Slots : t[s] \in {"PENDING", "APPROVED", "CANCELLED"}) /\ SoundIn(t)
    BY <1>1, FirstRows
  <1> HIDE DEF t
  <1>3. \A h \in Handlers : pc[h] = "idle" /\ pc'[h] = "idle"
    BY DEF execute, RaceInv, IInv, Busy
  <1>4. WrittenSo' /\ DecidedSo'
    BY <1>3 DEF WrittenSo, DecidedSo, WrittenBy, DecidedBy, InTransaction
  <1>5. DOMAIN tasks' = Slots
    BY <1>1 DEF t
  <1>6. Approving'
    BY <1>1, <1>2, <1>3, <1>5 DEF Approving
  <1>7. node' = "APPROVED" => ConsensusIn(t) /\ (setup.logic = "AND" => QuietIn(t))
    BY <1>1, <1>2, ExecutorAgrees
  <1>8. ASSUME node' = "APPROVED", NoPriorAlternative, setup.logic = "OR" PROVE QuietIn(t)
    <2>1. setup.prior = {} /\ \A a, user : ~ shouldAutoApprove(a, user)
      BY <1>1, <1>8 DEF NoPriorAlternative, shouldAutoApprove
    <2>2. \A g \in DOMAIN Groups : Groups[g].type \in {"ALL", "ANY"} /\ ConfigOf(g).type # "LINE"
      BY <1>1, GroupFacts DEF Undisturbed, ApproverTypes
    <2>3. ASSUME NEW s \in Slots PROVE t[s] = "PENDING"
      <3>1. Groups[s[1]].type \in {"ALL", "ANY"} /\ s[2] \in DOMAIN Groups[s[1]].users
        BY <1>1, <2>2, SlotFacts
      <3> QED BY <2>1, <3>1 DEF t, processAutoApprovals
    <2>4. \A g \in DOMAIN Groups : \E s \in InGroup(g) : t[s] = "PENDING"
      BY <1>1, <2>3, SlotFacts
    <2>5. ~ checkApprovalNodeCompletion(t)
      BY <1>8, <2>2, <2>4 DEF checkApprovalNodeCompletion
    <2> QED BY <1>1, <1>8, <2>5
  <1>9. NodeSo'
    BY <1>1, <1>2, <1>7, <1>8, SameConsensus, CaseAssumption DEF NodeSo, NoPriorAlternative
  <1> QED BY <1>4, <1>6, <1>9 DEF RaceInv

LEMMA ArriveRace ==
  ASSUME Resolved, Undisturbed, RaceInv, IInv', NEW h \in Handlers, NEW s \in DOMAIN tasks,
         NEW approve \in BOOLEAN, validateApprovalRequest(h, s, approve)
  PROVE  RaceInv'
  <1>1. /\ UNCHANGED <<setup, node, tasks, written>> /\ node # "NONE" /\ approve
        /\ \A o \in Handlers :
             /\ pc'[o] = IF o = h THEN "validated" ELSE pc[o]
             /\ o # h => request'[o] = request[o]
        /\ request'[h].approve
    BY DEF validateApprovalRequest, Undisturbed, RaceInv, IInv, TypeOK
  <1>2. Apart(h)
    BY <1>1, SameTasks DEF Apart, RaceInv, IInv, TypeOK, Rows
  <1>3. WrittenBy(h)' /\ DecidedBy(h)'
    BY <1>1 DEF WrittenBy, DecidedBy, InTransaction
  <1>4. Approving'
    BY <1>1 DEF RaceInv, Approving
  <1> QED BY <1>1, <1>2, <1>3, <1>4, SameTasks, StepRace

LEMMA UpdateRace ==
  ASSUME Resolved, Undisturbed, RaceInv, IInv', NEW h \in Handlers, UpdateTask(h)
  PROVE  RaceInv'
  <1>1. pc[h] = "validated" /\ request[h].approve /\ node # "NONE"
    BY DEF UpdateTask, RaceInv, Approving, IInv, Busy
  <1>2. /\ UNCHANGED <<setup, node, tasks, request>>
        /\ written'[h].tasks = [s \in {request[h].task} |-> "APPROVED"]
        /\ \A o \in Handlers :
             /\ pc'[o] = IF o = h THEN "updated" ELSE pc[o]
             /\ o # h => written'[o] = written[o]
    BY <1>1 DEF UpdateTask, RaceInv, IInv, TypeOK
  <1>3. Apart(h)
    BY <1>1, <1>2, SameTasks DEF Apart, RaceInv, IInv, TypeOK, Rows
  <1>4. WrittenBy(h)' /\ DecidedBy(h)'
    BY <1>2 DEF WrittenBy, DecidedBy, InTransaction, Locked
  <1>5. Approving'
    BY <1>1, <1>2 DEF RaceInv, Approving
  <1> QED BY <1>2, <1>3, <1>4, <1>5, SameTasks, StepRace

LEMMA FinishRace ==
  ASSUME RaceInv, IInv', NEW h \in Handlers, pc[h] # "idle", Finish(h),
         Grows(tasks, tasks'), tasks' \in Rows, NodeSo', node' # "REJECTED",
         \A s \in Slots : tasks'[s] \in {"PENDING", "APPROVED", "CANCELLED"},
         \A s \in Slots : tasks'[s] # tasks[s] => s \in Locked(h)
  PROVE  RaceInv'
  <1>1. /\ setup' = setup /\ pc'[h] = "idle"
        /\ \A o \in Handlers : o # h =>
             pc'[o] = pc[o] /\ request'[o] = request[o] /\ written'[o] = written[o]
    BY DEF Finish, RaceInv, IInv, TypeOK
  <1>2. Apart(h)
    BY <1>1 DEF Apart
  <1>3. WrittenBy(h)' /\ DecidedBy(h)'
    BY <1>1 DEF WrittenBy, DecidedBy, InTransaction
  <1>4. Approving'
    BY <1>1 DEF RaceInv, Approving, Rows
  <1> QED BY <1>2, <1>3, <1>4, StepRace

LEMMA RollBackRace ==
  ASSUME RaceInv, IInv', NEW h \in Handlers, RollBack(h)
  PROVE  RaceInv'
  <1>1. Finish(h) /\ UNCHANGED <<setup, node, tasks>> /\ pc[h] # "idle"
    BY DEF RollBack, Finish, WaitsFor
  <1>2. tasks \in Rows /\ DOMAIN tasks = Slots
    BY <1>1 DEF RaceInv, IInv, Busy, TypeOK, Rows
  <1> QED BY <1>1, <1>2, SameTasks, FinishRace DEF RaceInv, Approving

LEMMA DecideRace ==
  ASSUME Resolved, Undisturbed, RaceInv, IInv', NEW h \in Handlers, Decide(h)
  PROVE  RaceInv'
  <1> DEFINE s == request[h].task
             done == Result(h)
  <1>1. /\ pc[h] = "updated" /\ request[h].approve /\ node \in {"PENDING", "APPROVED"}
        /\ s \in Slots /\ DOMAIN tasks = Slots /\ setup \in Cases
    BY DEF Decide, RaceInv, Approving, IInv, Busy, TypeOK
  <1>2. Locked(h) = {s} /\ written[h].tasks[s] = "APPROVED"
    BY <1>1 DEF RaceInv, WrittenSo, WrittenBy, InTransaction
  <1>3. /\ Seen(h) \in Rows /\ Grows(tasks, Seen(h))
        /\ \A r \in Slots : Seen(h)[r] = IF r = s THEN "APPROVED" ELSE tasks[r]
        /\ \A r \in Slots : Seen(h)[r] \in {"PENDING", "APPROVED", "CANCELLED"}
    BY <1>1, <1>2, SeenIs
  <1>4. s[1] \in DOMAIN Groups /\ s \in InGroup(s[1]) /\ Seen(h)[s] = "APPROVED"
    BY <1>1, <1>3, SlotFacts
  <1>5. done = handleApproval(Seen(h), s[1]) /\ done.tasks \in Rows
    BY <1>1, ResultRows DEF Result, RaceInv
  <1>6. /\ done.node \in {"NONE", "APPROVED"}
        /\ \A r \in Slots :
             \/ done.tasks[r] = Seen(h)[r]
             \/ Seen(h)[r] = "PENDING" /\ done.tasks[r] = "CANCELLED"
        /\ done.node = "NONE" =>
             \A r \in Slots : done.tasks[r] # Seen(h)[r] => r[1] = s[1] /\ Groups[s[1]].type = "ANY"
        /\ done.node = "APPROVED" => QuietIn(done.tasks)
        /\ done.node = "APPROVED" /\ SoundIn(Seen(h)) => ConsensusIn(done.tasks)
    BY <1>1, <1>3, <1>4, <1>5, ApprovalDoes
  <1> DEFINE rows == Writes(h) \cup {s}
  <1>7. /\ UNCHANGED <<setup, node, tasks, request>>
        /\ written'[h].node = done.node
        /\ written'[h].tasks = [r \in rows |-> done.tasks[r]]
        /\ \A o \in Handlers : pc'[o] = IF o = h THEN "decided" ELSE pc[o]
        /\ \A o \in Handlers : o # h => written'[o] = written[o]
    BY <1>2 DEF Decide, Outcome, Restrict, RaceInv, IInv, TypeOK
  <1>8. rows \subseteq Slots /\ \A r \in Slots \ rows : done.tasks[r] = tasks[r]
    BY <1>1 DEF Writes
  <1>9. \A r \in rows :
          \/ done.tasks[r] = "APPROVED" /\ r = s
          \/ /\ done.tasks[r] = "CANCELLED" /\ tasks[r] = "PENDING"
             /\ r # s /\ done.tasks[r] # Seen(h)[r]
    <2> SUFFICES ASSUME NEW r \in rows
                 PROVE  \/ done.tasks[r] = "APPROVED" /\ r = s
                        \/ /\ done.tasks[r] = "CANCELLED" /\ tasks[r] = "PENDING"
                           /\ r # s /\ done.tasks[r] # Seen(h)[r]
      OBVIOUS
    <2>1. CASE r = s
      BY <1>1, <1>4, <1>6, <2>1
    <2>2. CASE r # s
      <3>1. r \in Slots /\ done.tasks[r] # tasks[r] /\ Seen(h)[r] = tasks[r]
        BY <1>3, <1>8, <2>2 DEF Writes
      <3> QED BY <1>6, <2>2, <3>1
    <2> QED BY <2>1, <2>2
  <1>10. Seen(h)' = done.tasks
    <2>1. Slots' = Slots /\ Locked(h)' = rows
      BY <1>7, SameGroups DEF Locked
    <2>2. Seen(h)' = [r \in Slots |-> IF r \in rows THEN done.tasks[r] ELSE tasks[r]]
      BY <1>1, <1>7, <2>1 DEF Seen
    <2> HIDE DEF done, rows
    <2>3. done.tasks = [r \in Slots |-> done.tasks[r]]
      BY <1>5 DEF Rows
    <2> QED BY <1>8, <2>2, <2>3
  <1> HIDE DEF rows, done
  <1>11. WrittenBy(h)'
    BY <1>7, <1>9, <1>10 DEF WrittenBy, InTransaction, Locked, rows
  <1>12. ASSUME done.node = "APPROVED" PROVE ConsensusIn(done.tasks)
    <2>1. CASE node = "PENDING"
      <3>1. SoundIn(tasks)
        BY <2>1 DEF RaceInv, NodeSo
      <3>2. SoundIn(Seen(h))
        BY <1>3, <3>1 DEF SoundIn, Grows, InGroup
      <3> QED BY <1>6, <1>12, <3>2
    <2>2. CASE node = "APPROVED"
      <3>1. ConsensusIn(tasks)
        BY <2>2 DEF RaceInv, NodeSo
      <3>2. Grows(Seen(h), done.tasks)
        BY <1>6 DEF Grows
      <3>3. ConsensusIn(Seen(h))
        BY <1>3, <3>1, GrowsKeeps
      <3> QED BY <3>2, <3>3, GrowsKeeps
    <2> QED BY <1>1, <2>1, <2>2
  <1>13. DecidedBy(h)'
    <2>1. Groups' = Groups
      BY <1>7, SameGroups
    <2>2. /\ ConsensusIn(Seen(h))' <=> ConsensusIn(Seen(h)')
          /\ QuietIn(Seen(h))' <=> QuietIn(Seen(h)')
      BY <1>7, SameGroups DEF ConsensusIn, QuietIn, AgreedIn
    <2>3. done.node = "APPROVED" => (ConsensusIn(Seen(h)) /\ QuietIn(Seen(h)))'
      BY <1>6, <1>10, <1>12, <2>2
    <2>4. ASSUME done.node = "NONE", NEW r \in rows, done.tasks[r] = "CANCELLED"
          PROVE  r[1] = s[1] /\ Groups[r[1]].type = "ANY"
      BY <1>6, <1>8, <1>9, <2>4
    <2>5. Locked(h)' = rows
      BY <1>7 DEF Locked
    <2> QED BY <1>6, <1>7, <2>1, <2>3, <2>4, <2>5 DEF DecidedBy
  <1>14. Apart(h)
    BY <1>1, <1>7, SameTasks DEF Apart, RaceInv, IInv, TypeOK, Rows
  <1>15. Approving'
    BY <1>1, <1>7 DEF RaceInv, Approving
  <1> QED BY <1>7, <1>11, <1>13, <1>14, <1>15, SameTasks, StepRace

LEMMA CommitRace ==
  ASSUME Resolved, Undisturbed, RaceInv, IInv', NEW h \in Handlers, Commit(h)
  PROVE  RaceInv'
  <1> DEFINE s == request[h].task
  <1>1. /\ pc[h] = "decided" /\ setup' = setup /\ tasks' = Seen(h) /\ Finish(h)
        /\ node' = IF written[h].node = "NONE" THEN node ELSE written[h].node
    BY DEF Commit, Finish
  <1>2. /\ Seen(h) \in Rows /\ Grows(tasks, Seen(h)) /\ Locked(h) \subseteq Slots
        /\ \A r \in Slots : Seen(h)[r] = IF r \in Locked(h) THEN written[h].tasks[r] ELSE tasks[r]
        /\ \A r \in Slots : Seen(h)[r] \in {"PENDING", "APPROVED", "CANCELLED"}
    BY <1>1, SeenIs
  <1>3. s \in Locked(h) /\ written[h].tasks[s] = "APPROVED" /\ s \in Slots
    BY <1>1, <1>2 DEF RaceInv, WrittenSo, WrittenBy, InTransaction
  <1>4. written[h].node \in {"NONE", "APPROVED"} /\ node # "REJECTED"
    BY <1>1 DEF RaceInv, Approving, DecidedSo, DecidedBy, IInv, TypeOK
  <1>5. ASSUME node' = "PENDING" PROVE SoundIn(tasks')
    <2>1. written[h].node = "NONE" /\ SoundIn(tasks)
      BY <1>1, <1>4, <1>5 DEF RaceInv, NodeSo
    <2> SUFFICES ASSUME NEW r \in Slots, Seen(h)[r] = "CANCELLED"
                 PROVE  Groups[r[1]].type = "ANY" /\ \E q \in InGroup(r[1]) : Seen(h)[q] = "APPROVED"
      BY <1>1 DEF SoundIn
    <2>2. CASE r \in Locked(h)
      <3>1. r[1] = s[1] /\ Groups[r[1]].type = "ANY"
        BY <1>1, <1>2, <2>1, <2>2 DEF RaceInv, DecidedSo, DecidedBy
      <3>2. s \in InGroup(r[1]) /\ Seen(h)[s] = "APPROVED"
        BY <1>2, <1>3, <3>1 DEF InGroup
      <3> QED BY <3>1, <3>2
    <2>3. CASE r \notin Locked(h)
      <3>1. Groups[r[1]].type = "ANY" /\ \E q \in InGroup(r[1]) : tasks[q] = "APPROVED"
        BY <1>2, <2>1, <2>3 DEF SoundIn
      <3> QED BY <1>2, <3>1 DEF Grows, InGroup
    <2> QED BY <2>2, <2>3
  <1>6. ASSUME node' = "APPROVED"
        PROVE  ConsensusIn(tasks') /\ (NoPriorAlternative => QuietIn(tasks'))
    <2>1. CASE written[h].node = "APPROVED"
      BY <1>1, <2>1 DEF RaceInv, DecidedSo, DecidedBy
    <2>2. CASE written[h].node = "NONE"
      BY <1>1, <1>2, <1>6, <2>2, GrowsKeeps DEF RaceInv, NodeSo
    <2> QED BY <1>4, <2>1, <2>2
  <1>7. NodeSo'
    BY <1>1, <1>5, <1>6, SameConsensus DEF NodeSo, NoPriorAlternative
  <1> QED BY <1>1, <1>2, <1>4, <1>7, FinishRace

LEMMA NextRace ==
  ASSUME Resolved, Undisturbed PROVE RaceInv /\ [Next]_vars => RaceInv'
  <1> SUFFICES ASSUME RaceInv, [Next]_vars PROVE RaceInv'
    OBVIOUS
  <1>1. IInv'
    BY NextIInv DEF RaceInv
  <1>2. CASE UNCHANGED vars
    <2>1. \A h \in Handlers : WrittenBy(h)' /\ DecidedBy(h)'
      BY <1>2, SameGroups
      DEF vars, RaceInv, WrittenSo, DecidedSo, WrittenBy, DecidedBy, InTransaction, Locked, Seen,
          ConsensusIn, QuietIn, AgreedIn
    <2>2. NodeSo' /\ Approving'
      BY <1>2, SameTasks DEF vars, RaceInv, Approving
    <2> QED BY <1>1, <2>1, <2>2 DEF RaceInv, WrittenSo, DecidedSo
  <1> QED
    BY <1>1, <1>2, ExecuteRace, ArriveRace, UpdateRace, DecideRace, CommitRace, RollBackRace
    DEF Next, Arrive

LEMMA InitRace == Init => RaceInv
  <1> SUFFICES ASSUME Init PROVE RaceInv
    OBVIOUS
  <1>1. IInv
    BY InitIInv
  <1>2. WrittenSo /\ DecidedSo /\ NodeSo
    BY DEF Init, WrittenSo, DecidedSo, WrittenBy, DecidedBy, InTransaction, NodeSo
  <1>3. DOMAIN tasks = {}
    BY <1>1 DEF Init, IInv, TypeOK
  <1>4. Approving
    BY <1>3 DEF Init, Approving
  <1> QED BY <1>1, <1>2, <1>4 DEF RaceInv

(* However many approve at the same time, a node without reporting lines   *)
(* that nobody rejects is APPROVED only by those whose approval its types  *)
(* and its logic ask for, whatever was read before another one committed.  *)
THEOREM ConsensusAtTheSameTime ==
  ASSUME Resolved, Undisturbed PROVE Spec => []ApprovedByConsensus
  <1>1. RaceInv => ApprovedByConsensus
    BY DEF RaceInv, NodeSo, ApprovedByConsensus, Consensus, GroupAgreed, ConsensusIn, AgreedIn
  <1>2. RaceInv /\ [Next]_vars => RaceInv'
    BY NextRace
  <1> QED BY <1>1, <1>2, InitRace, PTL DEF Spec

(* And when it is, none of its tasks is left to decide, unless a prior     *)
(* approval made one of its alternatives complete.                         *)
THEOREM QuietAtTheSameTime ==
  ASSUME Resolved, Undisturbed, NoPriorAlternative PROVE Spec => []DecidedNodeIsQuiet
  <1>1. RaceInv => DecidedNodeIsQuiet
    BY DEF RaceInv, NodeSo, Approving, DecidedNodeIsQuiet, QuietIn
  <1>2. RaceInv /\ [Next]_vars => RaceInv'
    BY NextRace
  <1> QED BY <1>1, <1>2, InitRace, PTL DEF Spec

--------------------------------------------------------------------------------
(* One request at a time.                                                  *)

OneHandler == \A h, o \in Handlers : h = o

(* A line is approved from its beginning, whatever became of the node.     *)
OrderIn(t) ==
  \A s \in Slots, r \in Slots :
    /\ Groups[s[1]].type = "LINE" /\ s[1] = r[1] /\ r[2] < s[2]
    /\ t[s] \in {"PENDING", "APPROVED", "REJECTED"}
    => t[r] = "APPROVED"

(* What the tasks of a pending node look like: who waits in a line waits   *)
(* for somebody before, and a role is decided for all of its users.        *)
StatusesOf(type) ==
  CASE type = "LINE" -> {"WAITING", "PENDING", "APPROVED"}
    [] type = "ALL"  -> {"PENDING", "APPROVED"}
    [] OTHER         -> {"PENDING", "APPROVED", "CANCELLED"}

ShapeIn(t) ==
  /\ OrderIn(t)
  /\ \A s \in Slots :
       /\ t[s] \in StatusesOf(Groups[s[1]].type)
       /\ t[s] = "WAITING" => \E r \in InGroup(s[1]) : r[2] < s[2] /\ t[r] = "PENDING"
       /\ t[s] = "CANCELLED" => \E r \in InGroup(s[1]) : t[r] = "APPROVED"
       /\ Groups[s[1]].type = "ANY" /\ t[s] = "PENDING" =>
            \A r \in InGroup(s[1]) : t[r] = "PENDING"

(* The tasks t go with the result n of the node.                           *)
GoodIn(t, n) ==
  /\ n = "PENDING" => ShapeIn(t) /\ ~ isApprovalNodeCompleted(t)
  /\ n = "APPROVED" =>
       ConsensusIn(t) /\ QuietIn(t) /\ OrderIn(t) /\ checkApprovalNodeCompletion(t)
  /\ n = "REJECTED" => QuietIn(t) /\ OrderIn(t)

(* A request that is handled finds the node pending and its task to be     *)
(* decided, and what it has written, it may write.                         *)
Turn(h) ==
  /\ pc[h] # "idle" => node = "PENDING" /\ tasks[request[h].task] = "PENDING"
  /\ pc[h] = "updated" =>
       /\ Locked(h) = {request[h].task}
       /\ written[h].tasks[request[h].task] =
            IF request[h].approve THEN "APPROVED" ELSE "REJECTED"
  /\ pc[h] = "decided" =>
       /\ GoodIn(Seen(h), IF written[h].node = "NONE" THEN "PENDING" ELSE written[h].node)
       /\ \A s \in Locked(h) : tasks[s] \in Undecided

TurnInv == IInv /\ (node # "NONE" => GoodIn(tasks, node)) /\ \A h \in Handlers : Turn(h)

ClosedIn(t, g) == \A s \in InGroup(g) : t[s] \notin Undecided

CompleteIn(t, g) ==
  IF Groups[g].type = "LINE" THEN {t[s] : s \in InGroup(g)} = {"APPROVED"}
  ELSE (\E s \in InGroup(g) : t[s] = "APPROVED") /\ ClosedIn(t, g)

LEMMA CheckMeans ==
  ASSUME Resolved, setup \in Cases, NEW t
  PROVE  checkApprovalNodeCompletion(t) <=>
           IF setup.logic = "AND" THEN \A g \in DOMAIN Groups : CompleteIn(t, g)
           ELSE \E g \in DOMAIN Groups : CompleteIn(t, g)
  <1> DEFINE statuses(g) == {t[s] : s \in InGroup(g)}
             complete(g) == IF ConfigOf(g).type = "LINE" THEN statuses(g) = {"APPROVED"}
                            ELSE "APPROVED" \in statuses(g) /\ statuses(g) \cap Undecided = {}
             completed == {g \in DOMAIN Groups : complete(g)}
  <1>1. checkApprovalNodeCompletion(t) <=>
          IF setup.logic = "AND" THEN completed = DOMAIN Groups ELSE completed # {}
    BY DEF checkApprovalNodeCompletion
  <1>2. ASSUME NEW g \in DOMAIN Groups PROVE complete(g) <=> CompleteIn(t, g)
    <2>1. ConfigOf(g) = Groups[g]
      BY GroupFacts
    <2>2. "APPROVED" \in statuses(g) <=> \E s \in InGroup(g) : t[s] = "APPROVED"
      OBVIOUS
    <2>3. statuses(g) \cap Undecided = {} <=> ClosedIn(t, g)
      BY DEF ClosedIn
    <2> QED BY <2>1, <2>2, <2>3 DEF CompleteIn
  <1> HIDE DEF complete
  <1> QED BY <1>1, <1>2

LEMMA Typed == ASSUME Resolved, setup \in Cases, NEW s \in Slots
               PROVE  Groups[s[1]].type \in {"LINE", "ALL", "ANY"} /\ s \in InGroup(s[1])
  BY GroupFacts, SlotFacts DEF ApproverTypes

(* A group with nothing to decide is complete and agreed, and only such    *)
(* one is complete.                                                        *)
LEMMA ClosedMeans ==
  ASSUME Resolved, setup \in Cases, NEW t, ShapeIn(t), NEW g \in DOMAIN Groups
  PROVE  /\ ClosedIn(t, g) <=> CompleteIn(t, g)
         /\ ClosedIn(t, g) => AgreedIn(t, g)
         /\ ClosedIn(t, g) <=> g \notin Remaining(t)
  <1>1. /\ InGroup(g) # {} /\ Groups[g].type \in {"LINE", "ALL", "ANY"}
        /\ \A s \in InGroup(g) : s \in Slots /\ s[1] = g /\ t[s] \in StatusesOf(Groups[g].type)
    BY SlotFacts, GroupFacts DEF ShapeIn, ApproverTypes
  <1>2. \A s \in InGroup(g) : t[s] = "CANCELLED" => \E r \in InGroup(g) : t[r] = "APPROVED"
    BY <1>1 DEF ShapeIn
  <1>3. ASSUME ClosedIn(t, g) PROVE CompleteIn(t, g) /\ AgreedIn(t, g)
    <2>1. CASE Groups[g].type = "ANY"
      <3>1. \E s \in InGroup(g) : t[s] = "APPROVED"
        BY <1>1, <1>2, <1>3, <2>1 DEF ClosedIn, StatusesOf
      <3> QED BY <1>3, <2>1, <3>1 DEF CompleteIn, AgreedIn
    <2>2. CASE Groups[g].type # "ANY"
      <3>1. \A s \in InGroup(g) : t[s] = "APPROVED"
        BY <1>1, <1>3, <2>2 DEF ClosedIn, StatusesOf
      <3>2. {t[s] : s \in InGroup(g)} = {"APPROVED"}
        BY <1>1, <3>1
      <3> QED BY <1>1, <1>3, <2>2, <3>1, <3>2 DEF CompleteIn, AgreedIn
    <2> QED BY <2>1, <2>2
  <1>4. CompleteIn(t, g) => ClosedIn(t, g)
    BY DEF CompleteIn, ClosedIn
  <1>5. ClosedIn(t, g) <=> g \notin Remaining(t)
    BY DEF ClosedIn, Remaining
  <1> QED BY <1>3, <1>4, <1>5

LEMMA ChecksAgree ==
  ASSUME Resolved, setup \in Cases, NEW t, ShapeIn(t)
  PROVE  checkApprovalNodeCompletion(t) <=> isApprovalNodeCompleted(t)
  <1>1. Remaining(t) \subseteq DOMAIN Groups
    BY DEF Remaining
  <1> QED BY <1>1, CheckMeans, CompletedMeans, ClosedMeans

(* A node that the tasks t make complete.                                  *)
LEMMA CompletedGood ==
  ASSUME Resolved, setup \in Cases, NEW t \in Rows, ShapeIn(t), isApprovalNodeCompleted(t)
  PROVE  GoodIn(Completed(t), "APPROVED")
  <1>1. CASE setup.logic = "AND"
    <2>1. Completed(t) = t /\ Remaining(t) = {}
      BY <1>1, CompletedMeans DEF Completed
    <2>2. QuietIn(t)
      BY <2>1, SlotFacts DEF Remaining, QuietIn
    <2>3. ConsensusIn(t)
      BY <1>1, <2>1, ClosedMeans DEF ConsensusIn
    <2> QED BY <2>1, <2>2, <2>3, ChecksAgree DEF GoodIn, ShapeIn
  <1>2. CASE setup.logic # "AND"
    <2> DEFINE u == Completed(t)
    <2>1. u = Cancelled(t, Slots)
      BY <1>2, CaseAssumption DEF Completed
    <2>2. \A s \in Slots : u[s] = IF t[s] \in Undecided THEN "CANCELLED" ELSE t[s]
      BY <2>1 DEF Cancelled
    <2> HIDE DEF u
    <2>3. QuietIn(u) /\ OrderIn(u)
      BY <2>2 DEF QuietIn, OrderIn, ShapeIn
    <2>4. PICK g \in DOMAIN Groups : g \notin Remaining(t)
      BY <1>2, CompletedMeans DEF Remaining
    <2>5. \A s \in InGroup(g) : u[s] = t[s]
      BY <2>2, <2>4, SlotFacts DEF Remaining
    <2>6. ClosedIn(t, g) /\ CompleteIn(t, g) /\ AgreedIn(t, g)
      BY <2>4, ClosedMeans
    <2>7. {u[s] : s \in InGroup(g)} = {t[s] : s \in InGroup(g)}
      BY <2>5
    <2>8. CompleteIn(u, g) /\ AgreedIn(u, g)
      BY <2>5, <2>6, <2>7 DEF CompleteIn, AgreedIn, ClosedIn
    <2> QED BY <1>2, <2>3, <2>8, CheckMeans DEF GoodIn, ConsensusIn, u
  <1> QED BY <1>1, <1>2

(* In a line whose pending user approves, the next who has not approved    *)
(* before is asked, and nobody if there is no other.                       *)
NextInLine(t, g, base) ==
  /\ \A r \in Slots : r[1] # g => Promoted(t, g)[r] = base[r]
  /\ Stops(t, g) = {} => \A r \in InGroup(g) : Promoted(t, g)[r] = "APPROVED"
  /\ Stops(t, g) # {} =>
       \E m \in InGroup(g) : \A r \in InGroup(g) :
         Promoted(t, g)[r] = IF r[2] < m[2] THEN "APPROVED"
                             ELSE IF r = m THEN "PENDING" ELSE "WAITING"

LEMMA PromotedLine ==
  ASSUME Resolved, setup \in Cases, NEW base \in Rows, ShapeIn(base),
         NEW s \in Slots, base[s] = "PENDING", Groups[s[1]].type = "LINE",
         NEW t \in Rows, \A r \in Slots : t[r] = IF r = s THEN "APPROVED" ELSE base[r]
  PROVE  NextInLine(t, s[1], base)
  <1> DEFINE g == s[1]
             done == Promoted(t, g)
             stops == Stops(t, g)
  <1>1. /\ g \in DOMAIN Groups /\ s \in InGroup(g)
        /\ \A r \in InGroup(g) : r \in Slots /\ r[1] = g /\ r = <<g, r[2]>> /\ r[2] \in Nat
    BY SlotFacts, GroupFacts
  <1>2. ASSUME NEW r \in InGroup(g)
        PROVE  /\ r[2] < s[2] => base[r] = "APPROVED"
               /\ s[2] < r[2] => base[r] = "WAITING"
    <2>1. base[r] \in {"WAITING", "PENDING", "APPROVED"}
      BY <1>1, <1>2 DEF ShapeIn, StatusesOf
    <2> QED BY <1>1, <1>2, <2>1 DEF ShapeIn, OrderIn
  <1>3. \A r \in InGroup(g) : r[2] = s[2] => r = s
    BY <1>1
  <1>4. \A r \in Slots \ {s} : t[r] = base[r]
    OBVIOUS
  <1>5. \A r \in InGroup(g) : t[r] = IF s[2] < r[2] THEN "WAITING" ELSE "APPROVED"
    BY <1>1, <1>2, <1>3
  <1>6. Waiting(t, g) = {r \in InGroup(g) : s[2] < r[2]}
    BY <1>5 DEF Waiting
  <1>7. stops \in SUBSET Waiting(t, g)
    BY DEF Stops
  <1>8. \A r \in Slots :
          done[r] = IF r \notin Waiting(t, g) THEN t[r]
                    ELSE IF \A q \in stops : r[2] < q[2] THEN "APPROVED"
                    ELSE IF r \in stops /\ \A q \in stops : r[2] <= q[2] THEN "PENDING"
                    ELSE "WAITING"
    BY DEF Promoted
  <1> HIDE DEF stops, done
  <1>9. \A r \in Slots : r[1] # g => done[r] = base[r]
    BY <1>1, <1>4, <1>6, <1>8
  <1>10. stops = {} => \A r \in InGroup(g) : done[r] = "APPROVED"
    BY <1>1, <1>5, <1>6, <1>8
  <1>11. ASSUME stops # {}
         PROVE  \E m \in InGroup(g) : \A r \in InGroup(g) :
                  done[r] = IF r[2] < m[2] THEN "APPROVED"
                            ELSE IF r = m THEN "PENDING" ELSE "WAITING"
    <2> DEFINE places == {q[2] : q \in stops}
    <2>1. places \in SUBSET Nat /\ places # {}
      BY <1>1, <1>6, <1>7, <1>11
    <2>2. Min(places) \in places /\ \A y \in places : Min(places) <= y
      BY <2>1, MinIs
    <2>3. PICK m \in stops : m[2] = Min(places)
      BY <2>2
    <2>4. \A q \in stops : q \in InGroup(g) /\ q[2] \in Nat /\ s[2] < q[2] /\ m[2] <= q[2]
      BY <1>1, <1>6, <1>7, <2>2, <2>3
    <2> HIDE DEF places
    <2>5. ASSUME NEW r \in InGroup(g)
          PROVE  done[r] = IF r[2] < m[2] THEN "APPROVED"
                           ELSE IF r = m THEN "PENDING" ELSE "WAITING"
      <3>1. /\ r \in Slots /\ r[2] \in Nat /\ m[2] \in Nat /\ s[2] \in Nat
            /\ r[2] = m[2] => r = m
            /\ r \in Waiting(t, g) <=> s[2] < r[2]
        BY <1>1, <1>6, <2>4
      <3>2. CASE r[2] < m[2]
        <4>1. \A q \in stops : r[2] < q[2]
          BY <2>4, <3>1, <3>2
        <4>2. r \notin Waiting(t, g) => t[r] = "APPROVED"
          BY <1>5, <3>1
        <4> QED BY <1>8, <3>1, <3>2, <4>1, <4>2
      <3>3. CASE r = m
        <4>1. ~ (\A q \in stops : r[2] < q[2]) /\ \A q \in stops : r[2] <= q[2]
          BY <2>4, <3>1, <3>3
        <4>2. r \in stops /\ r \in Waiting(t, g)
          BY <1>7, <3>3
        <4>3. done[r] = "PENDING"
          BY <1>8, <3>1, <4>1, <4>2
        <4> QED BY <3>1, <3>3, <4>3
      <3>4. CASE m[2] < r[2]
        <4>1. r \in Waiting(t, g) /\ r # m
          BY <2>4, <3>1, <3>4
        <4>2. ~ (\A q \in stops : r[2] < q[2]) /\ ~ (\A q \in stops : r[2] <= q[2])
          BY <2>4, <3>1, <3>4
        <4> QED BY <1>8, <3>1, <3>4, <4>1, <4>2
      <3> QED BY <3>1, <3>2, <3>3, <3>4
    <2> QED BY <2>4, <2>5
  <1> QED BY <1>9, <1>10, <1>11 DEF stops, done, NextInLine

(* What an approval makes of the tasks of a pending node goes with what it *)
(* finds the node to be.                                                   *)
LEMMA ApprovalGood ==
  ASSUME Resolved, setup \in Cases, NEW base \in Rows,
         GoodIn(base, "PENDING"), NEW s \in Slots, base[s] = "PENDING",
         NEW t \in Rows, \A r \in Slots : t[r] = IF r = s THEN "APPROVED" ELSE base[r]
  PROVE  LET done == handleApproval(t, s[1])
         IN  /\ done.node \in {"NONE", "APPROVED"}
             /\ GoodIn(done.tasks, IF done.node = "NONE" THEN "PENDING" ELSE done.node)
  <1> DEFINE g == s[1]
             promoted == Promoted(t, g)
             settled == SettledGroup(promoted, g)
  <1>1. /\ ShapeIn(base) /\ ~ isApprovalNodeCompleted(base)
        /\ g \in DOMAIN Groups /\ s \in InGroup(g) /\ Groups[g].type \in {"LINE", "ALL", "ANY"}
        /\ ConfigOf(g) = Groups[g]
        /\ \A r : r \in InGroup(g) <=> r \in Slots /\ r[1] = g
    BY SlotFacts, Typed, GroupFacts DEF GoodIn
  <1>3. promoted \in Rows /\ settled \in Rows
    BY PromotedRows, CancelledRows DEF SettledGroup
  (* The other groups stay as they are.                                    *)
  <1>4. ASSUME NEW u, \A r \in Slots : r[1] # g => u[r] = base[r],
               \A r \in InGroup(g) :
                 /\ u[r] \in StatusesOf(Groups[g].type)
                 /\ u[r] = "WAITING" => \E q \in InGroup(g) : q[2] < r[2] /\ u[q] = "PENDING"
                 /\ u[r] = "CANCELLED" => \E q \in InGroup(g) : u[q] = "APPROVED"
                 /\ Groups[g].type = "ANY" /\ u[r] = "PENDING" =>
                      \A q \in InGroup(g) : u[q] = "PENDING"
                 /\ Groups[g].type = "LINE" /\ u[r] \in {"PENDING", "APPROVED", "REJECTED"} =>
                      \A q \in InGroup(g) : q[2] < r[2] => u[q] = "APPROVED"
        PROVE  ShapeIn(u)
    <2>1. OrderIn(u)
      <3> SUFFICES ASSUME NEW r \in Slots, NEW q \in Slots,
                          Groups[r[1]].type = "LINE", r[1] = q[1], q[2] < r[2],
                          u[r] \in {"PENDING", "APPROVED", "REJECTED"}
                   PROVE  u[q] = "APPROVED"
        BY DEF OrderIn
      <3>1. CASE r[1] = g
        <4>1. r \in InGroup(g) /\ q \in InGroup(g) /\ Groups[g].type = "LINE"
          BY <1>1, <3>1
        <4> QED BY <1>4, <4>1
      <3>2. CASE r[1] # g
        BY <1>1, <1>4, <3>2 DEF ShapeIn, OrderIn
      <3> QED BY <3>1, <3>2
    <2>2. ASSUME NEW r \in Slots
          PROVE  /\ u[r] \in StatusesOf(Groups[r[1]].type)
                 /\ u[r] = "WAITING" => \E q \in InGroup(r[1]) : q[2] < r[2] /\ u[q] = "PENDING"
                 /\ u[r] = "CANCELLED" => \E q \in InGroup(r[1]) : u[q] = "APPROVED"
                 /\ Groups[r[1]].type = "ANY" /\ u[r] = "PENDING" =>
                      \A q \in InGroup(r[1]) : u[q] = "PENDING"
      <3>1. CASE r[1] = g
        BY <1>1, <1>4, <3>1
      <3>2. CASE r[1] # g
        <4>1. \A q \in InGroup(r[1]) : q \in Slots /\ u[q] = base[q]
          BY <1>4, <3>2 DEF InGroup
        <4>2. u[r] = base[r]
          BY <1>4, <3>2
        <4> QED BY <1>1, <4>1, <4>2 DEF ShapeIn
      <3> QED BY <3>1, <3>2
    <2> QED BY <2>1, <2>2 DEF ShapeIn
  <1>5. CASE Stops(t, g) # {}
    <2>1. Groups[g].type = "LINE"
      <3>1. Waiting(t, g) # {}
        BY <1>5 DEF Stops
      <3>2. PICK r \in InGroup(g) : base[r] = "WAITING"
        BY <1>1, <3>1 DEF Waiting
      <3> QED BY <1>1, <3>2 DEF ShapeIn, StatusesOf
    <2>2. NextInLine(t, g, base)
      BY <1>1, <2>1, PromotedLine
    <2>3. \E m \in InGroup(g) : \A r \in InGroup(g) :
            promoted[r] = IF r[2] < m[2] THEN "APPROVED" ELSE IF r = m THEN "PENDING" ELSE "WAITING"
      BY <1>5, <2>2 DEF NextInLine
    <2>4. \A r \in Slots : r[1] # g => promoted[r] = base[r]
      BY <2>2 DEF NextInLine
    <2> HIDE DEF promoted
    <2>5. PICK m \in InGroup(g) : \A r \in InGroup(g) :
            promoted[r] = IF r[2] < m[2] THEN "APPROVED" ELSE IF r = m THEN "PENDING" ELSE "WAITING"
      BY <2>3
    <2>6. \A r \in InGroup(g) : r[2] \in Nat /\ (r[2] = m[2] => r = m)
      BY <1>1, SlotFacts, GroupFacts
    <2>7. promoted[m] = "PENDING" /\ \A r \in InGroup(g) :
            /\ promoted[r] = "WAITING" => m[2] < r[2]
            /\ promoted[r] # "WAITING" => r[2] <= m[2]
            /\ promoted[r] \in {"WAITING", "PENDING", "APPROVED"}
            /\ r[2] < m[2] => promoted[r] = "APPROVED"
      BY <2>5, <2>6
    <2>8. \A r \in InGroup(g) : \A q \in InGroup(g) :
            promoted[r] # "WAITING" /\ q[2] < r[2] => promoted[q] = "APPROVED"
      BY <2>6, <2>7
    <2>9. ShapeIn(promoted)
      BY <1>4, <2>1, <2>4, <2>7, <2>8 DEF StatusesOf
    <2>10. Remaining(promoted) # {}
      BY <1>1, <2>7 DEF Remaining
    <2>11. setup.logic # "AND" => Remaining(promoted) = DOMAIN Groups
      <3>1. setup.logic # "AND" => Remaining(base) = DOMAIN Groups
        BY <1>1, CompletedMeans
      <3>2. \A k \in DOMAIN Groups \ {g} : k \in Remaining(base) => k \in Remaining(promoted)
        BY <2>4 DEF Remaining, InGroup
      <3>3. g \in Remaining(promoted)
        BY <1>1, <2>7 DEF Remaining
      <3> QED BY <3>1, <3>2, <3>3 DEF Remaining
    <2>12. GoodIn(promoted, "PENDING")
      BY <2>9, <2>10, <2>11, CompletedMeans DEF GoodIn
    <2> QED BY <1>5, <2>12 DEF handleApproval, Outcome, promoted
  <1>6. CASE Stops(t, g) = {}
    <2>1. /\ \A r \in Slots : r[1] # g => settled[r] = base[r]
          /\ Groups[g].type = "LINE" => \A r \in InGroup(g) : settled[r] = "APPROVED"
          /\ Groups[g].type = "ALL" => \A r \in InGroup(g) : settled[r] \in {"PENDING", "APPROVED"}
          /\ Groups[g].type = "ANY" =>
               settled[s] = "APPROVED" /\ \A r \in InGroup(g) : settled[r] \in {"APPROVED", "CANCELLED"}
      <3>1. CASE Groups[g].type = "LINE"
        <4>1. NextInLine(t, g, base)
          BY <1>1, <3>1, PromotedLine
        <4>2. /\ \A r \in Slots : r[1] # g => promoted[r] = base[r]
              /\ \A r \in InGroup(g) : promoted[r] = "APPROVED"
          BY <1>6, <4>1 DEF NextInLine
        <4> HIDE DEF promoted
        <4> QED BY <1>1, <3>1, <4>2 DEF SettledGroup, Cancelled, requiresAllApprovers
      <3>2. CASE Groups[g].type # "LINE"
        <4>1. \A r \in InGroup(g) : base[r] \in {"PENDING", "APPROVED", "CANCELLED"}
          BY <1>1, <3>2 DEF ShapeIn, StatusesOf
        <4>2. Waiting(t, g) = {}
          BY <1>1, <4>1 DEF Waiting
        <4>3. promoted = t
          BY <4>2 DEF Promoted, Rows
        <4>4. \A r \in InGroup(g) : Groups[g].type = "ALL" => base[r] \in {"PENDING", "APPROVED"}
          BY <1>1 DEF ShapeIn, StatusesOf
        <4> HIDE DEF promoted
        <4> QED BY <1>1, <3>2, <4>1, <4>3, <4>4 DEF SettledGroup, Cancelled, requiresAllApprovers
      <3> QED BY <3>1, <3>2
    <2> HIDE DEF settled
    <2>2. ShapeIn(settled)
      BY <1>1, <1>4, <2>1 DEF StatusesOf
    <2>3. CASE isApprovalNodeCompleted(settled)
      BY <1>3, <1>6, <2>2, <2>3, CompletedGood DEF handleApproval, Outcome, settled
    <2>4. CASE ~ isApprovalNodeCompleted(settled)
      BY <1>6, <2>2, <2>4 DEF handleApproval, Outcome, settled, GoodIn
    <2> QED BY <2>3, <2>4
  <1> QED BY <1>5, <1>6

LEMMA StatusOfShape ==
  ASSUME NEW t, ShapeIn(t), NEW s \in Slots PROVE t[s] # "REJECTED"
  BY DEF ShapeIn, StatusesOf

(* A rejection leaves nothing to decide, and no line out of its order.     *)
LEMMA RejectionGood ==
  ASSUME Resolved, setup \in Cases, NEW base \in Rows, ShapeIn(base),
         NEW s \in Slots, base[s] = "PENDING",
         NEW t \in Rows, \A r \in Slots : t[r] = IF r = s THEN "REJECTED" ELSE base[r]
  PROVE  handleRejection(t).node = "REJECTED" /\ GoodIn(handleRejection(t).tasks, "REJECTED")
  <1> DEFINE u == Cancelled(t, Slots)
  <1>1. handleRejection(t).node = "REJECTED" /\ handleRejection(t).tasks = u
    BY DEF handleRejection, Outcome
  <1>2. \A r \in Slots : u[r] = IF t[r] \in Undecided THEN "CANCELLED" ELSE t[r]
    BY DEF Cancelled
  <1> HIDE DEF u
  <1>3. QuietIn(u)
    BY <1>2 DEF QuietIn
  <1>4. ASSUME NEW r \in Slots
        PROVE  /\ u[r] \in {"PENDING", "APPROVED", "REJECTED"} => r = s \/ base[r] = "APPROVED"
               /\ base[r] = "APPROVED" => u[r] = "APPROVED"
    <2>1. CASE r = s
      BY <2>1
    <2>2. CASE r # s
      <3>1. t[r] = base[r] /\ base[r] \in TaskStatus
        BY <2>2 DEF Rows
      <3>2. u[r] = IF base[r] \in Undecided THEN "CANCELLED" ELSE base[r]
        BY <1>2, <3>1
      <3>3. CASE base[r] = "APPROVED"
        BY <3>2, <3>3
      <3>4. CASE base[r] # "APPROVED"
        <4>1. base[r] # "REJECTED"
          BY StatusOfShape
        <4> QED BY <3>1, <3>2, <3>4, <4>1
      <3> QED BY <3>3, <3>4
    <2> QED BY <2>1, <2>2
  <1>5. OrderIn(u)
    BY <1>4 DEF OrderIn, ShapeIn
  <1> QED BY <1>1, <1>3, <1>5 DEF GoodIn

(* A line that is approved up to the one who is asked.                     *)
UpTo(t, g) ==
  \/ \A r \in InGroup(g) : t[r] = "APPROVED"
  \/ \E m \in InGroup(g) : \A r \in InGroup(g) :
       t[r] = IF r[2] < m[2] THEN "APPROVED" ELSE IF r = m THEN "PENDING" ELSE "WAITING"

LEMMA UpToMeans ==
  ASSUME Resolved, setup \in Cases, NEW t, NEW g \in DOMAIN Groups, UpTo(t, g),
         NEW s \in InGroup(g)
  PROVE  /\ t[s] \in {"WAITING", "PENDING", "APPROVED"}
         /\ t[s] = "WAITING" => \E r \in InGroup(g) : r[2] < s[2] /\ t[r] = "PENDING"
         /\ t[s] # "WAITING" => \A r \in InGroup(g) : r[2] < s[2] => t[r] = "APPROVED"
  <1>1. CASE \A r \in InGroup(g) : t[r] = "APPROVED"
    BY <1>1
  <1>2. CASE \E m \in InGroup(g) : \A r \in InGroup(g) :
               t[r] = IF r[2] < m[2] THEN "APPROVED" ELSE IF r = m THEN "PENDING" ELSE "WAITING"
    <2>1. PICK m \in InGroup(g) : \A r \in InGroup(g) :
            t[r] = IF r[2] < m[2] THEN "APPROVED" ELSE IF r = m THEN "PENDING" ELSE "WAITING"
      BY <1>2
    <2>2. \A r \in InGroup(g) : r[2] \in Nat /\ (r[2] = m[2] => r = m)
      BY SlotFacts, GroupFacts
    <2>3. t[m] = "PENDING"
      BY <2>1, <2>2
    <2>4. t[s] = "WAITING" => m[2] < s[2]
      BY <2>1, <2>2
    <2>5. t[s] # "WAITING" => \A r \in InGroup(g) : r[2] < s[2] => r[2] < m[2]
      BY <2>1, <2>2
    <2> QED BY <2>1, <2>3, <2>4, <2>5
  <1> QED BY <1>1, <1>2 DEF UpTo

(* The tasks that a node gets.                                             *)
LEMMA FirstLine ==
  ASSUME Resolved, setup \in Cases,
         NEW t, t = [s \in Slots |-> processAutoApprovals(Groups[s[1]], s[2])],
         NEW g \in DOMAIN Groups, Groups[g].type = "LINE"
  PROVE  UpTo(t, g)
  <1> DEFINE a == Groups[g]
             fresh == {j \in DOMAIN a.users : ~ shouldAutoApprove(a, a.users[j])}
  <1>1. \A s \in InGroup(g) :
          t[s] = IF \A j \in fresh : s[2] < j THEN "APPROVED"
                 ELSE IF s[2] \in fresh /\ \A j \in fresh : s[2] <= j THEN "PENDING"
                 ELSE "WAITING"
    BY DEF processAutoApprovals, InGroup
  <1>2. /\ fresh \in SUBSET Nat
        /\ \A j \in fresh : <<g, j>> \in InGroup(g)
        /\ \A s \in InGroup(g) : s[2] \in Nat /\ s = <<g, s[2]>>
    BY SlotFacts, GroupFacts
  <1> HIDE DEF fresh
  <1>3. CASE fresh = {}
    BY <1>1, <1>3 DEF UpTo
  <1>4. CASE fresh # {}
    <2>1. PICK n \in fresh : \A j \in fresh : n <= j
      BY <1>2, <1>4, MinIs
    <2>2. PICK m \in InGroup(g) : m = <<g, n>>
      BY <1>2
    <2>3. ASSUME NEW r \in InGroup(g)
          PROVE  t[r] = IF r[2] < m[2] THEN "APPROVED" ELSE IF r = m THEN "PENDING" ELSE "WAITING"
      <3>1. m[2] = n /\ n \in Nat /\ r[2] \in Nat /\ (r[2] = n <=> r = m)
        BY <1>2, <2>2
      <3>2. (\A j \in fresh : r[2] < j) <=> r[2] < n
        BY <1>2, <2>1, <3>1
      <3>3. (r[2] \in fresh /\ \A j \in fresh : r[2] <= j) <=> r[2] = n
        BY <1>2, <2>1, <3>1
      <3> QED BY <1>1, <3>1, <3>2, <3>3
    <2> QED BY <2>3 DEF UpTo
  <1> QED BY <1>3, <1>4

LEMMA FirstRole ==
  ASSUME Resolved, setup \in Cases,
         NEW t, t = [s \in Slots |-> processAutoApprovals(Groups[s[1]], s[2])],
         NEW g \in DOMAIN Groups, Groups[g].type = "ANY"
  PROVE  \/ \A r \in InGroup(g) : t[r] = "PENDING"
         \/ /\ \A r \in InGroup(g) : t[r] \in {"APPROVED", "CANCELLED"}
            /\ \E r \in InGroup(g) : t[r] = "APPROVED"
  <1> DEFINE a == Groups[g]
             fresh == {j \in DOMAIN a.users : ~ shouldAutoApprove(a, a.users[j])}
             known == DOMAIN a.users \ fresh
  <1>1. \A s \in InGroup(g) :
          t[s] = IF known = {} THEN "PENDING"
                 ELSE IF s[2] = Min(known) THEN "APPROVED" ELSE "CANCELLED"
    BY DEF processAutoApprovals, InGroup
  <1>2. known \in SUBSET Nat /\ \A j \in known : <<g, j>> \in InGroup(g)
    BY SlotFacts, GroupFacts
  <1> HIDE DEF known
  <1>3. CASE known = {}
    BY <1>1, <1>3
  <1>4. CASE known # {}
    <2>1. <<g, Min(known)>> \in InGroup(g)
      BY <1>2, <1>4, MinIs
    <2>2. t[<<g, Min(known)>>] = "APPROVED"
      BY <1>1, <1>4, <2>1
    <2> QED BY <1>1, <1>4, <2>1, <2>2
  <1> QED BY <1>3, <1>4

LEMMA FirstShape ==
  ASSUME Resolved, setup \in Cases,
         NEW t, t = [s \in Slots |-> processAutoApprovals(Groups[s[1]], s[2])]
  PROVE  ShapeIn(t)
  <1>1. ASSUME NEW s \in Slots, Groups[s[1]].type = "LINE"
        PROVE  /\ t[s] \in {"WAITING", "PENDING", "APPROVED"}
               /\ t[s] = "WAITING" => \E r \in InGroup(s[1]) : r[2] < s[2] /\ t[r] = "PENDING"
               /\ t[s] # "WAITING" => \A r \in InGroup(s[1]) : r[2] < s[2] => t[r] = "APPROVED"
    <2>1. s \in InGroup(s[1]) /\ s[1] \in DOMAIN Groups
      BY SlotFacts
    <2>2. UpTo(t, s[1])
      BY <1>1, <2>1, FirstLine
    <2> QED BY <2>1, <2>2, UpToMeans
  <1>2. \A s \in Slots : Groups[s[1]].type = "ALL" => t[s] \in {"PENDING", "APPROVED"}
    BY DEF processAutoApprovals
  <1>3. ASSUME NEW s \in Slots, Groups[s[1]].type = "ANY"
        PROVE  /\ t[s] \in {"PENDING", "APPROVED", "CANCELLED"}
               /\ t[s] = "CANCELLED" => \E r \in InGroup(s[1]) : t[r] = "APPROVED"
               /\ t[s] = "PENDING" => \A r \in InGroup(s[1]) : t[r] = "PENDING"
    <2>1. s \in InGroup(s[1]) /\ s[1] \in DOMAIN Groups
      BY SlotFacts
    <2> QED BY <1>3, <2>1, FirstRole
  <1>4. \A s \in Slots : Groups[s[1]].type \in {"LINE", "ALL", "ANY"}
    BY Typed
  <1>5. OrderIn(t)
    BY <1>1, SlotFacts DEF OrderIn
  <1> QED BY <1>1, <1>2, <1>3, <1>4, <1>5 DEF ShapeIn, StatusesOf

LEMMA FirstGood ==
  ASSUME Resolved, NoPriorAlternative, setup \in Cases,
         NEW t, t = [s \in Slots |-> processAutoApprovals(Groups[s[1]], s[2])]
  PROVE  GoodIn(t, IF checkApprovalNodeCompletion(t) THEN "APPROVED" ELSE "PENDING")
  <1>1. ShapeIn(t) /\ (checkApprovalNodeCompletion(t) <=> isApprovalNodeCompleted(t))
    BY FirstShape, ChecksAgree
  <1>2. CASE ~ checkApprovalNodeCompletion(t)
    BY <1>1, <1>2 DEF GoodIn
  <1>3. CASE checkApprovalNodeCompletion(t) /\ setup.logic = "AND"
    <2>1. Remaining(t) = {}
      BY <1>1, <1>3, CompletedMeans
    <2>2. QuietIn(t)
      BY <2>1, SlotFacts DEF Remaining, QuietIn
    <2>3. ConsensusIn(t)
      BY <1>1, <1>3, <2>1, ClosedMeans DEF ConsensusIn
    <2> QED BY <1>1, <1>3, <2>2, <2>3 DEF GoodIn, ShapeIn
  <1>4. CASE checkApprovalNodeCompletion(t) /\ setup.logic # "AND"
    <2>1. setup.prior = {} /\ \A a, user : ~ shouldAutoApprove(a, user)
      BY <1>4, CaseAssumption DEF NoPriorAlternative, shouldAutoApprove
    <2>2. PICK g \in DOMAIN Groups : g \notin Remaining(t)
      BY <1>1, <1>4, CompletedMeans DEF Remaining
    <2>3. \A s \in InGroup(g) : s \in Slots /\ s[1] = g /\ t[s] \notin Undecided
      BY <2>2, SlotFacts DEF Remaining
    <2>4. PICK s \in InGroup(g) : s[2] = 1
      <3>1. 1 \in DOMAIN Groups[g].users
        BY GroupFacts
      <3>2. <<g, 1>> \in InGroup(g) /\ <<g, 1>>[2] = 1
        BY <3>1, SlotFacts
      <3> QED BY <3>2
    <2>5. s[2] \in DOMAIN Groups[g].users /\ DOMAIN Groups[g].users \subseteq Nat \ {0}
      BY <2>3, SlotFacts, GroupFacts
    <2>6. t[s] = processAutoApprovals(Groups[g], s[2])
      BY <2>3
    <2>7. processAutoApprovals(Groups[g], s[2]) \in Undecided
      BY <2>1, <2>4, <2>5 DEF processAutoApprovals
    <2> QED BY <2>3, <2>6, <2>7
  <1> QED BY <1>2, <1>3, <1>4

(* A request changes undecided tasks only, beside its own.                 *)
LEMMA ChangesUndecided ==
  ASSUME NEW t \in Rows, NEW g, NEW s \in Slots
  PROVE  /\ handleApproval(t, g).tasks[s] # t[s] => t[s] \in Undecided
         /\ handleRejection(t).tasks[s] # t[s] => t[s] \in Undecided
  <1> DEFINE p == Promoted(t, g)
             u == SettledGroup(p, g)
  <1>1. t[s] \notin Undecided => p[s] = t[s]
    BY DEF Promoted, Waiting
  <1> HIDE DEF p
  <1>2. p[s] \notin Undecided => u[s] = p[s]
    BY DEF SettledGroup, Cancelled
  <1> HIDE DEF u
  <1>3. u[s] \notin Undecided => Completed(u)[s] = u[s]
    BY DEF Completed, Cancelled
  <1>4. handleApproval(t, g).tasks \in {p, u, Completed(u)}
    BY DEF handleApproval, Outcome, p, u
  <1>5. t[s] \notin Undecided => handleRejection(t).tasks[s] = t[s]
    BY DEF handleRejection, Outcome, Cancelled
  <1> QED BY <1>1, <1>2, <1>3, <1>4, <1>5

--------------------------------------------------------------------------------

(* The executor's check, group by group.                                   *)
Statuses(t, g) == {t[s] : s \in InGroup(g)}
ExecutorFinds(t, g) ==
  IF ConfigOf(g).type = "LINE" THEN Statuses(t, g) = {"APPROVED"}
  ELSE "APPROVED" \in Statuses(t, g) /\ Statuses(t, g) \cap Undecided = {}

(* As long as the case is the same, what it says of tasks is.              *)
LEMMA SameGoodTasks ==
  ASSUME setup' = setup PROVE GoodIn(tasks, node)' <=> GoodIn(tasks', node')
  <1>1. OrderIn(tasks)' <=> OrderIn(tasks')
    BY SameGroups DEF OrderIn
  <1>2. ShapeIn(tasks)' <=> ShapeIn(tasks')
    BY <1>1, SameGroups DEF ShapeIn
  <1>3. QuietIn(tasks)' <=> QuietIn(tasks')
    BY SameGroups DEF QuietIn
  <1>4. ConsensusIn(tasks)' <=> ConsensusIn(tasks')
    BY SameGroups DEF ConsensusIn, AgreedIn
  <1>5. isApprovalNodeCompleted(tasks)' <=> isApprovalNodeCompleted(tasks')
    <2>1. Remaining(tasks)' = Remaining(tasks')
      BY SameGroups DEF Remaining
    <2>2. isApprovalNodeCompleted(tasks)' <=>
            (IF setup.logic = "AND" THEN Remaining(tasks) = {}
             ELSE Cardinality(Remaining(tasks)) < Len(setup.approvers))'
      BY DEF isApprovalNodeCompleted, Remaining
    <2>3. isApprovalNodeCompleted(tasks') <=>
            IF setup.logic = "AND" THEN Remaining(tasks') = {}
            ELSE Cardinality(Remaining(tasks')) < Len(setup.approvers)
      BY DEF isApprovalNodeCompleted, Remaining
    <2> QED BY <2>1, <2>2, <2>3
  <1>6. checkApprovalNodeCompletion(tasks)' <=> checkApprovalNodeCompletion(tasks')
    <2>1. \A g : ExecutorFinds(tasks, g)' <=> ExecutorFinds(tasks', g)
      <3>1. \A g : Statuses(tasks, g)' = Statuses(tasks', g)
        BY SameGroups DEF Statuses
      <3> QED BY <3>1 DEF ExecutorFinds, ConfigOf
    <2>2. checkApprovalNodeCompletion(tasks)' <=>
            (IF setup.logic = "AND" THEN {g \in DOMAIN Groups : ExecutorFinds(tasks, g)} = DOMAIN Groups
             ELSE {g \in DOMAIN Groups : ExecutorFinds(tasks, g)} # {})'
      BY DEF checkApprovalNodeCompletion, ExecutorFinds, Statuses
    <2>3. checkApprovalNodeCompletion(tasks') <=>
            IF setup.logic = "AND" THEN {g \in DOMAIN Groups : ExecutorFinds(tasks', g)} = DOMAIN Groups
            ELSE {g \in DOMAIN Groups : ExecutorFinds(tasks', g)} # {}
      BY DEF checkApprovalNodeCompletion, ExecutorFinds, Statuses
    <2>4. {g \in DOMAIN Groups : ExecutorFinds(tasks, g)}' = {g \in DOMAIN Groups : ExecutorFinds(tasks', g)}
      BY <2>1, SameGroups
    <2> QED BY <2>2, <2>3, <2>4, SameGroups
  <1> QED BY <1>1, <1>2, <1>3, <1>4, <1>5, <1>6 DEF GoodIn

LEMMA SameGoodSeen ==
  ASSUME setup' = setup, NEW h \in Handlers
  PROVE  /\ GoodIn(Seen(h), "PENDING")' <=> GoodIn(Seen(h)', "PENDING")
         /\ GoodIn(Seen(h), written[h].node)' <=> GoodIn(Seen(h)', written'[h].node)
  <1>1. OrderIn(Seen(h))' <=> OrderIn(Seen(h)')
    BY SameGroups DEF OrderIn
  <1>2. ShapeIn(Seen(h))' <=> ShapeIn(Seen(h)')
    BY <1>1, SameGroups DEF ShapeIn
  <1>3. QuietIn(Seen(h))' <=> QuietIn(Seen(h)')
    BY SameGroups DEF QuietIn
  <1>4. ConsensusIn(Seen(h))' <=> ConsensusIn(Seen(h)')
    BY SameGroups DEF ConsensusIn, AgreedIn
  <1>5. isApprovalNodeCompleted(Seen(h))' <=> isApprovalNodeCompleted(Seen(h)')
    <2>1. Remaining(Seen(h))' = Remaining(Seen(h)')
      BY SameGroups DEF Remaining
    <2>2. isApprovalNodeCompleted(Seen(h))' <=>
            (IF setup.logic = "AND" THEN Remaining(Seen(h)) = {}
             ELSE Cardinality(Remaining(Seen(h))) < Len(setup.approvers))'
      BY DEF isApprovalNodeCompleted, Remaining
    <2>3. isApprovalNodeCompleted(Seen(h)') <=>
            IF setup.logic = "AND" THEN Remaining(Seen(h)') = {}
            ELSE Cardinality(Remaining(Seen(h)')) < Len(setup.approvers)
      BY DEF isApprovalNodeCompleted, Remaining
    <2> QED BY <2>1, <2>2, <2>3
  <1>6. checkApprovalNodeCompletion(Seen(h))' <=> checkApprovalNodeCompletion(Seen(h)')
    <2>1. \A g : ExecutorFinds(Seen(h), g)' <=> ExecutorFinds(Seen(h)', g)
      <3>1. \A g : Statuses(Seen(h), g)' = Statuses(Seen(h)', g)
        BY SameGroups DEF Statuses
      <3> QED BY <3>1 DEF ExecutorFinds, ConfigOf
    <2>2. checkApprovalNodeCompletion(Seen(h))' <=>
            (IF setup.logic = "AND" THEN {g \in DOMAIN Groups : ExecutorFinds(Seen(h), g)} = DOMAIN Groups
             ELSE {g \in DOMAIN Groups : ExecutorFinds(Seen(h), g)} # {})'
      BY DEF checkApprovalNodeCompletion, ExecutorFinds, Statuses
    <2>3. checkApprovalNodeCompletion(Seen(h)') <=>
            IF setup.logic = "AND" THEN {g \in DOMAIN Groups : ExecutorFinds(Seen(h)', g)} = DOMAIN Groups
            ELSE {g \in DOMAIN Groups : ExecutorFinds(Seen(h)', g)} # {}
      BY DEF checkApprovalNodeCompletion, ExecutorFinds, Statuses
    <2>4. {g \in DOMAIN Groups : ExecutorFinds(Seen(h), g)}' = {g \in DOMAIN Groups : ExecutorFinds(Seen(h)', g)}
      BY <2>1, SameGroups
    <2> QED BY <2>2, <2>3, <2>4, SameGroups
  <1> QED BY <1>1, <1>2, <1>3, <1>4, <1>5, <1>6 DEF GoodIn

LEMMA SameGood ==
  ASSUME setup' = setup
  PROVE  /\ GoodIn(tasks, node)' <=> GoodIn(tasks', node')
         /\ \A h \in Handlers :
              /\ GoodIn(Seen(h), "PENDING")' <=> GoodIn(Seen(h)', "PENDING")
              /\ GoodIn(Seen(h), written[h].node)' <=> GoodIn(Seen(h)', written'[h].node)
  BY SameGoodTasks, SameGoodSeen

LEMMA InitTurn == Init => TurnInv
  <1> SUFFICES ASSUME Init PROVE TurnInv
    OBVIOUS
  <1>1. IInv
    BY InitIInv
  <1> QED BY <1>1 DEF Init, TurnInv, Turn

LEMMA ExecuteTurn ==
  ASSUME Resolved, NoPriorAlternative, TurnInv, IInv', execute
  PROVE  TurnInv'
  <1> DEFINE t == [s \in Slots |-> processAutoApprovals(Groups[s[1]], s[2])]
  <1>1. setup' = setup /\ setup \in Cases /\ tasks' = t
        /\ node' = IF checkApprovalNodeCompletion(t) THEN "APPROVED" ELSE "PENDING"
    BY SameGroups DEF execute, TurnInv, IInv, TypeOK, checkApprovalNodeCompletion, ConfigOf
  <1>2. GoodIn(t, node')
    BY <1>1, FirstGood
  <1>3. GoodIn(tasks, node)'
    BY <1>1, <1>2, SameGood
  <1>4. \A h \in Handlers : pc[h] = "idle" /\ pc'[h] = "idle"
    BY DEF execute, TurnInv, IInv, Busy
  <1> QED BY <1>3, <1>4 DEF TurnInv, Turn

LEMMA ArriveTurn ==
  ASSUME Resolved, OneHandler, TurnInv, IInv', NEW h \in Handlers, NEW s \in DOMAIN tasks,
         NEW approve \in BOOLEAN, validateApprovalRequest(h, s, approve)
  PROVE  TurnInv'
  <1>1. /\ UNCHANGED <<setup, node, tasks, written>> /\ node \in {"PENDING", "APPROVED"}
        /\ pc'[h] = "validated" /\ request'[h].task = s /\ tasks[s] = "PENDING"
    BY DEF validateApprovalRequest, TurnInv, IInv, TypeOK
  <1>2. s \in Slots
    BY <1>1 DEF TurnInv, IInv, TypeOK
  <1>3. node = "PENDING"
    BY <1>1, <1>2 DEF TurnInv, GoodIn, QuietIn
  <1>4. GoodIn(tasks, node)'
    BY <1>1, SameGood DEF TurnInv
  <1>5. Turn(h)'
    BY <1>1, <1>3 DEF Turn
  <1>6. \A o \in Handlers : o = h
    BY DEF OneHandler
  <1> QED BY <1>4, <1>5, <1>6 DEF TurnInv

LEMMA UpdateTurn ==
  ASSUME Resolved, OneHandler, TurnInv, IInv', NEW h \in Handlers, UpdateTask(h)
  PROVE  TurnInv'
  <1> DEFINE w == [s \in {request[h].task} |-> IF request[h].approve THEN "APPROVED" ELSE "REJECTED"]
  <1>1. /\ UNCHANGED <<setup, node, tasks, request>> /\ pc[h] = "validated"
        /\ pc'[h] = "updated"
        /\ written' = [written EXCEPT ![h].tasks = w]
    BY DEF UpdateTask, TurnInv, IInv, TypeOK
  <1>5. written'[h].tasks = w
    BY <1>1 DEF TurnInv, IInv, TypeOK
  <1>2. GoodIn(tasks, node)'
    BY <1>1, SameGood DEF TurnInv, IInv, Busy
  <1>3. Turn(h)'
    BY <1>1, <1>5 DEF TurnInv, Turn, Locked
  <1>4. \A o \in Handlers : o = h
    BY DEF OneHandler
  <1> QED BY <1>2, <1>3, <1>4 DEF TurnInv

(* What a request that is alone finds.                                     *)
LEMMA ResultGood ==
  ASSUME Resolved, TurnInv, NEW h \in Handlers, pc[h] = "updated"
  PROVE  /\ Result(h).node \in Results /\ Result(h).tasks \in Rows
         /\ GoodIn(Result(h).tasks, IF Result(h).node = "NONE" THEN "PENDING" ELSE Result(h).node)
         /\ \A r \in Slots : r # request[h].task /\ Result(h).tasks[r] # tasks[r] =>
              tasks[r] \in Undecided
  <1> DEFINE s == request[h].task
             t == Seen(h)
             status == IF request[h].approve THEN "APPROVED" ELSE "REJECTED"
  <1>1. /\ setup \in Cases /\ node = "PENDING" /\ tasks \in Rows /\ DOMAIN tasks = Slots
        /\ s \in Slots /\ tasks[s] = "PENDING" /\ GoodIn(tasks, "PENDING")
        /\ Locked(h) = {s} /\ written[h].tasks[s] = status
    BY DEF TurnInv, Turn, IInv, Busy, TypeOK, Rows
  <1>2. t \in Rows /\ Result(h).node \in Results /\ Result(h).tasks \in Rows
    BY ResultRows DEF TurnInv
  <1>3. \A r \in Slots : t[r] = IF r = s THEN status ELSE tasks[r]
    BY <1>1 DEF Seen
  <1> HIDE DEF t
  <1>4. CASE request[h].approve
    <2>1. Result(h) = handleApproval(t, s[1])
      BY <1>4 DEF Result, t
    <2>2. \A r \in Slots : t[r] = IF r = s THEN "APPROVED" ELSE tasks[r]
      BY <1>3, <1>4
    <2>3. /\ handleApproval(t, s[1]).node \in {"NONE", "APPROVED"}
          /\ GoodIn(handleApproval(t, s[1]).tasks,
                    IF handleApproval(t, s[1]).node = "NONE" THEN "PENDING"
                    ELSE handleApproval(t, s[1]).node)
      BY <1>1, <1>2, <2>2, ApprovalGood
    <2>4. \A r \in Slots : r # s /\ handleApproval(t, s[1]).tasks[r] # tasks[r] =>
            tasks[r] \in Undecided
      BY <1>2, <1>3, ChangesUndecided
    <2> QED BY <1>2, <2>1, <2>3, <2>4
  <1>5. CASE ~ request[h].approve
    <2>1. Result(h) = handleRejection(t)
      BY <1>5 DEF Result, t
    <2>2. \A r \in Slots : t[r] = IF r = s THEN "REJECTED" ELSE tasks[r]
      BY <1>3, <1>5
    <2>3. handleRejection(t).node = "REJECTED" /\ GoodIn(handleRejection(t).tasks, "REJECTED")
      BY <1>1, <1>2, <2>2, RejectionGood DEF GoodIn
    <2>4. \A r \in Slots : r # s /\ handleRejection(t).tasks[r] # tasks[r] => tasks[r] \in Undecided
      BY <1>2, <1>3, ChangesUndecided
    <2> QED BY <1>2, <2>1, <2>3, <2>4
  <1> QED BY <1>4, <1>5

LEMMA DecideTurn ==
  ASSUME Resolved, OneHandler, TurnInv, IInv', NEW h \in Handlers, Decide(h)
  PROVE  TurnInv'
  <1> DEFINE s == request[h].task
             done == Result(h)
             rows == Writes(h) \cup {s}
  <1>1. /\ pc[h] = "updated" /\ node = "PENDING" /\ tasks[s] = "PENDING" /\ s \in Slots
        /\ DOMAIN tasks = Slots /\ Locked(h) = {s}
    BY DEF Decide, TurnInv, Turn, IInv, Busy, TypeOK
  <1>2. /\ done.tasks \in Rows
        /\ GoodIn(done.tasks, IF done.node = "NONE" THEN "PENDING" ELSE done.node)
        /\ \A r \in Slots : r # s /\ done.tasks[r] # tasks[r] => tasks[r] \in Undecided
    BY <1>1, ResultGood
  <1>3. rows \subseteq Slots /\ \A r \in Slots : r \in rows <=> r = s \/ done.tasks[r] # tasks[r]
    BY <1>1 DEF Writes
  <1>4. /\ UNCHANGED <<setup, node, tasks, request>> /\ pc'[h] = "decided"
        /\ written'[h].node = done.node
        /\ written'[h].tasks = [r \in rows |-> done.tasks[r]]
    BY <1>1 DEF Decide, Outcome, Restrict, TurnInv, IInv, TypeOK
  <1> HIDE DEF rows, done
  <1>5. Seen(h)' = done.tasks /\ Locked(h)' = rows
    <2>1. Locked(h)' = rows
      BY <1>4 DEF Locked
    <2>2. Seen(h)' = [r \in Slots |-> IF r \in rows THEN done.tasks[r] ELSE tasks[r]]
      BY <1>1, <1>4, <2>1 DEF Seen
    <2>3. done.tasks = [r \in Slots |-> done.tasks[r]]
      BY <1>2 DEF Rows
    <2> QED BY <1>3, <2>1, <2>2, <2>3
  <1>6. GoodIn(Seen(h)', IF written'[h].node = "NONE" THEN "PENDING" ELSE written'[h].node)
    BY <1>2, <1>4, <1>5
  <1>7. \A r \in rows : tasks[r] \in Undecided
    BY <1>1, <1>2, <1>3
  <1>8. Turn(h)'
    BY <1>1, <1>4, <1>5, <1>6, <1>7, SameGood DEF Turn
  <1>9. GoodIn(tasks, node)'
    BY <1>1, <1>4, SameGood DEF TurnInv
  <1>10. \A o \in Handlers : o = h
    BY DEF OneHandler
  <1> QED BY <1>8, <1>9, <1>10 DEF TurnInv

LEMMA CommitTurn ==
  ASSUME OneHandler, TurnInv, IInv', NEW h \in Handlers, Commit(h)
  PROVE  TurnInv'
  <1>1. /\ setup' = setup /\ tasks' = Seen(h) /\ pc[h] = "decided" /\ pc'[h] = "idle"
        /\ node = "PENDING"
        /\ node' = IF written[h].node = "NONE" THEN "PENDING" ELSE written[h].node
    BY DEF Commit, Finish, TurnInv, Turn, IInv, TypeOK
  <1>2. GoodIn(Seen(h), IF written[h].node = "NONE" THEN "PENDING" ELSE written[h].node)
    BY <1>1 DEF TurnInv, Turn
  <1>3. GoodIn(tasks, node)'
    BY <1>1, <1>2, SameGood
  <1>4. \A o \in Handlers : o = h
    BY DEF OneHandler
  <1> QED BY <1>1, <1>3, <1>4 DEF TurnInv, Turn

LEMMA NextTurn ==
  ASSUME Resolved, OneHandler, NoPriorAlternative
  PROVE  TurnInv /\ [Next]_vars => TurnInv'
  <1> SUFFICES ASSUME TurnInv, [Next]_vars PROVE TurnInv'
    OBVIOUS
  <1>1. IInv'
    BY NextIInv DEF TurnInv
  <1>2. ASSUME NEW h \in Handlers, RollBack(h) PROVE FALSE
    BY <1>2 DEF RollBack, WaitsFor, OneHandler
  <1>3. CASE UNCHANGED vars
    <2>1. \A h \in Handlers : Turn(h)'
      BY <1>3, SameGood DEF vars, TurnInv, Turn, Locked, Seen
    <2>2. node # "NONE" => GoodIn(tasks, node)'
      BY <1>3, SameGood DEF vars, TurnInv
    <2> QED BY <1>1, <1>3, <2>1, <2>2 DEF vars, TurnInv
  <1> QED
    BY <1>1, <1>2, <1>3, ExecuteTurn, ArriveTurn, UpdateTurn, DecideTurn, CommitTurn
    DEF Next, Arrive

(* A node that handles one request at a time, whatever the types of its    *)
(* approvers and whether they reject, is APPROVED only by consensus.       *)
THEOREM ConsensusOneAtATime ==
  ASSUME Resolved, OneHandler, NoPriorAlternative PROVE Spec => []ApprovedByConsensus
  <1>1. TurnInv => ApprovedByConsensus
    BY DEF TurnInv, GoodIn, ApprovedByConsensus, Consensus, GroupAgreed, ConsensusIn, AgreedIn
  <1>2. TurnInv /\ [Next]_vars => TurnInv'
    BY NextTurn
  <1> QED BY <1>1, <1>2, InitTurn, PTL DEF Spec

(* A decided node leaves no task to decide.                                *)
THEOREM QuietOneAtATime ==
  ASSUME Resolved, OneHandler, NoPriorAlternative PROVE Spec => []DecidedNodeIsQuiet
  <1>1. TurnInv => DecidedNodeIsQuiet
    BY DEF TurnInv, GoodIn, DecidedNodeIsQuiet, QuietIn
  <1>2. TurnInv /\ [Next]_vars => TurnInv'
    BY NextTurn
  <1> QED BY <1>1, <1>2, InitTurn, PTL DEF Spec

(* In a reporting line nobody is asked or decides before those before him. *)
THEOREM LinesInOrder ==
  ASSUME Resolved, OneHandler, NoPriorAlternative PROVE Spec => []LineInOrder
  <1>1. TurnInv => LineInOrder
    <2> SUFFICES ASSUME TurnInv, node # "NONE" PROVE OrderIn(tasks)
      BY DEF LineInOrder, OrderIn
    <2>1. GoodIn(tasks, node) /\ node \in {"PENDING", "APPROVED", "REJECTED"}
      BY DEF TurnInv, IInv, TypeOK
    <2> QED BY <2>1 DEF GoodIn, ShapeIn
  <1>2. TurnInv /\ [Next]_vars => TurnInv'
    BY NextTurn
  <1> QED BY <1>1, <1>2, InitTurn, PTL DEF Spec

(* The executor and the approval handler agree on whether it is complete.  *)
THEOREM ChecksAgreeOneAtATime ==
  ASSUME Resolved, OneHandler, NoPriorAlternative PROVE Spec => []CompletionChecksAgree
  <1>1. TurnInv => CompletionChecksAgree
    <2> SUFFICES ASSUME TurnInv, node \in {"PENDING", "APPROVED"}
                 PROVE  node = "APPROVED" <=> checkApprovalNodeCompletion(tasks)
      BY DEF CompletionChecksAgree
    <2>1. GoodIn(tasks, node) /\ setup \in Cases
      BY DEF TurnInv, IInv, TypeOK
    <2> QED BY <2>1, ChecksAgree DEF GoodIn
  <1>2. TurnInv /\ [Next]_vars => TurnInv'
    BY NextTurn
  <1> QED BY <1>1, <1>2, InitTurn, PTL DEF Spec

(* A task is decided once: only a pending or waiting one changes.          *)
THEOREM DecidedOnceOneAtATime ==
  ASSUME Resolved, OneHandler, NoPriorAlternative PROVE Spec => DecidedOnce
  <1> DEFINE Once == \A s \in DOMAIN tasks : tasks[s] \notin Undecided => tasks'[s] = tasks[s]
  <1>1. TurnInv /\ [Next]_vars => [Once]_vars
    <2> SUFFICES ASSUME TurnInv, Next PROVE Once
      OBVIOUS
    <2>1. CASE UNCHANGED tasks
      BY <2>1
    <2>2. CASE execute
      <3>1. DOMAIN tasks = {}
        BY <2>2 DEF execute, TurnInv, IInv, TypeOK
      <3> QED BY <3>1
    <2>3. ASSUME NEW h \in Handlers, Commit(h) PROVE Once
      <3>1. tasks' = Seen(h) /\ \A s \in Locked(h) : tasks[s] \in Undecided
        BY <2>3 DEF Commit, TurnInv, Turn
      <3> QED BY <3>1 DEF Seen
    <2> QED BY <2>1, <2>2, <2>3 DEF Next, Arrive, validateApprovalRequest, UpdateTask, Decide, RollBack
  <1>2. TurnInv /\ [Next]_vars => TurnInv'
    BY NextTurn
  <1> QED BY <1>1, <1>2, InitTurn, PTL DEF Spec, DecidedOnce

(* While it is pending and nobody is at work, somebody can decide it.      *)
THEOREM SomebodyIsAsked ==
  ASSUME Resolved, OneHandler, NoPriorAlternative PROVE Spec => []NoStuckNode
  <1>1. TurnInv => NoStuckNode
    <2> SUFFICES ASSUME TurnInv, node = "PENDING" PROVE \E s \in Slots : tasks[s] = "PENDING"
      BY DEF NoStuckNode
    <2>1. setup \in Cases /\ ShapeIn(tasks) /\ ~ isApprovalNodeCompleted(tasks)
      BY DEF TurnInv, GoodIn, IInv, TypeOK
    <2>2. PICK a \in ToSet(setup.approvers) : a.users # << >>
      BY <2>1, CaseAssumption
    <2>3. DOMAIN Groups # {}
      BY <2>1, <2>2, GroupFacts DEF ToSet
    <2>4. PICK g \in Remaining(tasks) : TRUE
      BY <2>1, <2>3, CompletedMeans
    <2>5. PICK s \in Slots : s[1] = g /\ tasks[s] \in Undecided
      BY <2>4 DEF Remaining, InGroup
    <2>6. tasks[s] = "WAITING" => \E r \in InGroup(s[1]) : tasks[r] = "PENDING"
      BY <2>1 DEF ShapeIn
    <2> QED BY <2>5, <2>6 DEF InGroup
  <1>2. TurnInv /\ [Next]_vars => TurnInv'
    BY NextTurn
  <1> QED BY <1>1, <1>2, InitTurn, PTL DEF Spec

================================================================================
