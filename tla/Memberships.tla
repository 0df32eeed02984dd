------------------------------- MODULE Memberships -----------------------------
(***************************************************************************)
(* The memberships of one user in one unit of the organization: rows with  *)
(* a role and a range of dates, which includes its start and not its end.  *)
(* They are written by requests of administrators, which check for an      *)
(* overlap and then write, with nothing that keeps the two together; by    *)
(* the import from another system, which cuts the rows it finds; and by    *)
(* the choice of a user's default unit, which does not look for an overlap.*)
(* Every query asks for one user and one unit, so that others play no part.*)
(***************************************************************************)
EXTENDS Naturals

CONSTANTS
  Ids,      \* of the rows; their number bounds the model
  Horizon,  \* bound of the model on dates
  Requests, \* the requests that may be under way at the same time
  Ranges,   \* bound of the model on the dates of new rows, <<start, end>>
  Changes,  \* and on what an update names, <<type, start, end>>
  Racing    \* bound of the model on the kinds of requests that overtake others

Kinds   == {"create", "update", "import", "sync"}
Types   == {"USER", "HEAD"}
Ways    == {"swallow", "head", "tail"}  \* how the import cuts a row
Dates   == 0 .. Horizon
Forever == Horizon + 1        \* INDEFINITE_MEMBERSHIP_END_DATE
Ends    == 1 .. Forever
Keep    == Horizon + 2        \* a field that a request does not name

ASSUME MembershipsAssumption ==
  /\ Horizon \in Nat \ {0}
  /\ Ranges \subseteq Dates \X Ends
  /\ Changes \subseteq (Types \cup {"none"}) \X (Dates \cup {Keep}) \X (Ends \cup {Keep})
  /\ Racing \subseteq Kinds

VARIABLES
  now,
  rows,    \* of org_memberships; `checked` is history, see Checked
  request  \* what it asks for and has found; fresh is history: nothing was
           \* written since it looked

vars == <<now, rows, request>>

Row   == [type : Types \cup {"none"}, start : Dates, end : Ends, checked : BOOLEAN]
NoRow == [type |-> "none", start |-> 0, end |-> Forever, checked |-> TRUE]

Request(kind, type, start, end, found) ==
  [kind |-> kind, type |-> type, start |-> start, end |-> end, found |-> found,
   ways |-> [i \in Ids |-> "swallow"], fresh |-> TRUE]

NoRequest == [Request("none", "none", Keep, Keep, {}) EXCEPT !.fresh = FALSE]

TypeOK ==
  /\ now \in 1 .. Horizon
  /\ rows \in [Ids -> Row]
  /\ request \in [Requests ->
       [kind : Kinds \cup {"none"}, type : Types \cup {"none"},
        start : Dates \cup {Keep}, end : Ends \cup {Keep}, found : SUBSET Ids,
        ways : [Ids -> Ways], fresh : BOOLEAN]]

Exists(i) == rows[i].type # "none"

Init ==
  /\ now = 1
  /\ rows = [i \in Ids |-> NoRow]
  /\ request = [q \in Requests |-> NoRequest]

--------------------------------------------------------------------------------
(* A request looks at the rows.                                            *)

(* A bound of the model: only kinds in Racing overtake others.             *)
MayBegin(kind) ==
  kind \in Racing \/ \A q \in Requests : request[q].kind \in Racing \cup {"none"}

Begin(q, r) ==
  /\ request[q].kind = "none" /\ MayBegin(r.kind)
  /\ request' = [request EXCEPT ![q] = r]
  /\ UNCHANGED <<now, rows>>

(* Mutant: rows that touch count as well, rows inside the range do not.    *)
Overlapping_Inside(s, e) == {i \in Ids : Exists(i) /\ rows[i].start < s /\ rows[i].end > s}

Overlapping(s, e) == {i \in Ids : Exists(i) /\ rows[i].start < e /\ rows[i].end > s}

createOrgMembership(q, type, s, e) ==
  /\ Overlapping(s, e) = {}
  /\ Begin(q, Request("create", type, s, e, {}))

(* What a field is after an update.                                        *)
Updated(old, new) == IF new = Keep THEN old ELSE new

updateOrgMembership(q, i, type, s, e) ==
  /\ Exists(i)
  /\ Overlapping(Updated(rows[i].start, s), Updated(rows[i].end, e)) \subseteq {i}
  /\ Begin(q, Request("update", type, s, e, {i}))

(* Mutant: a row that starts with the new one is cut at its end.           *)
Way_Late(l, s, e) ==
  IF s < l.start THEN IF e >= l.end THEN "swallow" ELSE "head" ELSE "tail"

(* The new row swallows an old one, or cuts its beginning or its end.      *)
Way(l, s, e) ==
  IF s <= l.start THEN IF e >= l.end THEN "swallow" ELSE "head" ELSE "tail"

(* How the rows are cut is told from the dates they have when found.       *)
importMembership(q, type, s, e) ==
  LET found == Overlapping(s, e)
      ways  == [i \in Ids |-> IF i \in found THEN Way(rows[i], s, e) ELSE "swallow"]
  IN  Begin(q, [Request("import", type, s, e, found) EXCEPT !.ways = ways])

(* A row of this role that has not ended, if there is one.                 *)
syncMembershipAndPreference(q) ==
  LET open == {i \in Ids : rows[i].type = "USER" /\ rows[i].end > now}
  IN  \/ \E i \in open : Begin(q, Request("sync", "USER", now, Forever, {i}))
      \/ open = {} /\ Begin(q, Request("sync", "USER", now, Forever, {}))

--------------------------------------------------------------------------------
(* It writes, unless a row it has found is gone.                           *)

Write(q, written) ==
  /\ \A i \in request[q].found : Exists(i)
  /\ rows' = written
  /\ request' = [p \in Requests |->
       IF p = q THEN NoRequest ELSE [request[p] EXCEPT !.fresh = FALSE]]
  /\ UNCHANGED now

Fail(q) ==
  /\ request[q].kind # "none"
  /\ request' = [request EXCEPT ![q] = NoRequest]
  /\ UNCHANGED <<now, rows>>

(* The last write of the row followed a check for overlaps that held.      *)
Checked(r) == r.kind # "sync" /\ r.fresh

NewRow(r) == [type |-> r.type, start |-> r.start, end |-> r.end, checked |-> Checked(r)]

Unused == {i \in Ids : ~Exists(i)}

insertMembership(q) ==
  /\ request[q].kind \in {"create", "sync"} /\ request[q].found = {}
  /\ \E i \in Unused : Write(q, [rows EXCEPT ![i] = NewRow(request[q])])

(* The fields that are named are written, whatever the others are by now.  *)
changeMembership(q) ==
  LET r == request[q] IN
  /\ r.kind = "update"
  /\ \E i \in r.found :
       Write(q, [rows EXCEPT ![i] =
         [type |-> IF r.type = "none" THEN @.type ELSE r.type,
          start |-> Updated(@.start, r.start), end |-> Updated(@.end, r.end), checked |-> Checked(r)]])

extendMembership(q) ==
  /\ request[q].kind = "sync"
  /\ \E i \in request[q].found :
       Write(q, [rows EXCEPT ![i].end = Forever, ![i].checked = FALSE])

Moved(l, s, e, r) == [l EXCEPT !.start = s, !.end = e, !.checked = @ /\ r.fresh]

(* Only the one date is written, whatever the other is by now.             *)
Cut(l, way, r) ==
  CASE way = "swallow" -> NoRow
    [] way = "head"    -> Moved(l, r.end, l.end, r)
    [] way = "tail"    -> Moved(l, l.start, r.start, r)

replaceMemberships(q) ==
  LET r == request[q] IN
  /\ r.kind = "import"
  /\ \E i \in Unused :
       Write(q, [j \in Ids |->
         IF j = i THEN NewRow(r) ELSE IF j \in r.found THEN Cut(rows[j], r.ways[j], r) ELSE rows[j]])

--------------------------------------------------------------------------------
(* Writes that look at nothing, or at their own row.                       *)

Overtake(written) ==
  /\ rows' = written
  /\ request' = [p \in Requests |-> [request[p] EXCEPT !.fresh = FALSE]]
  /\ UNCHANGED now

(* It ends now, also if it had ended before.                               *)
deleteOrgMembership(i) ==
  /\ Exists(i)
  /\ Overtake([rows EXCEPT ![i].end = now, ![i].checked = @ /\ rows[i].end >= now])

(* As the import does, which leaves alone what has ended.                  *)
closeMembership(i) ==
  /\ Exists(i) /\ rows[i].end > now
  /\ Overtake([rows EXCEPT ![i].end = now])

hardDeleteOrgMembership(i) == Exists(i) /\ Overtake([rows EXCEPT ![i] = NoRow])

Tick == now < Horizon /\ now' = now + 1 /\ UNCHANGED <<rows, request>>

Next ==
  \/ \E q \in Requests :
       \/ \E type \in Types, r \in Ranges :
            createOrgMembership(q, type, r[1], r[2]) \/ importMembership(q, type, r[1], r[2])
       \/ \E i \in Ids, c \in Changes : updateOrgMembership(q, i, c[1], c[2], c[3])
       \/ syncMembershipAndPreference(q)
       \/ insertMembership(q) \/ changeMembership(q) \/ extendMembership(q)
       \/ replaceMemberships(q) \/ Fail(q)
  \/ \E i \in Ids : deleteOrgMembership(i) \/ closeMembership(i) \/ hardDeleteOrgMembership(i)
  \/ Tick

Spec == Init /\ [][Next]_vars

--------------------------------------------------------------------------------
Covers(row, t) == row.type # "none" /\ row.start <= t /\ t < row.end

(* Whether two rows have a day in common.                                  *)
Meet(k, l) == \E t \in Dates : Covers(k, t) /\ Covers(l, t)

(* A user has one membership of a unit at a time, in whichever role: the   *)
(* rule of the unit service.  What breaks it is told by the rows: one that *)
(* was written for a default unit, by a request that had been overtaken,   *)
(* or whose end was moved to a later day by ending it once more.           *)
OneMembership ==
  \A i, j \in Ids : i # j /\ Meet(rows[i], rows[j]) =>
    ~rows[i].checked \/ ~rows[j].checked

At(table, t) == {i \in Ids : Covers(table[i], t)}

(* The import is the source of truth, as 05-implementation-summary.md:11   *)
(* of the membership notes has it; spec.md:20-22 and :45-55 of             *)
(* bulk-data-import, which it replaces, would refuse the whole import.     *)
(* Nothing that it found is left in the range of its row, though other     *)
(* requests may have moved the dates since it decided how to cut them.     *)
(* When nothing was written in between, its row is alone there, before it  *)
(* nothing changes, and behind it only what had begun before it is lost.   *)
ImportClearsItsRange ==
  [][\A q \in Requests : LET r == request[q] IN
       replaceMemberships(q) /\ r.start < r.end =>
         \E i \in Unused :
           /\ rows'[i].type = r.type
           /\ \A t \in Dates :
                /\ r.start <= t /\ t < r.end => At(rows', t) = {i} \cup (At(rows, t) \ r.found)
                /\ r.fresh =>
                     /\ r.start <= t /\ t < r.end => At(rows', t) = {i}
                     /\ t < r.start => At(rows', t) = At(rows, t)
                     /\ r.end <= t => At(rows', t) = {j \in At(rows, t) : rows[j].start >= r.start}]_vars

================================================================================
