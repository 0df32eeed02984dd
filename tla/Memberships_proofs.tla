-------------------------- MODULE Memberships_proofs ---------------------------
(***************************************************************************)
(* What holds of Memberships for any number of rows, requests and dates.   *)
(***************************************************************************)
EXTENDS Memberships, TLAPS

(* A request that will insert a row has said what is in it, and a row that *)
(* is cut keeps a start and an end.                                        *)
CutsFit(r) ==
  r.kind = "import" => \A i \in r.found : /\ r.ways[i] = "head" => r.end \in Dates
                                          /\ r.ways[i] = "tail" => r.start \in Ends

Complete ==
  \A q \in Requests :
    /\ request[q].kind \in {"create", "import", "sync"} =>
         request[q].type \in Types /\ request[q].start \in Dates /\ request[q].end \in Ends
    /\ CutsFit(request[q])

(* Of a request that has not been overtaken, what it found is still so.    *)
FoundIsSo ==
  \A q \in Requests : LET r == request[q] IN r.fresh =>
    /\ r.kind = "create" => Overlapping(r.start, r.end) = {}
    /\ r.kind = "import" =>
         /\ r.found = Overlapping(r.start, r.end)
         /\ \A i \in r.found : r.ways[i] = Way(rows[i], r.start, r.end)
    /\ r.kind = "update" => \A i \in r.found :
         Overlapping(Updated(rows[i].start, r.start), Updated(rows[i].end, r.end)) \subseteq {i}

IInv == TypeOK /\ Complete /\ FoundIsSo /\ OneMembership

USE MembershipsAssumption DEF Dates, Ends, Forever, Keep, Types, Ways, Kinds, Row, NoRow, Exists

(* The requests there may be.                                              *)
Asked ==
  [kind : Kinds \cup {"none"}, type : Types \cup {"none"},
   start : Dates \cup {Keep}, end : Ends \cup {Keep}, found : SUBSET Ids,
   ways : [Ids -> Ways], fresh : BOOLEAN]

LEMMA Nothing == NoRequest \in Asked /\ NoRequest.kind = "none" /\ ~NoRequest.fresh /\ CutsFit(NoRequest)
  BY DEF NoRequest, Request, Asked, CutsFit

LEMMA InitIInv == Init => IInv
  <1> SUFFICES ASSUME Init PROVE IInv
    OBVIOUS
  <1>2. TypeOK
    BY Nothing DEF Init, TypeOK, Asked
  <1>3. Complete /\ FoundIsSo
    BY Nothing DEF Init, Complete, FoundIsSo
  <1>4. OneMembership
    BY DEF Init, OneMembership, Meet, Covers
  <1> QED BY <1>2, <1>3, <1>4 DEF IInv

(* Rows of which one does not overlap the other have no day in common.     *)
LEMMA Apart ==
  ASSUME NEW k \in Row, NEW l \in Row, ~(l.start < k.end /\ l.end > k.start) PROVE ~Meet(k, l)
  BY DEF Meet, Covers

(* A row that is cut covers no day that it did not.                        *)
LEMMA Within ==
  ASSUME NEW k \in Row, NEW l \in Row, NEW m \in Row,
         k.type = "none" \/ (k.start >= l.start /\ k.end <= l.end), l.type # "none", Meet(k, m)
  PROVE  Meet(l, m)
  BY DEF Meet, Covers

LEMMA MeetSym == ASSUME NEW k, NEW l, Meet(k, l) PROVE Meet(l, k)
  BY DEF Meet

--------------------------------------------------------------------------------
(* A request that begins.                                                  *)

LEMMA BeginTyped ==
  ASSUME TypeOK, Complete, NEW q \in Requests, NEW r, Begin(q, r),
         r \in Asked, CutsFit(r),
         r.kind \in {"create", "import", "sync"} =>
           r.type \in Types /\ r.start \in Dates /\ r.end \in Ends
  PROVE  TypeOK' /\ Complete'
  <1>1. TypeOK'
    BY DEF Begin, TypeOK, Asked
  <1>2. Complete'
    BY DEF Begin, TypeOK, Complete
  <1> QED BY <1>1, <1>2

LEMMA BeginKeeps ==
  ASSUME IInv, NEW q \in Requests, NEW r, Begin(q, r),
         r.kind = "create" => Overlapping(r.start, r.end) = {},
         r.kind = "import" => /\ r.found = Overlapping(r.start, r.end)
                              /\ \A i \in r.found : r.ways[i] = Way(rows[i], r.start, r.end),
         r.kind = "update" => \A i \in r.found :
           Overlapping(Updated(rows[i].start, r.start), Updated(rows[i].end, r.end)) \subseteq {i}
  PROVE  FoundIsSo' /\ OneMembership'
  <1>1. rows' = rows /\ \A s, e : Overlapping(s, e)' = Overlapping(s, e)
    BY DEF Begin, Overlapping
  <1>2. \A p \in Requests : request'[p] = IF p = q THEN r ELSE request[p]
    BY DEF Begin, IInv, TypeOK
  <1>3. FoundIsSo'
    BY <1>1, <1>2, SMTT(40) DEF FoundIsSo, IInv, Updated, Way
  <1>4. OneMembership'
    BY <1>1 DEF OneMembership, Meet, Covers, IInv
  <1> QED BY <1>3, <1>4

LEMMA CreateKeeps ==
  ASSUME IInv, NEW q \in Requests, NEW type \in Types, NEW c \in Ranges,
         createOrgMembership(q, type, c[1], c[2])
  PROVE  IInv'
  <1> DEFINE r == Request("create", type, c[1], c[2], {})
  <1>1. c[1] \in Dates /\ c[2] \in Ends
    OBVIOUS
  <1>2. Begin(q, r) /\ Overlapping(c[1], c[2]) = {}
    BY DEF createOrgMembership
  <1>3. TypeOK' /\ Complete'
    BY <1>1, <1>2, BeginTyped DEF Request, Asked, IInv, CutsFit
  <1>4. FoundIsSo' /\ OneMembership'
    BY <1>2, BeginKeeps DEF Request
  <1> QED BY <1>3, <1>4 DEF IInv

LEMMA ImportKeeps ==
  ASSUME IInv, NEW q \in Requests, NEW type \in Types, NEW c \in Ranges,
         importMembership(q, type, c[1], c[2])
  PROVE  IInv'
  <1> DEFINE found == Overlapping(c[1], c[2])
             ways == [i \in Ids |-> IF i \in found THEN Way(rows[i], c[1], c[2]) ELSE "swallow"]
             r == [Request("import", type, c[1], c[2], found) EXCEPT !.ways = ways]
  <1>1. c[1] \in Dates /\ c[2] \in Ends /\ found \subseteq Ids
    BY DEF Overlapping
  <1>2. Begin(q, r)
    BY DEF importMembership
  <1>3. ways \in [Ids -> Ways] /\ \A i \in found : ways[i] = Way(rows[i], c[1], c[2])
    BY <1>1 DEF Way
  <1>4. rows \in [Ids -> Row]
    BY DEF IInv, TypeOK
  <1> HIDE DEF ways, found
  <1>5. /\ r.kind = "import" /\ r.type = type /\ r.start = c[1] /\ r.end = c[2]
        /\ r.found = found /\ r.ways = ways /\ r \in Asked
    BY <1>1, <1>3 DEF Request, Asked
  <1> HIDE DEF r
  <1>6. CutsFit(r)
    <2> SUFFICES ASSUME NEW i \in found
                 PROVE  (ways[i] = "head" => c[2] \in Dates) /\ (ways[i] = "tail" => c[1] \in Ends)
      BY <1>5 DEF CutsFit
    <2>1. rows[i] \in Row /\ ways[i] = Way(rows[i], c[1], c[2])
      BY <1>1, <1>3, <1>4
    <2> QED BY <1>1, <2>1 DEF Way
  <1>7. TypeOK' /\ Complete'
    BY <1>1, <1>2, <1>5, <1>6, BeginTyped DEF IInv
  <1>8. FoundIsSo' /\ OneMembership'
    BY <1>2, <1>3, <1>5, BeginKeeps DEF found
  <1> QED BY <1>7, <1>8 DEF IInv

LEMMA UpdateKeeps ==
  ASSUME IInv, NEW q \in Requests, NEW i \in Ids, NEW c \in Changes,
         updateOrgMembership(q, i, c[1], c[2], c[3])
  PROVE  IInv'
  <1> DEFINE r == Request("update", c[1], c[2], c[3], {i})
  <1>1. c[1] \in Types \cup {"none"} /\ c[2] \in Dates \cup {Keep} /\ c[3] \in Ends \cup {Keep}
    OBVIOUS
  <1>2. Begin(q, r)
        /\ Overlapping(Updated(rows[i].start, c[2]), Updated(rows[i].end, c[3])) \subseteq {i}
    BY DEF updateOrgMembership
  <1>3. TypeOK' /\ Complete'
    BY <1>1, <1>2, BeginTyped DEF Request, Asked, IInv, CutsFit
  <1>4. FoundIsSo' /\ OneMembership'
    BY <1>2, BeginKeeps DEF Request
  <1> QED BY <1>3, <1>4 DEF IInv

LEMMA SyncKeeps ==
  ASSUME IInv, NEW q \in Requests, syncMembershipAndPreference(q) PROVE IInv'
  <1>1. PICK found \in SUBSET Ids : Begin(q, Request("sync", "USER", now, Forever, found))
    <2> DEFINE open == {i \in Ids : rows[i].type = "USER" /\ rows[i].end > now}
    <2>1. CASE \E i \in open : Begin(q, Request("sync", "USER", now, Forever, {i}))
      <3>1. PICK i \in open : Begin(q, Request("sync", "USER", now, Forever, {i}))
        BY <2>1
      <3>2. {i} \in SUBSET Ids
        OBVIOUS
      <3> QED BY <3>1, <3>2
    <2>2. CASE Begin(q, Request("sync", "USER", now, Forever, {}))
      BY <2>2
    <2> QED BY <2>1, <2>2 DEF syncMembershipAndPreference
  <1>2. now \in Dates /\ Forever \in Ends
    BY DEF IInv, TypeOK
  <1> DEFINE r == Request("sync", "USER", now, Forever, found)
  <1>3. TypeOK' /\ Complete'
    <2>1. r.type \in Types /\ r.start \in Dates /\ r.end \in Ends
      BY <1>2 DEF Request
    <2>2. r \in Asked
      BY <1>2 DEF Request, Asked
    <2>3. CutsFit(r)
      BY DEF Request, CutsFit
    <2> HIDE DEF r
    <2> QED BY <1>1, <2>1, <2>2, <2>3, BeginTyped DEF IInv, r
  <1>4. FoundIsSo' /\ OneMembership'
    BY <1>1, BeginKeeps DEF Request
  <1> QED BY <1>3, <1>4 DEF IInv

--------------------------------------------------------------------------------
(* A request that writes overtakes every other.                            *)

LEMMA Overtaken ==
  ASSUME IInv,
         \A p \in Requests : request'[p] = NoRequest \/ request'[p] = [request[p] EXCEPT !.fresh = FALSE]
  PROVE  /\ \A p \in Requests : request'[p] \in Asked /\ ~request'[p].fresh
         /\ Complete' /\ FoundIsSo'
  <1>1. \A p \in Requests : request[p] \in Asked
    BY DEF IInv, TypeOK, Asked
  <1>2. ASSUME NEW p \in Requests
        PROVE  /\ request'[p] \in Asked /\ ~request'[p].fresh
               /\ request'[p].kind \in {"create", "import", "sync"} =>
                    request'[p].type \in Types /\ request'[p].start \in Dates /\ request'[p].end \in Ends
               /\ CutsFit(request'[p])
    <2>1. CASE request'[p] = NoRequest
      BY <2>1, Nothing
    <2>2. CASE request'[p] = [request[p] EXCEPT !.fresh = FALSE]
      <3>1. request'[p].kind \in {"create", "import", "sync"} =>
              request'[p].type \in Types /\ request'[p].start \in Dates /\ request'[p].end \in Ends
        BY <1>1, <2>2 DEF Asked, IInv, Complete
      <3>2. request'[p] \in Asked /\ ~request'[p].fresh
        BY <1>1, <2>2 DEF Asked
      <3>3. CutsFit(request'[p])
        BY <1>1, <2>2 DEF Asked, IInv, Complete, CutsFit
      <3> QED BY <3>1, <3>2, <3>3
    <2> QED BY <2>1, <2>2
  <1>3. Complete'
    BY <1>2 DEF Complete, CutsFit
  <1>4. FoundIsSo'
    BY <1>2 DEF FoundIsSo
  <1> QED BY <1>2, <1>3, <1>4

LEMMA WriteKeeps ==
  ASSUME IInv, NEW q \in Requests, NEW T \in [Ids -> Row], Write(q, T),
         \A i, j \in Ids : i # j /\ Meet(T[i], T[j]) => ~T[i].checked \/ ~T[j].checked
  PROVE  IInv'
  <1>1. request' = [p \in Requests |->
                     IF p = q THEN NoRequest ELSE [request[p] EXCEPT !.fresh = FALSE]]
        /\ rows' = T /\ now' = now
    BY DEF Write
  <1>2. \A p \in Requests : request'[p] = NoRequest \/ request'[p] = [request[p] EXCEPT !.fresh = FALSE]
    BY <1>1
  <1>3. (\A p \in Requests : request'[p] \in Asked) /\ Complete' /\ FoundIsSo'
    BY <1>2, Overtaken
  <1>4. TypeOK'
    BY <1>1, <1>3 DEF IInv, TypeOK, Asked
  <1>5. OneMembership'
    BY <1>1 DEF OneMembership, Meet, Covers
  <1> QED BY <1>3, <1>4, <1>5 DEF IInv

LEMMA OvertakeKeeps ==
  ASSUME IInv, NEW T \in [Ids -> Row], Overtake(T),
         \A i, j \in Ids : i # j /\ Meet(T[i], T[j]) => ~T[i].checked \/ ~T[j].checked
  PROVE  IInv'
  <1>1. request' = [p \in Requests |-> [request[p] EXCEPT !.fresh = FALSE]]
        /\ rows' = T /\ now' = now
    BY DEF Overtake
  <1>2. \A p \in Requests : request'[p] = [request[p] EXCEPT !.fresh = FALSE]
    BY <1>1
  <1>3. (\A p \in Requests : request'[p] \in Asked) /\ Complete' /\ FoundIsSo'
    BY <1>2, Overtaken
  <1>4. TypeOK'
    BY <1>1, <1>3 DEF IInv, TypeOK, Asked
  <1>5. OneMembership'
    BY <1>1 DEF OneMembership, Meet, Covers
  <1> QED BY <1>3, <1>4, <1>5 DEF IInv

(* One row that is new or has been moved, apart from the others if checked.*)
LEMMA OneRow ==
  ASSUME IInv, NEW i \in Ids, NEW k \in Row,
         k.checked => \A j \in Ids : j # i => ~Meet(k, rows[j]) \/ ~rows[j].checked,
         NEW T, T = [rows EXCEPT ![i] = k]
  PROVE  /\ T \in [Ids -> Row]
         /\ \A m, n \in Ids : m # n /\ Meet(T[m], T[n]) => ~T[m].checked \/ ~T[n].checked
  <1>1. T \in [Ids -> Row] /\ T[i] = k /\ \A j \in Ids : j # i => T[j] = rows[j]
    BY DEF IInv, TypeOK
  <1>2. ASSUME NEW m \in Ids, NEW n \in Ids, m # n, Meet(T[m], T[n]) PROVE ~T[m].checked \/ ~T[n].checked
    <2>1. CASE m # i /\ n # i
      BY <1>1, <1>2, <2>1 DEF IInv, OneMembership
    <2>2. CASE m = i
      BY <1>1, <1>2, <2>2
    <2>3. CASE n = i
      <3>1. Meet(k, rows[m])
        BY <1>1, <1>2, <2>3, MeetSym
      <3> QED BY <1>1, <1>2, <2>3, <3>1
    <2> QED BY <2>1, <2>2, <2>3
  <1> QED BY <1>1, <1>2

LEMMA InsertKeeps ==
  ASSUME IInv, NEW q \in Requests, insertMembership(q) PROVE IInv'
  <1> DEFINE r == request[q]
             k == NewRow(r)
  <1>1. PICK i \in Unused : Write(q, [rows EXCEPT ![i] = k])
    BY DEF insertMembership
  <1>2. r.kind \in {"create", "sync"} /\ r \in Asked
    BY DEF insertMembership, IInv, TypeOK, Asked
  <1>3. k \in Row
    BY <1>2 DEF NewRow, Checked, IInv, Complete, Asked
  <1>4. ASSUME k.checked, NEW j \in Ids, j # i PROVE ~Meet(k, rows[j])
    <2>1. Overlapping(r.start, r.end) = {}
      BY <1>2, <1>4 DEF NewRow, Checked, IInv, FoundIsSo
    <2>2. rows[j].type = "none" \/ ~(rows[j].start < k.end /\ rows[j].end > k.start)
      BY <2>1 DEF Overlapping, NewRow
    <2>3. CASE rows[j].type = "none"
      BY <2>3 DEF Meet, Covers
    <2>4. CASE rows[j].type # "none"
      <3>1. rows[j] \in Row
        BY DEF IInv, TypeOK
      <3>2. ~(k.start < rows[j].end /\ k.end > rows[j].start)
        BY <1>3, <2>2, <2>4, <3>1
      <3> QED BY <1>3, <3>1, <3>2, Apart
    <2> QED BY <2>3, <2>4
  <1>5. i \in Ids
    BY DEF Unused
  <1> HIDE DEF k
  <1>6. QED BY <1>1, <1>3, <1>4, <1>5, OneRow, WriteKeeps

LEMMA ChangeKeeps ==
  ASSUME IInv, NEW q \in Requests, changeMembership(q) PROVE IInv'
  <1> DEFINE r == request[q]
             Changed(l) == [type |-> IF r.type = "none" THEN l.type ELSE r.type,
                            start |-> Updated(l.start, r.start),
                            end |-> Updated(l.end, r.end), checked |-> Checked(r)]
  <1>1. r \in Asked /\ rows \in [Ids -> Row]
    BY DEF IInv, TypeOK, Asked
  <1>2. PICK i \in r.found : Write(q, [rows EXCEPT ![i] = Changed(rows[i])])
    BY <1>1 DEF changeMembership, Asked
  <1>3. i \in Ids /\ rows[i] \in Row /\ r.kind = "update"
    BY <1>1, <1>2 DEF changeMembership, Asked
  <1> DEFINE k == Changed(rows[i])
  <1>4. k \in Row
    BY <1>1, <1>3 DEF Asked, Updated, Checked
  <1>5. ASSUME k.checked, NEW j \in Ids, j # i PROVE ~Meet(k, rows[j])
    <2>1. Overlapping(k.start, k.end) \subseteq {i}
      BY <1>2, <1>3, <1>5 DEF Checked, IInv, FoundIsSo
    <2>2. rows[j].type = "none" \/ ~(rows[j].start < k.end /\ rows[j].end > k.start)
      BY <2>1, <1>5 DEF Overlapping
    <2>3. CASE rows[j].type = "none"
      BY <2>3 DEF Meet, Covers
    <2>4. CASE rows[j].type # "none"
      <3>1. rows[j] \in Row
        BY <1>1
      <3>2. ~(k.start < rows[j].end /\ k.end > rows[j].start)
        BY <1>4, <2>2, <2>4, <3>1
      <3> QED BY <1>4, <3>1, <3>2, Apart
    <2> QED BY <2>3, <2>4
  <1> HIDE DEF k
  <1>6. Write(q, [rows EXCEPT ![i] = k])
    BY <1>2 DEF k
  <1>7. QED BY <1>3, <1>4, <1>5, <1>6, OneRow, WriteKeeps

LEMMA ExtendKeeps ==
  ASSUME IInv, NEW q \in Requests, extendMembership(q) PROVE IInv'
  <1>1. request[q] \in Asked /\ rows \in [Ids -> Row]
    BY DEF IInv, TypeOK, Asked
  <1>2. PICK i \in request[q].found :
          Write(q, [rows EXCEPT ![i] = [rows[i] EXCEPT !.end = Forever, !.checked = FALSE]])
    BY <1>1 DEF extendMembership, Asked
  <1>3. i \in Ids /\ rows[i] \in Row /\ Forever \in Ends
    BY <1>1, <1>2 DEF Asked
  <1> DEFINE k == [rows[i] EXCEPT !.end = Forever, !.checked = FALSE]
  <1>4. k \in Row /\ ~k.checked
    BY <1>3
  <1> HIDE DEF k
  <1>5. Write(q, [rows EXCEPT ![i] = k])
    BY <1>2 DEF k
  <1>6. QED BY <1>3, <1>4, <1>5, OneRow, WriteKeeps

LEMMA MovedRow ==
  ASSUME NEW l \in Row, NEW r \in Asked, NEW s \in Dates, NEW e \in Ends
  PROVE  LET m == Moved(l, s, e, r) IN
         /\ m \in Row /\ m.type = l.type /\ m.start = s /\ m.end = e
         /\ m.checked => l.checked /\ r.fresh
  <1> DEFINE c == l.checked /\ r.fresh
             m == Moved(l, s, e, r)
  <1>1. c \in BOOLEAN
    OBVIOUS
  <1>2. m = [l EXCEPT !.start = s, !.end = e, !.checked = c]
    BY DEF Moved
  <1> HIDE DEF c, m
  <1>3. m \in Row /\ m.type = l.type /\ m.start = s /\ m.end = e /\ m.checked = c
    BY <1>1, <1>2
  <1> QED BY <1>3 DEF c, m

(* What is left of a row that the import cuts.                             *)
LEMMA CutRow ==
  ASSUME NEW l \in Row, NEW r \in Asked, NEW way \in Ways, r.start \in Dates, r.end \in Ends,
         way = "head" => r.end \in Dates, way = "tail" => r.start \in Ends
  PROVE  /\ Cut(l, way, r) \in Row
         /\ Cut(l, way, r).type # "none" => (Cut(l, way, r).checked => l.checked /\ r.fresh)
         /\ l.start < r.end /\ l.end > r.start /\ way = Way(l, r.start, r.end) =>
              \/ Cut(l, way, r).type = "none"
              \/ /\ Cut(l, way, r).start >= l.start /\ Cut(l, way, r).end <= l.end
                 /\ ~(r.start < Cut(l, way, r).end /\ r.end > Cut(l, way, r).start)
  <1>1. CASE way = "swallow"
    BY <1>1 DEF Cut
  <1>2. CASE way = "head"
    <2> DEFINE n == Moved(l, r.end, l.end, r)
    <2>1. r.end \in Dates /\ l.end \in Ends
      BY <1>2
    <2>2. n \in Row /\ n.type = l.type /\ n.start = r.end /\ n.end = l.end
          /\ (n.checked => l.checked /\ r.fresh)
      BY <2>1, MovedRow
    <2>3. Cut(l, way, r) = n
      BY <1>2 DEF Cut
    <2> HIDE DEF n
    <2>4. way = Way(l, r.start, r.end) => r.start <= l.start /\ ~(r.end >= l.end)
      BY <1>2 DEF Way
    <2> QED BY <2>1, <2>2, <2>3, <2>4
  <1>3. CASE way = "tail"
    <2> DEFINE n == Moved(l, l.start, r.start, r)
    <2>1. l.start \in Dates /\ r.start \in Ends
      BY <1>3
    <2>2. n \in Row /\ n.type = l.type /\ n.start = l.start /\ n.end = r.start
          /\ (n.checked => l.checked /\ r.fresh)
      BY <2>1, MovedRow
    <2>3. Cut(l, way, r) = n
      BY <1>3 DEF Cut
    <2> HIDE DEF n
    <2>4. way = Way(l, r.start, r.end) => ~(r.start <= l.start)
      BY <1>3 DEF Way
    <2> QED BY <2>1, <2>2, <2>3, <2>4
  <1> QED BY <1>1, <1>2, <1>3

(* What an import leaves of the rows there were.                           *)
LEMMA Left ==
  ASSUME IInv, NEW q \in Requests, request[q].kind = "import", NEW j \in Ids,
         NEW l, l = IF j \in request[q].found
                    THEN Cut(rows[j], request[q].ways[j], request[q]) ELSE rows[j]
  PROVE  /\ l \in Row
         /\ l.type # "none" /\ l.checked =>
              rows[j].checked /\ (request[q].fresh \/ l = rows[j])
         /\ request[q].fresh /\ l.type # "none" =>
              /\ rows[j].type # "none" /\ l.start >= rows[j].start /\ l.end <= rows[j].end
              /\ ~(request[q].start < l.end /\ request[q].end > l.start)
  <1> DEFINE r == request[q]
  <1>1. r \in Asked /\ rows[j] \in Row /\ r.start \in Dates /\ r.end \in Ends
    BY DEF IInv, TypeOK, Asked, Complete
  <1>2. /\ r.fresh => r.found = Overlapping(r.start, r.end)
        /\ r.fresh => \A i \in r.found : r.ways[i] = Way(rows[i], r.start, r.end)
    BY DEF IInv, FoundIsSo
  <1>3. CutsFit(r) /\ r.kind = "import"
    BY DEF IInv, Complete
  <1> HIDE DEF r
  <1>4. CASE j \in r.found
    <2> DEFINE way == r.ways[j]
               k == rows[j]
    <2>1. l = Cut(k, way, r)
      BY <1>4 DEF r
    <2>2. /\ k \in Row /\ r.start \in Dates /\ r.end \in Ends /\ r \in Asked
          /\ way \in Ways
          /\ way = "head" => r.end \in Dates
          /\ way = "tail" => r.start \in Ends
      BY <1>1, <1>3, <1>4 DEF CutsFit, Asked
    <2> HIDE DEF way, k
    <2>3. /\ l \in Row
          /\ l.type # "none" => (l.checked => k.checked /\ r.fresh)
          /\ k.start < r.end /\ k.end > r.start /\ way = Way(k, r.start, r.end) =>
               \/ l.type = "none"
               \/ l.start >= k.start /\ l.end <= k.end /\ ~(r.start < l.end /\ r.end > l.start)
      BY <2>1, <2>2, CutRow
    <2>4. r.fresh => /\ rows[j].type # "none" /\ rows[j].start < r.end /\ rows[j].end > r.start
                     /\ r.ways[j] = Way(rows[j], r.start, r.end)
      BY <1>2, <1>4 DEF Overlapping
    <2> QED BY <2>3, <2>4 DEF r, way, k
  <1>5. CASE j \notin r.found
    <2>1. l = rows[j]
      BY <1>5 DEF r
    <2>2. r.fresh /\ rows[j].type # "none" => ~(rows[j].start < r.end /\ rows[j].end > r.start)
      BY <1>2, <1>5 DEF Overlapping
    <2>3. r.fresh /\ rows[j].type # "none" => ~(r.start < rows[j].end /\ r.end > rows[j].start)
      BY <1>1, <2>2
    <2>4. rows[j].start >= rows[j].start /\ rows[j].end <= rows[j].end
      BY <1>1
    <2> QED BY <1>1, <2>1, <2>3, <2>4 DEF r
  <1> QED BY <1>4, <1>5

LEMMA ReplaceKeeps ==
  ASSUME IInv, NEW q \in Requests, replaceMemberships(q) PROVE IInv'
  <1> DEFINE r == request[q]
             left(j) == IF j \in r.found THEN Cut(rows[j], r.ways[j], r) ELSE rows[j]
  <1>1. PICK i \in Unused : Write(q, [j \in Ids |-> IF j = i THEN NewRow(r) ELSE left(j)])
    BY DEF replaceMemberships
  <1>2. r.kind = "import" /\ r \in Asked /\ rows \in [Ids -> Row] /\ i \in Ids
    BY DEF replaceMemberships, IInv, TypeOK, Asked, Unused
  <1> DEFINE k == NewRow(r)
             T == [j \in Ids |-> IF j = i THEN k ELSE left(j)]
  <1>3. k \in Row /\ k.start = r.start /\ k.end = r.end /\ k.checked = r.fresh
    BY <1>2 DEF NewRow, Checked, IInv, Complete, Asked
  <1>4. \A j \in Ids :
          /\ left(j) \in Row
          /\ left(j).type # "none" /\ left(j).checked =>
               rows[j].checked /\ (r.fresh \/ left(j) = rows[j])
          /\ r.fresh /\ left(j).type # "none" =>
               /\ rows[j].type # "none" /\ left(j).start >= rows[j].start /\ left(j).end <= rows[j].end
               /\ ~(r.start < left(j).end /\ r.end > left(j).start)
    BY <1>2, Left
  <1>5. Write(q, T)
    BY <1>1
  <1> HIDE DEF k, left, r
  <1>6. T \in [Ids -> Row] /\ T[i] = k /\ \A j \in Ids : j # i => T[j] = left(j)
    BY <1>2, <1>3, <1>4
  <1> HIDE DEF T
  <1>7. \A j, m : Meet(j, m) => j.type # "none" /\ m.type # "none"
    BY DEF Meet, Covers
  <1>8. ASSUME NEW j \in Ids, NEW m \in Ids, j # i, m # i, j # m,
               Meet(T[j], T[m]), T[j].checked, T[m].checked
        PROVE  FALSE
    <2>1. T[j] = left(j) /\ T[m] = left(m) /\ T[j].type # "none" /\ T[m].type # "none"
      BY <1>6, <1>7, <1>8
    <2>2. rows[j].checked /\ rows[m].checked
      BY <1>4, <1>8, <2>1
    <2>3. Meet(rows[j], rows[m])
      <3>1. CASE ~r.fresh
        BY <1>4, <1>8, <2>1, <3>1
      <3>2. CASE r.fresh
        <4>1. Meet(rows[j], left(m))
          BY <1>2, <1>4, <1>8, <2>1, <3>2, Within
        <4>2. Meet(left(m), rows[j])
          BY <4>1, MeetSym
        <4>3. Meet(rows[m], rows[j])
          BY <1>2, <1>4, <2>1, <3>2, <4>2, Within
        <4> QED BY <4>3, MeetSym
      <3> QED BY <3>1, <3>2
    <2> QED BY <1>8, <2>2, <2>3 DEF IInv, OneMembership
  <1>9. ASSUME NEW m \in Ids, m # i, Meet(k, T[m]), k.checked PROVE FALSE
    <2>1. T[m] = left(m) /\ T[m].type # "none"
      BY <1>6, <1>7, <1>9
    <2>2. ~(k.start < T[m].end /\ k.end > T[m].start) /\ T[m] \in Row
      BY <1>3, <1>4, <1>9, <2>1
    <2> QED BY <1>3, <1>9, <2>2, Apart
  <1>10. ASSUME NEW j \in Ids, NEW m \in Ids, j # m, Meet(T[j], T[m]), T[j].checked, T[m].checked
         PROVE  FALSE
    <2>1. CASE j # i /\ m # i
      BY <1>8, <1>10, <2>1
    <2>2. CASE j = i
      BY <1>6, <1>9, <1>10, <2>2
    <2>3. CASE m = i
      BY <1>6, <1>9, <1>10, <2>3, MeetSym
    <2> QED BY <2>1, <2>2, <2>3
  <1> QED BY <1>5, <1>6, <1>10, WriteKeeps

--------------------------------------------------------------------------------
(* Writes that look at nothing, or at their own row.                       *)

LEMMA DeleteKeeps ==
  ASSUME IInv, NEW i \in Ids, deleteOrgMembership(i) PROVE IInv'
  <1> DEFINE c == rows[i].checked /\ rows[i].end >= now
             k == [rows[i] EXCEPT !.end = now, !.checked = c]
  <1>1. rows \in [Ids -> Row] /\ rows[i] \in Row /\ now \in Ends /\ c \in BOOLEAN
    BY DEF IInv, TypeOK
  <1>2. Overtake([rows EXCEPT ![i] = k])
    BY <1>1 DEF deleteOrgMembership
  <1>3. rows[i].type # "none"
    BY DEF deleteOrgMembership
  <1> HIDE DEF c
  <1>4. k \in Row /\ k.start = rows[i].start /\ k.end = now /\ k.checked = c
    BY <1>1
  <1> HIDE DEF k
  <1>5. ASSUME k.checked, NEW j \in Ids, j # i PROVE ~Meet(k, rows[j]) \/ ~rows[j].checked
    <2>1. rows[i].checked /\ rows[i].end >= now
      BY <1>4, <1>5 DEF c
    <2>2. rows[j] \in Row /\ k.start >= rows[i].start /\ k.end <= rows[i].end
      BY <1>1, <1>4, <2>1
    <2>3. Meet(k, rows[j]) => Meet(rows[i], rows[j])
      BY <1>1, <1>3, <1>4, <2>2, Within
    <2> QED BY <1>5, <2>1, <2>3 DEF IInv, OneMembership
  <1>6. QED BY <1>2, <1>4, <1>5, OneRow, OvertakeKeeps

LEMMA CloseKeeps ==
  ASSUME IInv, NEW i \in Ids, closeMembership(i) PROVE IInv'
  <1> DEFINE k == [rows[i] EXCEPT !.end = now]
  <1>1. rows \in [Ids -> Row] /\ rows[i] \in Row /\ now \in Ends
    BY DEF IInv, TypeOK
  <1>2. Overtake([rows EXCEPT ![i] = k])
    BY <1>1 DEF closeMembership
  <1>3. rows[i].type # "none" /\ rows[i].end > now
    BY DEF closeMembership
  <1>4. k \in Row /\ k.start = rows[i].start /\ k.end = now /\ k.checked = rows[i].checked
    BY <1>1
  <1> HIDE DEF k
  <1>5. ASSUME k.checked, NEW j \in Ids, j # i PROVE ~Meet(k, rows[j]) \/ ~rows[j].checked
    <2>1. rows[j] \in Row /\ k.start >= rows[i].start /\ k.end <= rows[i].end
      BY <1>1, <1>3, <1>4
    <2>2. Meet(k, rows[j]) => Meet(rows[i], rows[j])
      BY <1>1, <1>3, <1>4, <2>1, Within
    <2> QED BY <1>4, <1>5, <2>2 DEF IInv, OneMembership
  <1>6. QED BY <1>2, <1>4, <1>5, OneRow, OvertakeKeeps

LEMMA HardDeleteKeeps ==
  ASSUME IInv, NEW i \in Ids, hardDeleteOrgMembership(i) PROVE IInv'
  <1>1. Overtake([rows EXCEPT ![i] = NoRow])
    BY DEF hardDeleteOrgMembership
  <1>2. NoRow \in Row
    BY DEF NoRow
  <1>3. \A l : ~Meet(NoRow, l)
    BY DEF Meet, Covers, NoRow
  <1> HIDE DEF NoRow
  <1>4. QED BY <1>1, <1>2, <1>3, OneRow, OvertakeKeeps

LEMMA NextIInv == IInv /\ [Next]_vars => IInv'
  <1> SUFFICES ASSUME IInv, [Next]_vars PROVE IInv'
    OBVIOUS
  <1>1. ASSUME NEW q \in Requests, Fail(q) PROVE IInv'
    <2>1. request' = [request EXCEPT ![q] = NoRequest] /\ rows' = rows /\ now' = now
      BY <1>1 DEF Fail
    <2>2. \A p \in Requests : request'[p] = IF p = q THEN NoRequest ELSE request[p]
      BY <2>1 DEF IInv, TypeOK
    <2>3. TypeOK'
      BY <2>1, Nothing DEF IInv, TypeOK, Asked
    <2>4. Complete'
      BY <2>2, Nothing DEF IInv, Complete
    <2>5. \A s, e : Overlapping(s, e)' = Overlapping(s, e)
      BY <2>1 DEF Overlapping
    <2>6. FoundIsSo'
      BY <2>1, <2>2, <2>5, Nothing DEF IInv, FoundIsSo, Updated
    <2>7. OneMembership'
      BY <2>1 DEF IInv, OneMembership, Meet, Covers
    <2> QED BY <2>3, <2>4, <2>6, <2>7 DEF IInv
  <1>2. ASSUME Tick \/ UNCHANGED vars PROVE IInv'
    <2>1. rows' = rows /\ request' = request /\ now' \in 1 .. Horizon
      BY <1>2 DEF Tick, vars, IInv, TypeOK
    <2>2. \A s, e : Overlapping(s, e)' = Overlapping(s, e)
      BY <2>1 DEF Overlapping
    <2>3. TypeOK' /\ Complete'
      BY <2>1 DEF IInv, TypeOK, Complete
    <2>4. FoundIsSo'
      BY <2>1, <2>2 DEF IInv, FoundIsSo, Updated
    <2>5. OneMembership'
      BY <2>1 DEF IInv, OneMembership, Meet, Covers
    <2> QED BY <2>3, <2>4, <2>5 DEF IInv
  <1> QED
    BY <1>1, <1>2, CreateKeeps, ImportKeeps, UpdateKeeps, SyncKeeps, InsertKeeps, ChangeKeeps,
       ExtendKeeps, ReplaceKeeps, DeleteKeeps, CloseKeeps, HardDeleteKeeps
    DEF Next

(* The rows, the requests and the time are always what they may be.        *)
THEOREM TypeCorrect == Spec => []TypeOK
  <1>1. IInv => TypeOK
    BY DEF IInv
  <1> QED BY <1>1, InitIInv, NextIInv, PTL DEF Spec

(* Two memberships of one user and one unit have no day in common unless   *)
(* one of them was written without a check, or by a request that had been  *)
(* overtaken: the check of createOrgMembership and updateOrgMembership is  *)
(* enough for any number of rows, requests and dates.                      *)
THEOREM OneAtATime == Spec => []OneMembership
  <1>1. IInv => OneMembership
    BY DEF IInv
  <1> QED BY <1>1, InitIInv, NextIInv, PTL DEF Spec

--------------------------------------------------------------------------------
(* The days that a row covers when an import has cut it, or had no need to.*)
LEMMA DaysLeft ==
  ASSUME NEW l \in Row, NEW r \in Asked, NEW t \in Dates,
         r.start \in Dates, r.end \in Ends, r.start < r.end,
         NEW m, IF l.type # "none" /\ l.start < r.end /\ l.end > r.start
                THEN m = Cut(l, Way(l, r.start, r.end), r) ELSE m = l
  PROVE  /\ t < r.start => (Covers(m, t) <=> Covers(l, t))
         /\ r.start <= t /\ t < r.end => ~Covers(m, t)
         /\ r.end <= t => (Covers(m, t) <=> Covers(l, t) /\ l.start >= r.start)
  <1>1. CASE ~(l.type # "none" /\ l.start < r.end /\ l.end > r.start)
    BY <1>1 DEF Covers
  <1>2. CASE (l.type # "none" /\ l.start < r.end /\ l.end > r.start)
             /\ r.start <= l.start /\ r.end >= l.end
    <2>1. m.type = "none"
      BY <1>2 DEF Cut, Way
    <2> QED BY <1>2, <2>1 DEF Covers
  <1>3. CASE (l.type # "none" /\ l.start < r.end /\ l.end > r.start)
             /\ r.start <= l.start /\ ~(r.end >= l.end)
    <2> DEFINE n == Moved(l, r.end, l.end, r)
    <2>1. r.end \in Dates /\ l.end \in Ends
      BY <1>3
    <2>2. n \in Row /\ n.type = l.type /\ n.start = r.end /\ n.end = l.end
          /\ (n.checked => l.checked /\ r.fresh)
      BY <2>1, MovedRow
    <2>3. m = n
      BY <1>3 DEF Cut, Way
    <2> HIDE DEF n
    <2> QED BY <1>3, <2>1, <2>2, <2>3 DEF Covers
  <1>4. CASE (l.type # "none" /\ l.start < r.end /\ l.end > r.start) /\ ~(r.start <= l.start)
    <2> DEFINE n == Moved(l, l.start, r.start, r)
    <2>1. l.start \in Dates /\ r.start \in Ends
      BY <1>4
    <2>2. n \in Row /\ n.type = l.type /\ n.start = l.start /\ n.end = r.start
          /\ (n.checked => l.checked /\ r.fresh)
      BY <2>1, MovedRow
    <2>3. m = n
      BY <1>4 DEF Cut, Way
    <2> HIDE DEF n
    <2> QED BY <1>4, <2>1, <2>2, <2>3 DEF Covers
  <1> QED BY <1>1, <1>2, <1>3, <1>4

(* Whatever the dates of a row by now, a cut leaves it no day of the range.*)
LEMMA CutClears ==
  ASSUME NEW l \in Row, NEW way \in Ways, NEW r \in Asked, NEW t \in Dates,
         r.start \in Dates, r.end \in Ends, r.start <= t, t < r.end,
         way = "head" => r.end \in Dates, way = "tail" => r.start \in Ends
  PROVE  ~Covers(Cut(l, way, r), t)
  <1>1. CASE way = "swallow"
    BY <1>1 DEF Cut, Covers
  <1>2. CASE way = "head"
    <2> DEFINE n == Moved(l, r.end, l.end, r)
    <2>1. n.start = r.end
      <3>1. r.end \in Dates /\ l.end \in Ends
        BY <1>2
      <3>2. n \in Row /\ n.type = l.type /\ n.start = r.end /\ n.end = l.end
            /\ (n.checked => l.checked /\ r.fresh)
        BY <3>1, MovedRow
      <3> QED BY <3>2
    <2>2. Cut(l, way, r) = n
      BY <1>2 DEF Cut
    <2> HIDE DEF n
    <2> QED BY <2>1, <2>2 DEF Covers
  <1>3. CASE way = "tail"
    <2> DEFINE n == Moved(l, l.start, r.start, r)
    <2>1. n.end = r.start
      <3>1. l.start \in Dates /\ r.start \in Ends
        BY <1>3
      <3>2. n \in Row /\ n.type = l.type /\ n.start = l.start /\ n.end = r.start
            /\ (n.checked => l.checked /\ r.fresh)
        BY <3>1, MovedRow
      <3> QED BY <3>2
    <2>2. Cut(l, way, r) = n
      BY <1>3 DEF Cut
    <2> HIDE DEF n
    <2> QED BY <2>1, <2>2 DEF Covers
  <1> QED BY <1>1, <1>2, <1>3

LEMMA ReplaceClears ==
  ASSUME IInv, NEW q \in Requests, replaceMemberships(q), request[q].start < request[q].end
  PROVE  LET r == request[q] IN
         \E i \in Unused :
           /\ rows'[i].type = r.type
           /\ \A t \in Dates :
                /\ r.start <= t /\ t < r.end => At(rows', t) = {i} \cup (At(rows, t) \ r.found)
                /\ r.fresh =>
                     /\ r.start <= t /\ t < r.end => At(rows', t) = {i}
                     /\ t < r.start => At(rows', t) = At(rows, t)
                     /\ r.end <= t => At(rows', t) = {j \in At(rows, t) : rows[j].start >= r.start}
  <1> DEFINE r == request[q]
             left(j) == IF j \in r.found THEN Cut(rows[j], r.ways[j], r) ELSE rows[j]
             k == NewRow(r)
  <1>1. PICK i \in Unused : rows' = [j \in Ids |-> IF j = i THEN k ELSE left(j)]
    BY DEF replaceMemberships, Write
  <1>2. r.kind = "import" /\ r \in Asked /\ rows \in [Ids -> Row]
        /\ i \in Ids /\ rows[i].type = "none"
    BY DEF replaceMemberships, IInv, TypeOK, Asked, Unused
  <1>3. /\ r.start \in Dates /\ r.end \in Ends /\ r.type \in Types /\ r.start < r.end
        /\ CutsFit(r) /\ r.ways \in [Ids -> Ways] /\ r.found \subseteq Ids
    BY <1>2 DEF IInv, Complete, Asked
  <1>4. r.fresh => /\ r.found = Overlapping(r.start, r.end)
                   /\ \A j \in r.found : r.ways[j] = Way(rows[j], r.start, r.end)
    BY <1>2 DEF IInv, FoundIsSo
  <1>5. k.type = r.type /\ k.start = r.start /\ k.end = r.end
    BY DEF NewRow
  <1>6. r.kind = "import" => \A j \in r.found : /\ r.ways[j] = "head" => r.end \in Dates
                                                /\ r.ways[j] = "tail" => r.start \in Ends
    BY <1>3 DEF CutsFit
  <1> HIDE DEF r, k
  <1>7. rows'[i] = k /\ rows'[i].type = r.type
        /\ \A t \in Dates : (Covers(k, t) <=> r.start <= t /\ t < r.end) /\ ~Covers(rows[i], t)
    BY <1>1, <1>2, <1>3, <1>5 DEF Covers
  <1>8. \A j \in Ids : j # i => rows'[j] = left(j) /\ rows[j] \in Row
    BY <1>1, <1>2
  <1>9. ASSUME NEW t \in Dates, r.start <= t, t < r.end
        PROVE  At(rows', t) = {i} \cup (At(rows, t) \ r.found)
    <2>1. ASSUME NEW j \in Ids, j # i
          PROVE  Covers(rows'[j], t) <=> Covers(rows[j], t) /\ j \notin r.found
      <3>1. CASE j \in r.found
        <4>1. ~Covers(Cut(rows[j], r.ways[j], r), t)
          BY <1>2, <1>3, <1>6, <1>9, <3>1, CutClears
        <4> QED BY <1>8, <2>1, <3>1, <4>1
      <3>2. CASE j \notin r.found
        BY <1>8, <2>1, <3>2
      <3> QED BY <3>1, <3>2
    <2> HIDE DEF left
    <2> QED BY <1>2, <1>7, <1>9, <2>1 DEF At
  <1>10. ASSUME r.fresh, NEW t \in Dates, NEW j \in Ids, j # i
         PROVE  /\ t < r.start => (Covers(rows'[j], t) <=> Covers(rows[j], t))
                /\ r.start <= t /\ t < r.end => ~Covers(rows'[j], t)
                /\ r.end <= t => (Covers(rows'[j], t) <=> Covers(rows[j], t) /\ rows[j].start >= r.start)
    <2>1. rows'[j] = left(j) /\ rows[j] \in Row
      BY <1>8, <1>10
    <2>2. j \in r.found <=> rows[j].type # "none" /\ rows[j].start < r.end /\ rows[j].end > r.start
      BY <1>4, <1>10 DEF Overlapping
    <2>3. IF rows[j].type # "none" /\ rows[j].start < r.end /\ rows[j].end > r.start
          THEN left(j) = Cut(rows[j], Way(rows[j], r.start, r.end), r) ELSE left(j) = rows[j]
      BY <1>4, <1>10, <2>2
    <2> HIDE DEF left
    <2> QED BY <1>2, <1>3, <2>1, <2>3, DaysLeft
  <1>11. ASSUME r.fresh, NEW t \in Dates
         PROVE  /\ r.start <= t /\ t < r.end => At(rows', t) = {i}
                /\ t < r.start => At(rows', t) = At(rows, t)
                /\ r.end <= t => At(rows', t) = {j \in At(rows, t) : rows[j].start >= r.start}
    <2>1. t < r.start => At(rows', t) = At(rows, t)
      BY <1>2, <1>3, <1>7, <1>10, <1>11 DEF At
    <2>2. r.start <= t /\ t < r.end => At(rows', t) = {i}
      BY <1>2, <1>7, <1>10, <1>11 DEF At
    <2>3. r.end <= t => At(rows', t) = {j \in At(rows, t) : rows[j].start >= r.start}
      BY <1>2, <1>3, <1>7, <1>10, <1>11 DEF At
    <2> QED BY <2>1, <2>2, <2>3
  <1> HIDE DEF left
  <1> QED BY <1>7, <1>9, <1>11 DEF r

(* The cookie-cutter of the bulk import, for any rows and days: whatever   *)
(* overtook it, nothing that it found is left in the range of its row, and *)
(* one that was not overtaken decides alone what is there.                 *)
THEOREM ImportDecides == Spec => ImportClearsItsRange
  <1>1. IInv /\ [Next]_vars =>
          [\A q \in Requests : LET r == request[q] IN
             replaceMemberships(q) /\ r.start < r.end =>
               \E i \in Unused :
                 /\ rows'[i].type = r.type
                 /\ \A t \in Dates :
                      /\ r.start <= t /\ t < r.end => At(rows', t) = {i} \cup (At(rows, t) \ r.found)
                      /\ r.fresh =>
                           /\ r.start <= t /\ t < r.end => At(rows', t) = {i}
                           /\ t < r.start => At(rows', t) = At(rows, t)
                           /\ r.end <= t =>
                                At(rows', t) = {j \in At(rows, t) : rows[j].start >= r.start}]_vars
    BY ReplaceClears
  <1> QED BY <1>1, InitIInv, NextIInv, PTL DEF Spec, ImportClearsItsRange

================================================================================
