-------------------------- MODULE PhotoStoreProofs --------------------------
(***************************************************************************)
(* Lemmas on what PhotoPipeline and PhotoOutbox share: what the statements *)
(* of the store do to a row, and what a step of a DELETE handler does.     *)
(***************************************************************************)
EXTENDS PhotoStore, TLAPS

-----------------------------------------------------------------------------
(* The statements.                                                         *)

LEMMA RowTypes ==
  /\ NoRow \in Row /\ InsertedRow \in Row
  /\ \A r \in Row : CompletedRow(r) \in Row /\ FailedRow(r) \in Row /\ DeletedRow(r) \in Row
  BY DEF NoRow, InsertedRow, Row, Statuses, CompletedRow, FailedRow, DeletedRow

\* A statement writes the row of its photo or nothing.
LEMMA WriteMeans ==
  ASSUME PhotoTypeOK, NEW p \in Photos, NEW r \in Row, Write(p, r) \/ WriteFails(p, r)
  PROVE  /\ row' \in [Photos -> Row]
         /\ row'[p] = r \/ row'[p] = row[p]
         /\ Write(p, r) => row'[p] = r
         /\ \A q \in Photos \ {p} : row'[q] = row[q]
  BY DEF PhotoTypeOK, Write, WriteFails

LEMMA RowsEnd ==
  ASSUME NEW r \in Row
  PROVE  /\ Visible(r) =>
              /\ CompletedRow(r) = [status |-> "completed", staged |-> FALSE, deleted |-> FALSE]
              /\ FailedRow(r) = [status |-> "failed", staged |-> FALSE, deleted |-> FALSE]
         /\ ~Visible(r) => CompletedRow(r) = r /\ FailedRow(r) = r
  BY DEF Row, Statuses, CompletedRow, FailedRow, Visible

\* What a statement may do to a row leaves it a row.
LEMMA RowsStay ==
  ASSUME NEW r \in Row
  PROVE  /\ \A t \in {CompletedRow(r), FailedRow(r)} :
               /\ t \in Row /\ t.deleted = r.deleted
               /\ t.status = "none" <=> r.status = "none"
               /\ t.staged => r.staged /\ t.status = r.status
         /\ DeletedRow(r).status = r.status /\ DeletedRow(r).staged = r.staged
         /\ r.deleted => DeletedRow(r) = r /\ CompletedRow(r) = r /\ FailedRow(r) = r
         /\ r.status # "none" => DeletedRow(r).deleted
  BY DEF Row, Statuses, CompletedRow, FailedRow, DeletedRow, Visible

-----------------------------------------------------------------------------
(* DELETE.                                                                 *)

\* A DELETE request has marked the row before it removes anything.
RequestInv ==
    \A d \in Deletes : request[d].pc # "idle" =>
        /\ request[d].photo \in Photos
        /\ upload[request[d].photo] = "accepted"
        /\ request[d].pc \in {"file", "object"} => row[request[d].photo].deleted

\* A client knows the id of no photo that has no row.
KnownInv == \A p \in Photos : Known(p) => row[p].status # "none"

LEMMA RequestMeans ==
  ASSUME PhotoTypeOK, NEW d \in Deletes,
         NEW q \in [pc : DeletePCs, photo : Photos \cup {NoPhoto}, staged : BOOLEAN],
         SetRequest(d, q)
  PROVE  /\ request' \in [Deletes -> [pc : DeletePCs, photo : Photos \cup {NoPhoto},
                                      staged : BOOLEAN]]
         /\ request'[d] = q
         /\ \A e \in Deletes \ {d} : request'[e] = request[e]
  BY DEF PhotoTypeOK, SetRequest

\* A DELETE handler marks the row of an accepted photo, and removes what is left of a
\* photo whose row is marked.
LEMMA DeleteMeans ==
  ASSUME PhotoTypeOK, RequestInv, KnownInv, NEW d \in Deletes, Delete(d)
  PROVE  /\ UNCHANGED <<faults, upload>>
         /\ PhotoTypeOK' /\ RequestInv'
         /\ row' = row \/ \E p \in Photos : \A q \in Photos \ {p} : row'[q] = row[q]
         /\ \A q \in Photos : row'[q] = row[q] \/ (Known(q) /\ row'[q] = DeletedRow(row[q]))
         /\ temp' \subseteq temp /\ object' \subseteq object
         /\ \A q \in Photos : q \in (temp \ temp') \cup (object \ object') => row[q].deleted
         /\ gone \subseteq gone'
         /\ \A q \in gone' \ gone : row'[q].deleted /\ q \notin object'
<1> DEFINE p == request[d].photo
<1>0. row \in [Photos -> Row] /\ temp \subseteq Photos /\ object \subseteq Photos /\ gone \subseteq Photos
  BY DEF PhotoTypeOK
<1> DEFINE Requests == [pc : DeletePCs, photo : Photos \cup {NoPhoto}, staged : BOOLEAN]
<1>00. Idle \in Requests
  BY DEF Idle, DeletePCs
<1>1. ASSUME NEW q \in Photos, DeleteLoad(d, q)
      PROVE  UNCHANGED <<faults, upload, row, temp, object, gone>> /\ PhotoTypeOK' /\ RequestInv'
  <2>1. PICK pc \in {"mark", "file", "object"} :
            /\ SetRequest(d, [pc |-> pc, photo |-> q, staged |-> row[q].staged])
            /\ pc # "mark" => row[q].deleted
    BY <1>1 DEF DeleteLoad
  <2>2. [pc |-> pc, photo |-> q, staged |-> row[q].staged] \in Requests
    BY <1>0 DEF Row, DeletePCs
  <2>3. /\ request' \in [Deletes -> Requests]
        /\ request'[d] = [pc |-> pc, photo |-> q, staged |-> row[q].staged]
        /\ \A c \in Deletes \ {d} : request'[c] = request[c]
    BY <2>1, <2>2, RequestMeans
  <2>4. PhotoTypeOK'
    BY <1>1, <2>3 DEF PhotoTypeOK, DeleteLoad
  <2> QED BY <1>1, <2>1, <2>3, <2>4 DEF DeleteLoad, RequestInv, Known
<1>2. ASSUME DeleteMark(d)
      PROVE  /\ UNCHANGED <<faults, upload, temp, object, gone>> /\ PhotoTypeOK' /\ RequestInv'
             /\ p \in Photos /\ \A q \in Photos \ {p} : row'[q] = row[q]
             /\ row'[p] = row[p] \/ (Known(p) /\ row'[p] = DeletedRow(row[p]))
  <2>1. p \in Photos /\ Known(p) /\ row[p].status # "none" /\ row[p] \in Row
    BY <1>0, <1>2 DEF DeleteMark, RequestInv, KnownInv, Known
  <2>2. /\ row' \in [Photos -> Row]
        /\ \A q \in Photos \ {p} : row'[q] = row[q]
        /\ row'[p] = row[p] \/ row'[p] = DeletedRow(row[p])
    BY <1>2, <2>1, RowTypes, WriteMeans DEF DeleteMark
  <2>3. PICK r \in Requests :
            SetRequest(d, r) /\ (r.pc = "idle" \/ (r.photo = p /\ Write(p, DeletedRow(row[p]))))
    <3>1. CASE FailRequest(d)
      BY <1>00, <3>1 DEF FailRequest, Idle
    <3>2. CASE ~FailRequest(d)
      <4>1. PICK staged \in BOOLEAN :
                /\ Write(p, DeletedRow(row[p]))
                /\ SetRequest(d, [request[d] EXCEPT !.pc = IF staged THEN "file" ELSE "object",
                                                    !.staged = staged])
        BY <1>2, <2>1, <3>2 DEF DeleteMark, PhotoTypeOK, Row
      <4>2. request[d] \in Requests
        BY DEF PhotoTypeOK
      <4>3. LET r == [request[d] EXCEPT !.pc = IF staged THEN "file" ELSE "object", !.staged = staged]
            IN  r \in Requests /\ r.photo = p
        BY <4>2 DEF DeletePCs
      <4> QED BY <4>1, <4>3
    <3> QED BY <3>1, <3>2
  <2>4. /\ request' \in [Deletes -> Requests] /\ request'[d] = r
        /\ \A c \in Deletes \ {d} : request'[c] = request[c]
    BY <2>3, RequestMeans
  <2>5. r.pc # "idle" => row'[p].deleted
    BY <1>0, <2>1, <2>3, RowsStay DEF Write
  <2>6. \A q \in Photos : row[q].deleted => row'[q].deleted
    BY <1>0, <2>1, <2>2, RowsStay
  <2>7. PhotoTypeOK'
    BY <1>2, <2>2, <2>4 DEF PhotoTypeOK, DeleteMark
  <2>8. RequestInv'
    BY <1>2, <2>1, <2>3, <2>4, <2>5, <2>6 DEF RequestInv, DeleteMark, Known
  <2> QED BY <1>2, <2>1, <2>2, <2>7, <2>8 DEF DeleteMark
<1>3. ASSUME DeleteFile(d)
      PROVE  /\ UNCHANGED <<faults, upload, row, object, gone>> /\ PhotoTypeOK' /\ RequestInv'
             /\ temp' \subseteq temp /\ p \in Photos /\ row[p].deleted
             /\ \A q \in temp \ temp' : q = p
  <2>1. p \in Photos /\ row[p].deleted /\ request[d].pc # "idle"
    BY <1>3 DEF DeleteFile, RequestInv
  <2>2. [request[d] EXCEPT !.pc = "object"] \in Requests
    BY DEF PhotoTypeOK, DeletePCs
  <2>3. /\ request' \in [Deletes -> Requests] /\ request'[d].photo = p
        /\ \A c \in Deletes \ {d} : request'[c] = request[c]
    BY <1>3, <2>2 DEF PhotoTypeOK, DeleteFile, SetRequest
  <2>4. PhotoTypeOK' /\ RequestInv'
    BY <1>0, <1>3, <2>1, <2>3 DEF PhotoTypeOK, RequestInv, DeleteFile, RemoveTemp
  <2> QED BY <1>3, <2>1, <2>4 DEF DeleteFile, RemoveTemp
<1>4. ASSUME DeleteObject(d)
      PROVE  /\ UNCHANGED <<faults, upload, row, temp>> /\ PhotoTypeOK' /\ RequestInv'
             /\ object' \subseteq object /\ p \in Photos /\ row[p].deleted
             /\ \A q \in object \ object' : q = p
             /\ gone \subseteq gone' /\ \A q \in gone' \ gone : q = p /\ p \notin object'
  <2>1. p \in Photos /\ row[p].deleted
    BY <1>4 DEF DeleteObject, RequestInv
  <2>2. /\ request' \in [Deletes -> Requests] /\ request'[d] = Idle
        /\ \A c \in Deletes \ {d} : request'[c] = request[c]
    BY <1>00, <1>4, RequestMeans DEF DeleteObject, FailRequest
  <2>3. PhotoTypeOK' /\ RequestInv'
    BY <1>0, <1>4, <2>1, <2>2
    DEF PhotoTypeOK, RequestInv, DeleteObject, RemoveObject, RemoveObjectFails, Idle
  <2> QED BY <1>4, <2>1, <2>3 DEF DeleteObject, RemoveObject, RemoveObjectFails
<1>5. CASE \E q \in Photos : DeleteLoad(d, q)
  BY <1>1, <1>5
<1>6. CASE DeleteMark(d)
  BY <1>2, <1>6
<1>7. CASE DeleteFile(d)
  BY <1>3, <1>7
<1>8. CASE DeleteObject(d)
  BY <1>4, <1>8
<1> QED BY <1>5, <1>6, <1>7, <1>8 DEF Delete

=============================================================================
