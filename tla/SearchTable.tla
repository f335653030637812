---------------------------- MODULE SearchTable ----------------------------
(***************************************************************************)
(* What <search.h> promises: a table in which each key keeps the data of   *)
(* its first ENTER until the table is destroyed.  A request is answered    *)
(* with the data of its key, or with Absent.                               *)
(***************************************************************************)
CONSTANTS Keys, Data, Absent

VARIABLES content,   \* the data of each key, or Absent
          request,   \* the call under way, or Absent
          reply      \* the answer to the last call

vars == <<content, request, reply>>

Requests == [action : {"FIND", "ENTER"}, key : Keys, data : Data]

Empty == [k \in Keys |-> Absent]

Init ==
  /\ content = Empty
  /\ request = Absent
  /\ reply = Absent

Call ==
  /\ request = Absent
  /\ request' \in Requests
  /\ UNCHANGED <<content, reply>>

Answer(d) == request # Absent /\ request' = Absent /\ reply' = d

\* A key that is there is found by both actions, and its data stays.
Found ==
  /\ Answer(content[request.key])
  /\ content[request.key] # Absent
  /\ UNCHANGED content

NotFound ==
  /\ Answer(Absent)
  /\ content[request.key] = Absent
  /\ UNCHANGED content

Enter ==
  /\ Answer(request.data)
  /\ request.action = "ENTER"
  /\ content[request.key] = Absent
  /\ content' = [content EXCEPT ![request.key] = request.data]

Destroy ==
  /\ request = Absent
  /\ content' = Empty
  /\ UNCHANGED <<request, reply>>

\* NotFound answers an ENTER too: there may be no memory for a new entry.
Next == Call \/ Found \/ NotFound \/ Enter \/ Destroy

Spec == Init /\ [][Next]_vars

=============================================================================
