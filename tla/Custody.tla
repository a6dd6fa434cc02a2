------------------------------ MODULE Custody -------------------------------
(***************************************************************************)
(* What the human surfaces tell of the restricted stacks: the listing      *)
(* (`kum secrets`), the card (`kum show`) and the rotation chain           *)
(* (`kum history`).  Each is read from the columns as they stand, never    *)
(* from a value.                                                           *)
(***************************************************************************)
EXTENDS Stacks, Sequences

(* list: WHERE superseded_by IS NULL AND shredded_at IS NULL. *)
List(n) ==
  {i \in Rows : name[i] = n /\ superseded_by[i] = None /\ ~shredded[i]}

(* secrets_cmd: one line for each. *)
Listing == UNION {List(n) : n \in Name}

(* show_secret: a row that was replaced says so, whatever became of it. *)
Status(i) ==
  CASE superseded_by[i] # None -> "superseded"
    [] superseded_by[i] = None /\ shredded[i] -> "shredded"
    [] OTHER -> "live"

(* The first row found that names this one as its successor. *)
Prev(i) == FirstRow({j \in Rows : superseded_by[j] = i})

(* history: back to the oldest version, then on to the newest. *)
History(i) ==
  LET back[j \in Rows] ==
        IF Prev(j) = None THEN <<j>> ELSE Append(back[Prev(j)], j)
      on[j \in Rows] ==
        IF superseded_by[j] = None THEN <<>>
        ELSE <<superseded_by[j]>> \o on[superseded_by[j]]
  IN  back[i] \o on[i]

(* secret_history_cmd: what a version is marked as. *)
Marker(i) == IF Status(i) = "live" THEN "live" ELSE "shredded"

-----------------------------------------------------------------------------
(* "The rotation chain: who rotated and when" (secret_history_cmd, history):
   through rotations, shreds and stocking again, racing each other, every
   version of a chain reads back the same chain, in the order the rows were
   stocked and all of one name; only its last version can be marked live, that
   one is what the listing shows, and each name is listed once at most. *)
RotationsReadBack ==
  /\ \A i \in Rows :
       LET h == History(i)
           last == h[Len(h)]
       IN  /\ \A k \in 1..(Len(h) - 1) :
                h[k] < h[k + 1] /\ Status(h[k]) = "superseded"
           /\ \A k \in 1..Len(h) : name[h[k]] = name[i] /\ History(h[k]) = h
           /\ (Marker(last) = "live") <=> (last \in Listing)
  /\ \A i, j \in Listing : name[i] = name[j] => i = j
=============================================================================
