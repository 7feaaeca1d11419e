----------------------------- MODULE AtomicCommit -----------------------------
(***************************************************************************)
(* What the exact-file transaction promises its callers, with no locks,    *)
(* manifests, processes or crashes: a transaction takes files over one by  *)
(* one while it is open, gives back only what it took, and reaches its     *)
(* result in one step.  It commits only while no other transaction's bytes *)
(* are in its files, and ends undone only when none of its own are left    *)
(* anywhere.  Nothing but a later transaction or a user replaces the bytes *)
(* of a committed one.                                                     *)
(***************************************************************************)
EXTENDS Integers

CONSTANTS
  Auth,      \* transactions
  Ref,       \* files
  Target,    \* transaction -> the files it changes
  None       \* no transaction

VARIABLES
  status,    \* "new", "open", "committed" or "undone"
  owner,     \* file -> the transaction whose bytes it holds, or None
  edits      \* how often users have changed a file by hand

avars == <<status, owner, edits>>

Init ==
  /\ status = [a \in Auth |-> "new"]
  /\ owner = [r \in Ref |-> None]
  /\ edits = 0

SetStatus(a, from, to) ==
  /\ status[a] = from
  /\ status' = [status EXCEPT ![a] = to]
  /\ UNCHANGED <<owner, edits>>

Open(a) == SetStatus(a, "new", "open")

Take(a, r) ==
  /\ status[a] = "open"
  /\ r \in Target[a]
  /\ owner' = [owner EXCEPT ![r] = a]
  /\ UNCHANGED <<status, edits>>

GiveBack(a, r) ==
  /\ status[a] = "open"
  /\ owner[r] = a
  /\ owner' = [owner EXCEPT ![r] = None]
  /\ UNCHANGED <<status, edits>>

Commit(a) ==
  /\ \A r \in Target[a] : owner[r] \in {a, None}
  /\ SetStatus(a, "open", "committed")

Undone(a) ==
  /\ \A r \in Ref : owner[r] # a
  /\ SetStatus(a, "open", "undone")

\* A repeated recovery finds that a file is no longer at its old bytes.
Reopen(a) == SetStatus(a, "undone", "open")

\* A user replaces the bytes of a file.
Overwrite(r) ==
  /\ edits' = edits + 1
  /\ owner' = [owner EXCEPT ![r] = None]
  /\ UNCHANGED status

Next ==
  \/ \E a \in Auth : Open(a) \/ Commit(a) \/ Undone(a) \/ Reopen(a)
  \/ \E a \in Auth, r \in Ref : Take(a, r) \/ GiveBack(a, r)
  \/ \E r \in Ref : Overwrite(r)

Spec == Init /\ [][Next]_avars
=============================================================================
