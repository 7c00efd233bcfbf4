------------------------------ MODULE FileStore ------------------------------
(***************************************************************************)
(* What the file system promises its callers: a name stands for a file, a   *)
(* file is a sequence of bytes that lives while it has a name or is open,   *)
(* and the named files survive a crash.                                     *)
(***************************************************************************)
CONSTANTS Names, Handles, Ids, NULL

VARIABLES names,    \* names[n]:    the file called n, or NULL
          opened,   \* opened[h]:   the file open as h, or NULL
          content   \* content[id]: the bytes of a living file, or NULL

store == <<names, opened, content>>

Init ==
  /\ names = [n \in Names |-> NULL]
  /\ opened = [h \in Handles |-> NULL]
  /\ content = [id \in Ids |-> NULL]

(* A new file has zeros only. *)
Create(n) ==
  LET id == names'[n]
  IN  /\ names[n] = NULL
      /\ id # NULL
      /\ names' = [names EXCEPT ![n] = id]
      /\ UNCHANGED opened
      /\ content[id] = NULL
      /\ content' = [content EXCEPT ![id] = content'[id]]
      /\ \A i \in DOMAIN content'[id] : content'[id][i] = 0

(* A file without a name and without an opener is gone. *)
Forget == content' = [id \in Ids |->
            IF (\E n \in Names : names'[n] = id) \/ (\E h \in Handles : opened'[h] = id)
            THEN content[id] ELSE NULL]

Remove(n) ==
  /\ names[n] # NULL
  /\ names' = [names EXCEPT ![n] = NULL]
  /\ UNCHANGED opened
  /\ Forget

(* By its name, or as a file that is open already. *)
Open(h) ==
  /\ opened[h] = NULL
  /\ opened'[h] \in {names[n] : n \in Names} \cup {opened[g] : g \in Handles}
  /\ opened' = [opened EXCEPT ![h] = opened'[h]]
  /\ UNCHANGED <<names, content>>

Close(h) ==
  /\ opened[h] # NULL
  /\ opened' = [opened EXCEPT ![h] = NULL]
  /\ UNCHANGED names
  /\ Forget

(* A write through h changes bytes of its file, not how many there are.     *)
Write(h) ==
  LET id == opened[h]
  IN  /\ id # NULL
      /\ UNCHANGED <<names, opened>>
      /\ content' = [content EXCEPT ![id] = content'[id]]
      /\ content'[id] # NULL
      /\ DOMAIN content'[id] = DOMAIN content[id]

Crash ==
  /\ opened' = [h \in Handles |-> NULL]
  /\ UNCHANGED names
  /\ Forget

Next ==
  \/ \E n \in Names : Create(n) \/ Remove(n)
  \/ \E h \in Handles : Open(h) \/ Close(h) \/ Write(h)
  \/ Crash

Spec == Init /\ [][Next]_store
=============================================================================
