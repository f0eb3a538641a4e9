----------------------------- MODULE MemoryRegister -----------------------------
(***************************************************************************)
(* What the memory of one person promises: a register per key.  A new      *)
(* content takes the next version, archiving clears the register, and no   *)
(* version comes back.                                                     *)
(***************************************************************************)
EXTENDS Naturals

CONSTANTS Keys, Contents, Nothing

VARIABLES
  version,  \* the last version each key had
  content   \* what is remembered under it, or Nothing

RegisterInit ==
  /\ version = [k \in Keys |-> 0]
  /\ content = [k \in Keys |-> Nothing]

Remember(k) ==
  /\ version' = [version EXCEPT ![k] = @ + 1]
  /\ \E c \in Contents : content' = [content EXCEPT ![k] = c]

Forget(k) ==
  /\ content[k] # Nothing
  /\ content' = [content EXCEPT ![k] = Nothing]
  /\ UNCHANGED version

RegisterNext == \E k \in Keys : Remember(k) \/ Forget(k)

RegisterSpec == RegisterInit /\ [][RegisterNext]_<<version, content>>
=============================================================================
