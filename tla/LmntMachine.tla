----------------------------- MODULE LmntMachine -----------------------------
(***************************************************************************)
(* What a call of an LMNT function promises, whichever dispatch header is  *)
(* built in: the instructions run one at a time and in program order, each *)
(* one atomically; the call returns OK at the end of the code or at a      *)
(* RETURN, with the error of the instruction that failed, or, when an      *)
(* interrupt is pending, LMNT_INTERRUPTED between two instructions.        *)
(***************************************************************************)
EXTENDS LmntOps

CONSTANTS
  None,
  Torn   \* TRUE: an interrupt and a comparison that meet may undo each other

VARIABLES
  image, extcalls, defcode,  \* what the instructions refer to
  stack, cmp,                \* the stack and the CMP_* bits
  pending,                   \* lmnt_interrupt has been called
  running,                   \* a call is in progress
  def, pc, frame, res,       \* its def, the next instruction, the result so far
  result                     \* what the last call returned

env   == <<image, extcalls, defcode>>
local == <<def, pc, frame, res>>
mvars == <<env, stack, cmp, pending, running, local, result>>

code == image.defs[def].code

MInit ==
  /\ ~running /\ ~pending
  /\ def = None /\ pc = 0 /\ frame = 0 /\ res = "OK"

\* Between calls the host may load, prepare, set arguments, or start over
Host ==
  /\ ~running /\ ~running'
  /\ UNCHANGED local

Enter(d) ==
  /\ ~running /\ running'
  /\ def' = d /\ res' = "OK"
  /\ UNCHANGED <<env, stack, cmp, pending, result>>

Call(d) ==
  /\ Enter(d)
  /\ pc' = 0
  /\ frame' = ConstCount(image) + image.defs[d].stack_count

\* Where an interrupted call continues is left open
Continue(d) ==
  Enter(d) /\ pc' \in Nat /\ frame' \in Nat

\* The instruction at pc
Exec ==
  /\ running /\ res = "OK"
  /\ pc < Len(code)
  /\ \E o \in Outcomes(image, extcalls, defcode, frame, code[pc + 1], stack, cmp) :
       /\ stack' = o.stack
       /\ res' = IF o.res = "BRANCHING" THEN "OK" ELSE o.res
       /\ pc' = IF o.res = "BRANCHING" THEN Target(code[pc + 1]) ELSE pc + 1
  /\ cmp' = NewFlags(code[pc + 1], stack, cmp)
  /\ (pending' = pending \/ (Torn /\ code[pc + 1].op \in CompareOps /\ pending' = FALSE))
  /\ UNCHANGED <<env, running, def, frame, result>>

Leave(r) ==
  /\ running /\ ~running'
  /\ result' = r
  /\ def' = None /\ pc' = 0 /\ frame' = 0 /\ res' = "OK"
  /\ UNCHANGED <<env, stack, cmp, pending>>

\* The end of the code, a RETURN, or an instruction that failed
Complete ==
  \/ res = "OK" /\ pc >= Len(code) /\ Leave("OK")
  \/ res = "RETURNING" /\ Leave("OK")
  \/ res \notin {"OK", "RETURNING"} /\ Leave(res)

Cancel == res = "OK" /\ pending /\ Leave("INTERRUPTED")

RequestInterrupt ==
  /\ pending'
  /\ (cmp' = cmp \/ (Torn /\ cmp' \subseteq CmpBits))
  /\ UNCHANGED <<env, stack, running, local, result>>

MNext ==
  \/ Host
  \/ image # None /\ \E d \in DefIds(image) : Call(d) \/ Continue(d)
  \/ running /\ (Exec \/ Complete \/ Cancel)
  \/ RequestInterrupt

MSpec == MInit /\ [][MNext]_mvars
=============================================================================
