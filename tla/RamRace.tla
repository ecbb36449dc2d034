------------------------------ MODULE RamRace -------------------------------
(***************************************************************************)
(* RamManager with threads.  mMutex makes the body of every operation one  *)
(* step, but RamSwapOut, RamSwapIn and RamFreeAddress test pref->flags     *)
(* before they take it, and PageTable::load and unload read and write the  *)
(* flags without it.  Such a call is two steps here, Look and Finish, with *)
(* any steps of other threads between them.  A block is used by one thread *)
(* at a time; allocation and exchange evict anybody's block.               *)
(***************************************************************************)
EXTENDS RamManager

CONSTANTS Threads,
          Operations    \* which of the two-step calls the threads make

ASSUME RaceAssumption ==
    Operations \subseteq {"SwapOut", "SwapIn", "Free", "Lock", "Unlock"}

VARIABLES pending,      \* the call each thread is in, and the flags it has seen
          overtaken     \* a block has been moved under a call that had looked

rvars == <<vars, pending, overtaken>>

Idle == [op |-> "none", ref |-> NULL, seen |-> {}]

Busy(r) == \E t \in Threads : pending[t].ref = r

RaceInit == Init /\ pending = [t \in Threads |-> Idle] /\ overtaken = FALSE

(* The early returns ahead of MutexScope; a swapper does not use force. *)
Passes(op, r) ==
    /\ Allocated(r)
    /\ op = "SwapOut" => Resident(r) /\ ~Locked(r)
    /\ op = "SwapIn" => Swapped(r)

Look(t, r) ==
    /\ pending[t] = Idle
    /\ ~Busy(r)
    /\ \E op \in Operations :
        /\ Passes(op, r)
        /\ pending' = [pending EXCEPT
                         ![t] = [op |-> op, ref |-> r, seen |-> flags[r]]]
    /\ UNCHANGED vars

(* flags |= BF_LOCKED and flags &= ~BF_LOCKED store what they have read. *)
StoreFlags(r, new) ==
    /\ flags' = [flags EXCEPT ![r] = new]
    /\ UNCHANGED <<status, addr, pfidx, frames, slotVars, ram, file, clientVars>>

FreeAsSeen(call) ==
    LET r == call.ref IN
    /\ call.op = "Free"
    /\ IF "SWAPPED" \in call.seen
       THEN used' = used \ {pfidx[r]} /\ UNCHANGED <<frames, view>>
       ELSE /\ view' = Told(r)
            /\ frames' = [frames EXCEPT ![addr[r]] = NULL]
            /\ UNCHANGED used
    /\ flags' = [flags EXCEPT ![r] = {}]
    /\ addr' = [addr EXCEPT ![r] = 0]
    /\ pfidx' = [pfidx EXCEPT ![r] = 0]
    /\ said' = [said EXCEPT ![r] = NULL]
    /\ damaged' = damaged \ {r}
    /\ UNCHANGED <<status, bits, ram, file>>

(* RamFreeAddress tests BF_SWAPPED again once it has the mutex. *)
FreeUnderMutex(call) == call.op = "Free" /\ RamFreeAddress(call.ref)

(* RamSwapOut and RamSwapIn do not look again. *)
Body(call) ==
    \/ call.op = "SwapOut" /\ SwapOutBody(call.ref)
    \/ call.op = "SwapIn" /\ SwapInBody(call.ref)
    \/ FreeUnderMutex(call)
    \/ call.op = "Lock" /\ StoreFlags(call.ref, call.seen \cup {"LOCKED"})
    \/ call.op = "Unlock" /\ StoreFlags(call.ref, call.seen \ {"LOCKED"})

(* The transfer fails at its first seek, or finds no frame. *)
GiveUp(call) == call.op \in {"SwapOut", "SwapIn"} /\ UNCHANGED vars

Finish(t) ==
    /\ pending[t] # Idle
    /\ Body(pending[t]) \/ GiveUp(pending[t])
    /\ pending' = [pending EXCEPT ![t] = Idle]

(* What is done under the mutex alone, and the clients' use of their pages. *)
OneStep(t) ==
    /\ pending[t] = Idle
    /\ \/ Create
       \/ Close
       \/ \E r \in Refs :
            /\ ~Busy(r)
            /\ \/ \E lock \in SUBSET {"LOCKED"} : RamAllocAddress(r, lock)
               \/ Translate(r)
               \/ \E d \in Data : ClientWrite(r, d)
    /\ UNCHANGED pending

(* A step changes the flags that another thread has seen and will rely on. *)
Overtakes ==
    \E t \in Threads :
        /\ pending'[t] = pending[t]
        /\ pending[t].op \in {"SwapOut", "Lock", "Unlock"}
        /\ flags'[pending[t].ref] # pending[t].seen

RaceNext ==
    /\ \E t \in Threads : OneStep(t) \/ Finish(t) \/ \E r \in Refs : Look(t, r)
    /\ overtaken' = (overtaken \/ Overtakes)

RaceSpec == RaceInit /\ [][RaceNext]_rvars

-----------------------------------------------------------------------------
(* Properties *)

(* The mutex taken late does harm in one way only: a block is evicted      *)
(* after RamSwapOut, load() or unload() has read its flags and before the  *)
(* call acts on them.  Until then blocks, frames and slots agree, and no   *)
(* data is lost, whatever RamSwapIn and RamFreeAddress have seen.          *)
SoundUnlessOvertaken ==
    ~overtaken => FrameOwnership /\ SlotOwnership /\ DataIntegrity
=============================================================================
