----------------------------- MODULE RamDirect ------------------------------
(***************************************************************************)
(* The rest of vm::RamManager's interface: EnsureRamBlock, and             *)
(* RamDirectAccess with its two users, RamDirectRead and RamDirectWrite,   *)
(* which reach a block wherever it is.  Unlike the operations of RamManager *)
(* these do not respect locked addresses and do not address frames by      *)
(* bytes, so the properties that rest on either are violated here.         *)
(***************************************************************************)
EXTENDS RamManager

CONSTANT PageSize       \* VM64_PAGE_SIZE

ASSUME DirectAssumption == PageSize \in Nat \ {0}

(* GetRamBuffer takes a byte offset and is given a frame number, so the    *)
(* buffer of frame i starts in frame i / PageSize.                         *)
DirectFrame(i) == i \div PageSize

(* What RamDirectAccess(r, pp, mTemp) gives its caller to read. *)
DirectPage(r) ==
    IF Swapped(r) THEN LoadFromStorage(pfidx[r])
    ELSE ram[DirectFrame(addr[r])]

(* RamSwapIn without the case of the locked block. *)
EnsureRamBlock(r) ==
    /\ Swapped(r)
    /\ \E i \in Frames :
        FindFreeOrSwappableAddress(i) /\ SwapRamAndPageFile(r, i)

(* A resident block is written in what RamDirectAccess takes for its frame. *)
DirectWriteResident(r, d) ==
    /\ Resident(r)
    /\ ram' = [ram EXCEPT ![DirectFrame(addr[r])] = <<d, 0>>]
    /\ said' = [said EXCEPT ![r] = <<d, 0>>]
    /\ UNCHANGED <<status, refVars, frames, slotVars, file, view, damaged>>

WriteForgetsToEncode(r, d) ==
    /\ Swapped(r)
    /\ file' = [file EXCEPT ![pfidx[r]] = <<d, 0>>]
    /\ said' = [said EXCEPT ![r] = <<d, 0>>]
    /\ UNCHANGED <<status, refVars, frames, slotVars, ram, view, damaged>>

(* A swapped block is read to mTemp, changed there and written back to its *)
(* slot, where it stays.                                                   *)
DirectWriteSwapped(r, d) ==
    /\ Swapped(r)
    /\ \/ /\ StoreToStorage(pfidx[r], <<d, 0>>)
          /\ said' = [said EXCEPT ![r] = <<d, 0>>]
          /\ UNCHANGED damaged
       \/ /\ "write" \in Faults
          /\ \E p \in {file[pfidx[r]], TornPage} :
                file' = [file EXCEPT ![pfidx[r]] = p]
          /\ damaged' = damaged \cup {r}
          /\ UNCHANGED said
    /\ UNCHANGED <<status, refVars, frames, slotVars, ram, view>>

RamDirectWrite(r, d) == DirectWriteResident(r, d) \/ DirectWriteSwapped(r, d)

DirectNext ==
    \/ Next
    \/ \E r \in Refs : EnsureRamBlock(r) \/ \E d \in Data : RamDirectWrite(r, d)

DirectSpec == Init /\ [][DirectNext]_vars

-----------------------------------------------------------------------------
(* Properties *)

(* A direct write to a swapped block is what its swap-in will bring, and   *)
(* no other block changes: unless it fails, the slot alone is rewritten.   *)
SlotWriteTakesEffect ==
    [][\A r \in Refs, d \in Data :
          DirectWriteSwapped(r, d) /\ r \notin damaged' =>
              /\ Content(r)' = <<d, 0>>
              /\ \A q \in Refs \ {r} : Content(q)' = Content(q)]_vars

(* The scenario at the end of pagetable.h's main: RamDirectRead returns    *)
(* what was last written to the block, whether or not it has been swapped  *)
(* out in between.                                                         *)
DirectReadsBack ==
    \A r \in Refs \ damaged : Allocated(r) => DirectPage(r) = said[r]
=============================================================================
