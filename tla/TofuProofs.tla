------------------------------ MODULE TofuProofs ------------------------------
(***************************************************************************)
(* Pins survive, for any number of processes, peers and keys, and any      *)
(* number of calls, crashes and broken locks.                              *)
(***************************************************************************)
EXTENDS Tofu, TLAPS

Inside == {"read", "temp", "verify", "rename", "drop", "remove"}

\* The ledger process p is about to publish is the one in place with p's change,
\* and the change is a pin of a peer without one or a forgetting.
UpToDate(p) ==
    /\ tfView[p] = [tfLedger EXCEPT ![tfOp[p].slug] = tfOp[p].key]
    /\ tfOp[p].kind = "pin" => tfLedger[tfOp[p].slug] = NoKey

\* A lock belongs to a process inside the critical section.  Who holds it has an
\* up-to-date ledger, and who is about to rename holds it, unless it was stolen in
\* that instant.  Only the holder renames, which is why nobody else's view matters.
LedgerInv ==
    /\ TfTypeOK
    /\ tfOp \in [Procs -> Operations]
    /\ tfStolen \in BOOLEAN
    /\ \A p \in Procs : tfLock = p => tfAt[p] \in Inside
    /\ ~tfStolen =>
        /\ \A p \in Procs : tfAt[p] = "rename" => tfLock = p
        /\ \A p \in Procs :
              tfLock = p /\ tfAt[p] \in {"temp", "verify", "rename"} => UpToDate(p)
        /\ \A k \in tfKept : tfLedger[k[1]] = k[2]

-------------------------------------------------------------------------------
\* The operation an idle process is left with is one.
LEMMA AnOpIsOne == AnOp \in Operations /\ Empty \in [Slugs -> Keys \cup {NoKey}]
<1>1. PICK s \in Slugs : TRUE
  BY TofuAssumption
<1>2. [kind |-> "forget", slug |-> s, key |-> NoKey] \in Operations
  BY DEF Operations
<1>3. QED
  BY <1>2 DEF AnOp, Empty

\* Initially the ledger is empty and nobody holds the lock.
LEMMA LedgerInit == TfInit => LedgerInv
BY AnOpIsOne, TofuAssumption DEF TfInit, LedgerInv, TfTypeOK, Empty, Dead, Unowned

\* A step of p that leaves ledger and lock alone and p outside the critical section,
\* or at a place in it where nothing is claimed of its view.
LEMMA MoveKeeps ==
    ASSUME LedgerInv, NEW p \in Procs, NEW at, Go(p, at), NEW op \in Operations,
           NEW view \in [Slugs -> Keys \cup {NoKey}],
           tfOp' = [tfOp EXCEPT ![p] = op], tfView' = [tfView EXCEPT ![p] = view],
           UNCHANGED <<tfLedger, tfLock, tfOld, tfKept, tfStolen>>,
           \/ at \in {"idle", "lookup", "confirm", "lock", "break"} /\ tfLock # p
           \/ at \in {"drop", "remove"}
    PROVE  LedgerInv'
<1>1. TfTypeOK' /\ tfOp' \in [Procs -> Operations] /\ tfStolen' \in BOOLEAN
  BY DEF LedgerInv, TfTypeOK, Go
<1>2. \A q \in Procs : tfLock' = q => tfAt'[q] \in Inside
  BY DEF LedgerInv, TfTypeOK, Go, Inside
<1>3. ASSUME ~tfStolen'
      PROVE  /\ \A q \in Procs : tfAt'[q] = "rename" => tfLock' = q
             /\ \A q \in Procs :
                   tfLock' = q /\ tfAt'[q] \in {"temp", "verify", "rename"} => UpToDate(q)'
             /\ \A k \in tfKept' : tfLedger'[k[1]] = k[2]
  BY <1>3 DEF LedgerInv, TfTypeOK, Go, UpToDate
<1>4. QED
  BY <1>1, <1>2, <1>3 DEF LedgerInv

\* The calls and the waiting for the lock.
LEMMA OutsideKeeps ==
    ASSUME LedgerInv, NEW p \in Procs,
           \/ Lookup(p) \/ Confirm(p) \/ LockTimeout(p) \/ FindStale(p)
           \/ \E op \in Operations : Call(p, op)
    PROVE  LedgerInv'
<1>1. tfOp[p] \in Operations /\ tfView[p] \in [Slugs -> Keys \cup {NoKey}]
  BY DEF LedgerInv, TfTypeOK
<1>2. tfOp = [tfOp EXCEPT ![p] = tfOp[p]] /\ tfView = [tfView EXCEPT ![p] = tfView[p]]
  BY DEF LedgerInv, TfTypeOK
<1>3. tfLock # p
  BY DEF LedgerInv, Inside, Lookup, Confirm, LockTimeout, FindStale, Call
<1>4. ASSUME Return(p), UNCHANGED <<tfLedger, tfLock, tfOld, tfKept, tfStolen>> PROVE LedgerInv'
  BY <1>3, <1>4, MoveKeeps, AnOpIsOne DEF Return
<1>5. ASSUME NEW at \in {"lookup", "confirm", "lock", "break"}, Go(p, at),
             NEW op \in Operations, tfOp' = [tfOp EXCEPT ![p] = op], UNCHANGED tfView,
             UNCHANGED <<tfLedger, tfLock, tfOld, tfKept, tfStolen>>
      PROVE  LedgerInv'
  BY <1>1, <1>2, <1>3, <1>5, MoveKeeps
<1>6. CASE Lookup(p)
  BY <1>1, <1>2, <1>4, <1>5, <1>6 DEF Lookup
<1>7. CASE Confirm(p)
  BY <1>1, <1>2, <1>4, <1>5, <1>7 DEF Confirm
<1>8. CASE LockTimeout(p)
  BY <1>4, <1>8 DEF LockTimeout
<1>9. CASE FindStale(p)
  BY <1>1, <1>2, <1>5, <1>9 DEF FindStale
<1>10. ASSUME NEW op \in Operations, Call(p, op) PROVE LedgerInv'
  BY <1>5, <1>10 DEF Call
<1>11. QED
  BY <1>6, <1>7, <1>8, <1>9, <1>10

\* The lock is taken, or taken away by somebody who found it old or was its owner.
LEMMA LockKeeps ==
    ASSUME LedgerInv, NEW p \in Procs, TakeLock(p) \/ BreakLock(p) \/ DropRemoves(p) \/ Crash(p)
    PROVE  LedgerInv'
<1>1. Unowned \notin Procs /\ Dead \notin Procs
  BY TofuAssumption
<1>2. AnOp \in Operations /\ Empty \in [Slugs -> Keys \cup {NoKey}]
  BY AnOpIsOne
<1>3. CASE TakeLock(p)
  BY <1>1, <1>3 DEF TakeLock, Go, LedgerInv, TfTypeOK, UpToDate, Inside
<1>4. CASE BreakLock(p)
  BY <1>1, <1>4 DEF BreakLock, RemoveLock, Go, LedgerInv, TfTypeOK, UpToDate, Inside
<1>5. CASE DropRemoves(p)
  BY <1>1, <1>2, <1>5 DEF DropRemoves, RemoveLock, Return, Go, LedgerInv, TfTypeOK, UpToDate, Inside
<1>6. CASE Crash(p)
  BY <1>1, <1>2, <1>6 DEF Crash, Return, Go, LedgerInv, TfTypeOK, UpToDate, Inside
<1>7. QED
  BY <1>3, <1>4, <1>5, <1>6

\* Under the lock: the ledger is read and a temporary file written, the lock looked
\* at again; what is kept was found in the ledger.
LEMMA InsideKeeps ==
    ASSUME LedgerInv, NEW p \in Procs,
           ReadLedger(p) \/ CreateTemp(p) \/ VerifyLock(p) \/ DropReads(p)
    PROVE  LedgerInv'
<1>1. /\ tfOp[p] \in Operations /\ tfView[p] \in [Slugs -> Keys \cup {NoKey}]
      /\ tfOp = [tfOp EXCEPT ![p] = tfOp[p]] /\ tfView = [tfView EXCEPT ![p] = tfView[p]]
  BY DEF LedgerInv, TfTypeOK
<1>2. /\ tfOp[p].slug \in Slugs /\ tfOp[p].key \in Keys \cup {NoKey}
      /\ tfOp[p].kind = "pin" => tfOp[p].key \in Keys
  BY <1>1 DEF Operations
<1>3. CASE ReadLedger(p)
  <2>1. CASE (tfOp[p].kind = "pin") = (tfLedger[tfOp[p].slug] = NoKey)
    <3>1. /\ tfView' = [tfView EXCEPT ![p] = [tfLedger EXCEPT ![tfOp[p].slug] = tfOp[p].key]]
          /\ Go(p, "temp") /\ UNCHANGED <<tfKept, tfLedger, tfLock, tfOld, tfOp, tfStolen>>
      BY <1>3, <2>1 DEF ReadLedger
    <3>2. QED
      BY <1>2, <2>1, <3>1 DEF Go, LedgerInv, TfTypeOK, UpToDate, Inside
  <2>2. CASE (tfOp[p].kind = "pin") # (tfLedger[tfOp[p].slug] = NoKey)
    <3>1. /\ tfKept' \subseteq tfKept \cup {<<tfOp[p].slug, tfLedger[tfOp[p].slug]>>}
          /\ tfKept' \subseteq Slugs \X Keys
          /\ Go(p, "drop") /\ UNCHANGED <<tfView, tfLedger, tfLock, tfOld, tfOp, tfStolen>>
      BY <1>2, <1>3, <2>2 DEF ReadLedger, LedgerInv, TfTypeOK
    <3>2. QED
      BY <3>1 DEF Go, LedgerInv, TfTypeOK, UpToDate, Inside
  <2>3. QED
    BY <2>1, <2>2
<1>4. CASE CreateTemp(p)
  <2>1. /\ tfAt[p] = "temp" /\ (Go(p, "verify") \/ Go(p, "drop"))
        /\ UNCHANGED <<tfLedger, tfLock, tfOld, tfOp, tfView, tfKept, tfStolen>>
    BY <1>4, Zenon DEF CreateTemp
  <2>2. CASE Go(p, "drop")
    BY <1>1, <2>1, <2>2, MoveKeeps
  <2>3. CASE Go(p, "verify")
    <3>1. \A q \in Procs : tfAt'[q] = IF q = p THEN "verify" ELSE tfAt[q]
      BY <2>3 DEF Go, LedgerInv, TfTypeOK
    <3>2. TfTypeOK'
      BY <2>1, <2>3 DEF Go, LedgerInv, TfTypeOK
    <3>3. QED
      BY <2>1, <3>1, <3>2 DEF LedgerInv, UpToDate, Inside
  <2>4. QED
    BY <2>1, <2>2, <2>3
<1>5. CASE VerifyLock(p)
  BY <1>5 DEF VerifyLock, StillHeld, Go, LedgerInv, TfTypeOK, UpToDate, Inside
<1>6. CASE DropReads(p)
  <2>1. CASE tfLock = p
    BY <1>1, <1>6, <2>1, MoveKeeps DEF DropReads, StillHeld
  <2>2. CASE tfLock # p
    BY <1>6, <2>2, MoveKeeps, AnOpIsOne DEF DropReads, StillHeld, Return
  <2>3. QED
    BY <2>1, <2>2
<1>7. QED
  BY <1>3, <1>4, <1>5, <1>6

\* The rename: the ledger that is replaced is the one that was read, so it loses
\* nothing but what is being forgotten, and a pin goes where there was none.
LEMMA RenameKeeps ==
    ASSUME LedgerInv, NEW p \in Procs, Rename(p)
    PROVE  LedgerInv'
<1> DEFINE o == tfOp[p]
<1>1. /\ o.slug \in Slugs /\ o.key \in Keys \cup {NoKey}
      /\ o.kind = "pin" => o.key \in Keys
  BY DEF LedgerInv, Operations
<1>2. /\ tfLedger' = tfView[p] /\ Go(p, "drop")
      /\ UNCHANGED <<tfLock, tfOld, tfOp, tfView, tfStolen>>
      /\ o.kind = "pin" => tfKept' = tfKept \cup {<<o.slug, o.key>>}
      /\ o.kind # "pin" => tfKept' = {k \in tfKept : k[1] # o.slug}
  BY DEF Rename
<1>3. TfTypeOK' /\ tfOp' \in [Procs -> Operations] /\ tfStolen' \in BOOLEAN
  BY <1>1, <1>2 DEF LedgerInv, TfTypeOK, Go
<1>4. \A q \in Procs : tfLock' = q => tfAt'[q] \in Inside
  BY <1>2 DEF LedgerInv, TfTypeOK, Go, Inside
<1>5. ASSUME ~tfStolen
      PROVE  /\ \A q \in Procs : tfAt'[q] = "rename" => tfLock' = q
             /\ \A q \in Procs :
                   tfLock' = q /\ tfAt'[q] \in {"temp", "verify", "rename"} => UpToDate(q)'
             /\ \A k \in tfKept' : tfLedger'[k[1]] = k[2]
  <2>1. tfLock = p /\ UpToDate(p)
    BY <1>5 DEF Rename, LedgerInv
  <2>2. /\ \A q \in Procs : tfAt'[q] = "rename" => tfLock' = q
        /\ \A q \in Procs :
              tfLock' = q /\ tfAt'[q] \in {"temp", "verify", "rename"} => UpToDate(q)'
    BY <1>2, <1>5, <2>1 DEF LedgerInv, TfTypeOK, Go
  <2>3. tfLedger' = [tfLedger EXCEPT ![o.slug] = o.key]
    BY <1>2, <2>1 DEF UpToDate
  <2>4. ASSUME NEW k \in tfKept' PROVE tfLedger'[k[1]] = k[2]
    <3>1. CASE k \in tfKept /\ k[1] # o.slug
      BY <1>5, <2>3, <3>1 DEF LedgerInv, TfTypeOK
    <3>2. CASE k = <<o.slug, o.key>>
      BY <1>1, <2>3, <3>2 DEF LedgerInv, TfTypeOK
    <3>3. CASE k \in tfKept /\ k[1] = o.slug /\ o.kind = "pin"
      <4>1. tfLedger[o.slug] = NoKey /\ k[2] \in Keys /\ tfLedger[k[1]] = k[2]
        BY <1>5, <2>1, <3>3 DEF LedgerInv, TfTypeOK, UpToDate
      <4>2. QED
        BY <3>3, <4>1, TofuAssumption
    <3>4. QED
      BY <1>2, <3>1, <3>2, <3>3
  <2>5. QED
    BY <2>2, <2>4
<1>6. QED
  BY <1>2, <1>3, <1>4, <1>5 DEF LedgerInv

-------------------------------------------------------------------------------
\* Every step keeps the invariant.
LEMMA LedgerStep == LedgerInv /\ [TfNext]_tfVars => LedgerInv'
<1> SUFFICES ASSUME LedgerInv, [TfNext]_tfVars PROVE LedgerInv'
  OBVIOUS
<1>1. ASSUME NEW p \in Procs, TfStep(p) \/ Crash(p) \/ \E op \in Operations : Call(p, op)
      PROVE  LedgerInv'
  BY <1>1, OutsideKeeps, LockKeeps, InsideKeeps, RenameKeeps DEF TfStep
<1>2. CASE LockAges \/ UNCHANGED tfVars
  BY <1>2 DEF LockAges, tfVars, LedgerInv, TfTypeOK, UpToDate
<1>3. QED
  BY <1>1, <1>2 DEF TfNext

\* A pin reported Ok stays until somebody forgets it, whatever processes crash or
\* stall and whoever breaks their locks, except in the instant between the last look
\* at the nonce and the rename (acquire_lock_file, verify_lock_still_held, write).
THEOREM PinsAreKept == TfSpec => []PinsSurvive
<1>1. LedgerInv => PinsSurvive
  BY DEF LedgerInv, PinsSurvive
<1>2. QED
  BY <1>1, LedgerInit, LedgerStep, PTL DEF TfSpec
===============================================================================
