-------------------------- MODULE ReportStoreProofs -------------------------
(***************************************************************************)
(* For any number of reports, flushers and restarts: the invariants of     *)
(* ReportStore, that it implements ReportMailbox, and that no report is    *)
(* posted twice without a reason.  Reports have names of their own.        *)
(***************************************************************************)
EXTENDS ReportStore, TLAPS

DistinctNames == \A r, s \in Reports : NameOf[r] = NameOf[s] => r = s

\* What a report's file holds, given where its to_storage is.
FileOf(r) ==
    /\ file[NameOf[r]] \in {Absent, Partial, r}
    /\ writer[r] = "none" => file[NameOf[r]] = Absent
    /\ writer[r] # "done" => file[NameOf[r]] # r /\ r \notin tried
    /\ r \in linked => /\ writer[r] = "open" /\ file[NameOf[r]] = Partial
                       /\ NameOf[r] \notin old

FileOfReport ==
    /\ \A n \in Names : file[n] \in Reports => NameOf[file[n]] = n
    /\ \A r \in Reports : FileOf(r)

\* Where a flusher is, and what it knows of the report of the file it is at.
\* An old file does not change under the flusher, and a young one stays young.
FlusherKnows ==
    \A f \in Flushers, r \in Reports :
        pc[f] \in {"delete", "expire"} /\ cur[f] = NameOf[r] =>
            /\ file[NameOf[r]] = r /\ NameOf[r] \in old => r \in tried
            /\ pc[f] = "delete" =>
                  /\ writer[r] # "none"
                  /\ file[NameOf[r]] = r \/ r \in linked => r \in accepted \cup torn

\* A file registered with deleteOnExit is whole, expired and tried.
DoomedTried ==
    \A r \in Reports : NameOf[r] \in doomed =>
        /\ writer[r] # "none" /\ r \notin linked
        /\ file[NameOf[r]] = r => NameOf[r] \in old /\ r \in tried

\* An accepted report is about to be deleted, unless its file was kept.
AcceptedGone ==
    \A r \in accepted : file[NameOf[r]] = r =>
        r \in kept \/ \E f \in Flushers : pc[f] = "delete" /\ cur[f] = NameOf[r]

OldExists == \A n \in old : Exists(n)

StoreInv == TypeOK /\ FileOfReport /\ OldExists /\ FlusherKnows /\ DoomedTried /\ AcceptedGone

-----------------------------------------------------------------------------

\* Each step keeps the types.
LEMMA TypeStep ==
    ASSUME TypeOK, [Next]_vars
    PROVE  TypeOK'
<1> USE StoreAssumption, NamesAssumption DEF TypeOK,
        disk, writing, flushing, posted, FlusherGoto, Exists, Held, NamedBy, SetFile
<1>1. ASSUME NEW r \in Reports, Open(r) PROVE TypeOK'
  BY <1>1 DEF Open
<1>2. ASSUME NEW r \in Reports, OpenFails(r) PROVE TypeOK'
  BY <1>2 DEF OpenFails
<1>3. ASSUME NEW r \in Reports, Write(r) PROVE TypeOK'
  BY <1>3 DEF Write
<1>4. ASSUME NEW n \in Names, Age(n) PROVE TypeOK'
  BY <1>4 DEF Age
<1>5. ASSUME NEW f \in Flushers, Flush(f) PROVE TypeOK'
  BY <1>5 DEF Flush
<1>6. ASSUME NEW f \in Flushers, NextReport(f) PROVE TypeOK'
  BY <1>6 DEF NextReport
<1>7. ASSUME NEW f \in Flushers, FlushDone(f) PROVE TypeOK'
  BY <1>7 DEF FlushDone
<1>8. ASSUME NEW f \in Flushers, Consume(f) PROVE TypeOK'
  BY <1>8 DEF Consume
<1>9. ASSUME NEW f \in Flushers, Refuse(f) PROVE TypeOK'
  BY <1>9 DEF Refuse, Refused
<1>10. ASSUME NEW f \in Flushers, Unposted(f) PROVE TypeOK'
  BY <1>10 DEF Unposted
<1>11. ASSUME NEW f \in Flushers, Delete(f) PROVE TypeOK'
  BY <1>11 DEF Delete
<1>12. ASSUME NEW f \in Flushers, DeleteFails(f) PROVE TypeOK'
  BY <1>12 DEF DeleteFails
<1>13. ASSUME NEW f \in Flushers, ExpireReport(f) PROVE TypeOK'
  BY <1>13 DEF ExpireReport
<1>14. CASE Kill
  BY <1>14 DEF Kill, Relaunch
<1>15. CASE Exit
  BY <1>15 DEF Exit, Relaunch
<1>16. CASE UNCHANGED vars
  BY <1>16 DEF vars
<1> QED
  BY <1>1, <1>2, <1>3, <1>4, <1>5, <1>6, <1>7, <1>8, <1>9, <1>10,
     <1>11, <1>12, <1>13, <1>14, <1>15, <1>16
  DEF Next, FlusherStep

\* A file is written by its own report's to_storage only.
LEMMA FileStep ==
    ASSUME DistinctNames, TypeOK, FileOfReport, [Next]_vars
    PROVE  FileOfReport'
<1> USE StoreAssumption, NamesAssumption DEF TypeOK, FileOfReport, FileOf,
        disk, writing, flushing, posted, FlusherGoto, Exists, Held, NamedBy, SetFile
<1>1. ASSUME NEW r \in Reports, Open(r) PROVE FileOfReport'
  <2>1. \A n \in Names : file'[n] \in Reports => NameOf[file'[n]] = n
    BY <1>1 DEF Open
  <2>2. ASSUME NEW s \in Reports, s = r PROVE FileOf(s)'
    BY <1>1, <2>2 DEF Open
  <2>3. ASSUME NEW s \in Reports, s # r PROVE FileOf(s)'
    BY <1>1, <2>3 DEF Open, DistinctNames
  <2> QED
    BY <2>1, <2>2, <2>3
<1>2. ASSUME NEW r \in Reports, OpenFails(r) PROVE FileOfReport'
  BY <1>2 DEF OpenFails
<1>3. ASSUME NEW r \in Reports, Write(r) PROVE FileOfReport'
  <2>1. \A n \in Names : file'[n] \in Reports => NameOf[file'[n]] = n
    BY <1>3 DEF Write
  <2>2. ASSUME NEW s \in Reports, s = r PROVE FileOf(s)'
    BY <1>3, <2>2 DEF Write
  <2>3. ASSUME NEW s \in Reports, s # r PROVE FileOf(s)'
    BY <1>3, <2>3 DEF Write, DistinctNames
  <2> QED
    BY <2>1, <2>2, <2>3
<1>4. ASSUME NEW n \in Names, Age(n) PROVE FileOfReport'
  BY <1>4 DEF Age
<1>5. ASSUME NEW f \in Flushers, Flush(f) PROVE FileOfReport'
  BY <1>5 DEF Flush
<1>6. ASSUME NEW f \in Flushers, NextReport(f) PROVE FileOfReport'
  BY <1>6 DEF NextReport
<1>7. ASSUME NEW f \in Flushers, FlushDone(f) PROVE FileOfReport'
  BY <1>7 DEF FlushDone
<1>8. ASSUME NEW f \in Flushers, Consume(f) PROVE FileOfReport'
  BY <1>8 DEF Consume
<1>9. ASSUME NEW f \in Flushers, Refuse(f) PROVE FileOfReport'
  BY <1>9 DEF Refuse, Refused
<1>10. ASSUME NEW f \in Flushers, Unposted(f) PROVE FileOfReport'
  BY <1>10 DEF Unposted
<1>11. ASSUME NEW f \in Flushers, Delete(f) PROVE FileOfReport'
  BY <1>11 DEF Delete
<1>12. ASSUME NEW f \in Flushers, DeleteFails(f) PROVE FileOfReport'
  BY <1>12 DEF DeleteFails
<1>13. ASSUME NEW f \in Flushers, ExpireReport(f) PROVE FileOfReport'
  BY <1>13 DEF ExpireReport
<1>14. CASE Kill
  BY <1>14 DEF Kill, Relaunch
<1>15. CASE Exit
  BY <1>15 DEF Exit, Relaunch
<1>16. CASE UNCHANGED vars
  BY <1>16 DEF vars
<1> QED
  BY <1>1, <1>2, <1>3, <1>4, <1>5, <1>6, <1>7, <1>8, <1>9, <1>10,
     <1>11, <1>12, <1>13, <1>14, <1>15, <1>16
  DEF Next, FlusherStep

\* Only a file that exists gets old.
LEMMA OldStep ==
    ASSUME TypeOK, OldExists, [Next]_vars
    PROVE  OldExists'
<1> USE StoreAssumption, NamesAssumption DEF TypeOK, OldExists,
        disk, writing, flushing, posted, FlusherGoto, Exists, Held, NamedBy, SetFile
<1>1. ASSUME NEW r \in Reports, Open(r) PROVE OldExists'
  BY <1>1 DEF Open
<1>2. ASSUME NEW r \in Reports, OpenFails(r) PROVE OldExists'
  BY <1>2 DEF OpenFails
<1>3. ASSUME NEW r \in Reports, Write(r) PROVE OldExists'
  BY <1>3 DEF Write
<1>4. ASSUME NEW n \in Names, Age(n) PROVE OldExists'
  BY <1>4 DEF Age
<1>5. ASSUME NEW f \in Flushers, Flush(f) PROVE OldExists'
  BY <1>5 DEF Flush
<1>6. ASSUME NEW f \in Flushers, NextReport(f) PROVE OldExists'
  BY <1>6 DEF NextReport
<1>7. ASSUME NEW f \in Flushers, FlushDone(f) PROVE OldExists'
  BY <1>7 DEF FlushDone
<1>8. ASSUME NEW f \in Flushers, Consume(f) PROVE OldExists'
  BY <1>8 DEF Consume
<1>9. ASSUME NEW f \in Flushers, Refuse(f) PROVE OldExists'
  BY <1>9 DEF Refuse, Refused
<1>10. ASSUME NEW f \in Flushers, Unposted(f) PROVE OldExists'
  BY <1>10 DEF Unposted
<1>11. ASSUME NEW f \in Flushers, Delete(f) PROVE OldExists'
  BY <1>11 DEF Delete
<1>12. ASSUME NEW f \in Flushers, DeleteFails(f) PROVE OldExists'
  BY <1>12 DEF DeleteFails
<1>13. ASSUME NEW f \in Flushers, ExpireReport(f) PROVE OldExists'
  BY <1>13 DEF ExpireReport
<1>14. CASE Kill
  BY <1>14 DEF Kill, Relaunch
<1>15. CASE Exit
  BY <1>15 DEF Exit, Relaunch
<1>16. CASE UNCHANGED vars
  BY <1>16 DEF vars
<1> QED
  BY <1>1, <1>2, <1>3, <1>4, <1>5, <1>6, <1>7, <1>8, <1>9, <1>10,
     <1>11, <1>12, <1>13, <1>14, <1>15, <1>16
  DEF Next, FlusherStep

\* What a flusher knows of its file stays true while other threads go on.
LEMMA FlusherStepKnows ==
    ASSUME TypeOK, FileOfReport, OldExists, FlusherKnows, [Next]_vars
    PROVE  FlusherKnows'
<1> USE StoreAssumption, NamesAssumption DEF TypeOK, FileOfReport, FileOf, OldExists, FlusherKnows,
        disk, writing, flushing, posted, FlusherGoto, Exists, Held, NamedBy, SetFile
<1>1. ASSUME NEW r \in Reports, Open(r) PROVE FlusherKnows'
  BY <1>1 DEF Open
<1>2. ASSUME NEW r \in Reports, OpenFails(r) PROVE FlusherKnows'
  BY <1>2 DEF OpenFails
<1>3. ASSUME NEW r \in Reports, Write(r) PROVE FlusherKnows'
  BY <1>3 DEF Write
<1>4. ASSUME NEW n \in Names, Age(n) PROVE FlusherKnows'
  BY <1>4 DEF Age
<1>5. ASSUME NEW f \in Flushers, Flush(f) PROVE FlusherKnows'
  BY <1>5 DEF Flush
<1>6. ASSUME NEW f \in Flushers, NextReport(f) PROVE FlusherKnows'
  BY <1>6 DEF NextReport
<1>7. ASSUME NEW f \in Flushers, FlushDone(f) PROVE FlusherKnows'
  BY <1>7 DEF FlushDone
<1>8. ASSUME NEW f \in Flushers, Consume(f) PROVE FlusherKnows'
  BY <1>8 DEF Consume
<1>9. ASSUME NEW f \in Flushers, Refuse(f) PROVE FlusherKnows'
  BY <1>9 DEF Refuse, Refused
<1>10. ASSUME NEW f \in Flushers, Unposted(f) PROVE FlusherKnows'
  BY <1>10 DEF Unposted
<1>11. ASSUME NEW f \in Flushers, Delete(f) PROVE FlusherKnows'
  BY <1>11 DEF Delete
<1>12. ASSUME NEW f \in Flushers, DeleteFails(f) PROVE FlusherKnows'
  BY <1>12 DEF DeleteFails
<1>13. ASSUME NEW f \in Flushers, ExpireReport(f) PROVE FlusherKnows'
  BY <1>13 DEF ExpireReport
<1>14. CASE Kill
  BY <1>14 DEF Kill, Relaunch
<1>15. CASE Exit
  BY <1>15 DEF Exit, Relaunch
<1>16. CASE UNCHANGED vars
  BY <1>16 DEF vars
<1> QED
  BY <1>1, <1>2, <1>3, <1>4, <1>5, <1>6, <1>7, <1>8, <1>9, <1>10,
     <1>11, <1>12, <1>13, <1>14, <1>15, <1>16
  DEF Next, FlusherStep

\* Only expired reports that were tried are registered for deletion.
LEMMA DoomedStep ==
    ASSUME TypeOK, FileOfReport, OldExists, FlusherKnows, DoomedTried, [Next]_vars
    PROVE  DoomedTried'
<1> USE StoreAssumption, NamesAssumption DEF TypeOK, FileOfReport, FileOf, OldExists, FlusherKnows,
        DoomedTried,
        disk, writing, flushing, posted, FlusherGoto, Exists, Held, NamedBy, SetFile
<1>1. ASSUME NEW r \in Reports, Open(r) PROVE DoomedTried'
  BY <1>1 DEF Open
<1>2. ASSUME NEW r \in Reports, OpenFails(r) PROVE DoomedTried'
  BY <1>2 DEF OpenFails
<1>3. ASSUME NEW r \in Reports, Write(r) PROVE DoomedTried'
  BY <1>3 DEF Write
<1>4. ASSUME NEW n \in Names, Age(n) PROVE DoomedTried'
  BY <1>4 DEF Age
<1>5. ASSUME NEW f \in Flushers, Flush(f) PROVE DoomedTried'
  BY <1>5 DEF Flush
<1>6. ASSUME NEW f \in Flushers, NextReport(f) PROVE DoomedTried'
  BY <1>6 DEF NextReport
<1>7. ASSUME NEW f \in Flushers, FlushDone(f) PROVE DoomedTried'
  BY <1>7 DEF FlushDone
<1>8. ASSUME NEW f \in Flushers, Consume(f) PROVE DoomedTried'
  BY <1>8 DEF Consume
<1>9. ASSUME NEW f \in Flushers, Refuse(f) PROVE DoomedTried'
  BY <1>9 DEF Refuse, Refused
<1>10. ASSUME NEW f \in Flushers, Unposted(f) PROVE DoomedTried'
  BY <1>10 DEF Unposted
<1>11. ASSUME NEW f \in Flushers, Delete(f) PROVE DoomedTried'
  BY <1>11 DEF Delete
<1>12. ASSUME NEW f \in Flushers, DeleteFails(f) PROVE DoomedTried'
  BY <1>12 DEF DeleteFails
<1>13. ASSUME NEW f \in Flushers, ExpireReport(f) PROVE DoomedTried'
  BY <1>13 DEF ExpireReport
<1>14. CASE Kill
  BY <1>14 DEF Kill, Relaunch
<1>15. CASE Exit
  BY <1>15 DEF Exit, Relaunch
<1>16. CASE UNCHANGED vars
  BY <1>16 DEF vars
<1> QED
  BY <1>1, <1>2, <1>3, <1>4, <1>5, <1>6, <1>7, <1>8, <1>9, <1>10,
     <1>11, <1>12, <1>13, <1>14, <1>15, <1>16
  DEF Next, FlusherStep

\* The lock keeps an accepted report from the other flushers.
LEMMA AcceptedStep ==
    ASSUME TypeOK, FileOfReport, AcceptedGone, [Next]_vars
    PROVE  AcceptedGone'
<1> USE StoreAssumption, NamesAssumption DEF TypeOK, FileOfReport, FileOf, AcceptedGone,
        disk, writing, flushing, posted, FlusherGoto, Exists, Held, NamedBy, SetFile
<1>1. ASSUME NEW r \in Reports, Open(r) PROVE AcceptedGone'
  BY <1>1 DEF Open
<1>2. ASSUME NEW r \in Reports, OpenFails(r) PROVE AcceptedGone'
  BY <1>2 DEF OpenFails
<1>3. ASSUME NEW r \in Reports, Write(r) PROVE AcceptedGone'
  BY <1>3 DEF Write
<1>4. ASSUME NEW n \in Names, Age(n) PROVE AcceptedGone'
  BY <1>4 DEF Age
<1>5. ASSUME NEW f \in Flushers, Flush(f) PROVE AcceptedGone'
  BY <1>5 DEF Flush
<1>6. ASSUME NEW f \in Flushers, NextReport(f) PROVE AcceptedGone'
  BY <1>6 DEF NextReport
<1>7. ASSUME NEW f \in Flushers, FlushDone(f) PROVE AcceptedGone'
  BY <1>7 DEF FlushDone
<1>8. ASSUME NEW f \in Flushers, Consume(f) PROVE AcceptedGone'
  BY <1>8 DEF Consume
<1>9. ASSUME NEW f \in Flushers, Refuse(f) PROVE AcceptedGone'
  BY <1>9 DEF Refuse, Refused
<1>10. ASSUME NEW f \in Flushers, Unposted(f) PROVE AcceptedGone'
  BY <1>10 DEF Unposted
<1>11. ASSUME NEW f \in Flushers, Delete(f) PROVE AcceptedGone'
  BY <1>11 DEF Delete
<1>12. ASSUME NEW f \in Flushers, DeleteFails(f) PROVE AcceptedGone'
  BY <1>12 DEF DeleteFails
<1>13. ASSUME NEW f \in Flushers, ExpireReport(f) PROVE AcceptedGone'
  BY <1>13 DEF ExpireReport
<1>14. CASE Kill
  BY <1>14 DEF Kill, Relaunch
<1>15. CASE Exit
  BY <1>15 DEF Exit, Relaunch
<1>16. CASE UNCHANGED vars
  BY <1>16 DEF vars
<1> QED
  BY <1>1, <1>2, <1>3, <1>4, <1>5, <1>6, <1>7, <1>8, <1>9, <1>10,
     <1>11, <1>12, <1>13, <1>14, <1>15, <1>16
  DEF Next, FlusherStep

-----------------------------------------------------------------------------
\* TypeOK holds in every reachable state, and whoever is flushing holds the
\* lock (AgentNDK.kt:101), whether or not reports have names of their own.
THEOREM TypeInvariant == Spec => []TypeOK
<1>1. Init => TypeOK
  BY StoreAssumption, NamesAssumption DEF Init, TypeOK
<1> QED
  BY <1>1, TypeStep, PTL DEF Spec

\* The invariant behind the theorems below: what file, flusher, deleteOnExit
\* registration and listener know of each report (serializer.cpp:44 and
\* AgentNDK.kt:100-173).
THEOREM StoreInvariant ==
    ASSUME DistinctNames
    PROVE  Spec => []StoreInv
<1>1. Init => StoreInv
  BY StoreAssumption, NamesAssumption
  DEF Init, StoreInv, TypeOK, FileOfReport, FileOf, OldExists, FlusherKnows,
      DoomedTried, AcceptedGone, Exists
<1>2. StoreInv /\ [Next]_vars => StoreInv'
  BY TypeStep, FileStep, OldStep, FlusherStepKnows, DoomedStep, AcceptedStep DEF StoreInv
<1> QED
  BY <1>1, <1>2, PTL DEF Spec

\* A report that the listener has accepted is not posted again, unless its file
\* was kept (AgentNDK.kt:101 and 161).
THEOREM PostedOnce ==
    ASSUME DistinctNames
    PROVE  Spec => NoDoublePost
<1>1. ASSUME StoreInv, NEW f \in Flushers, Consume(f)
      PROVE  Held(f) \cap accepted \subseteq kept
  <2> SUFFICES ASSUME NEW r \in Reports, r \in accepted, file[cur[f]] = r, r \notin kept
               PROVE  FALSE
    BY DEF Held
  <2>1. cur[f] \in Names /\ pc[f] = "post" /\ lock = f
    BY <1>1 DEF StoreInv, TypeOK, Consume, FlusherGoto
  <2>2. NameOf[r] = cur[f]
    BY <1>1, <2>1 DEF StoreInv, FileOfReport
  <2>3. PICK g \in Flushers : pc[g] = "delete" /\ cur[g] = NameOf[r]
    BY <1>1, <2>2 DEF StoreInv, AcceptedGone
  <2>4. lock = g
    BY <1>1, <2>3 DEF StoreInv, TypeOK
  <2> QED
    BY <2>1, <2>3, <2>4
<1>2. StoreInv /\ [Next]_vars =>
          [\A f \in Flushers : Consume(f) => Held(f) \cap accepted \subseteq kept]_vars
  BY <1>1
<1> QED
  BY <1>2, StoreInvariant, PTL DEF Spec, NoDoublePost

-----------------------------------------------------------------------------
Expired == {r \in Stored : NameOf[r] \in old}

\* The steps that the mailbox does not see.
LEMMA Unseen ==
    ASSUME Stored' = Stored, Expired' = Expired, (tried \ torn)' = tried \ torn,
           (accepted \ torn)' = accepted \ torn
    PROVE  UNCHANGED Mailbox!mailbox
BY DEF Mailbox!mailbox, Expired

\* A post that hands the listener what the file holds is Try of the mailbox, or
\* is not seen when the file is not whole or was handed over half-written.
LEMMA PostTries ==
    ASSUME StoreInv, NEW f \in Flushers, cur[f] \in Names,
           UNCHANGED <<file, old>>,
           tried' = tried \cup Held(f),
           accepted' \in {accepted, accepted \cup Held(f)},
           \/ torn' = torn
           \/ torn' = torn \cup (linked \cap NamedBy({cur[f]}))
    PROVE  [Mailbox!Next]_(Mailbox!mailbox)
<1> USE StoreAssumption, NamesAssumption
<1>1. \A r \in linked : r \in Reports /\ file[NameOf[r]] # r /\ r \notin tried /\ r \notin accepted
  BY DEF StoreInv, TypeOK, FileOfReport, FileOf
<1>2. Stored' = Stored /\ Expired' = Expired
  BY <1>1 DEF Stored, Expired, NamedBy
<1>3. CASE Held(f) = {} \/ Held(f) \subseteq torn
  <2>1. (tried \ torn)' = tried \ torn /\ (accepted \ torn)' = accepted \ torn
    BY <1>1, <1>3
  <2> QED
    BY <1>2, <2>1, Unseen
<1>4. CASE ~(Held(f) = {} \/ Held(f) \subseteq torn)
  <2>1. PICK r \in Reports : Held(f) = {r} /\ file[cur[f]] = r /\ r \notin torn
    BY <1>4 DEF Held
  <2>2. NameOf[r] = cur[f]
    BY <2>1 DEF StoreInv, FileOfReport
  <2>3. r \in Stored /\ r \notin linked
    BY <1>1, <2>1, <2>2 DEF Stored
  <2>4. (tried \ torn)' = (tried \ torn) \cup {r}
    BY <1>1, <2>1, <2>3
  <2>5. (accepted \ torn)' \in {accepted \ torn, (accepted \ torn) \cup {r}}
    BY <1>1, <2>1, <2>3
  <2>6. Mailbox!Try(r)
    BY <1>2, <2>3, <2>4, <2>5 DEF Mailbox!Try, Expired
  <2> QED
    BY <2>6 DEF Mailbox!Next
<1> QED
  BY <1>3, <1>4

\* A set of reports that leaves storage after it was accepted, or had expired
\* and was tried.
LEMMA Removes ==
    ASSUME NEW S \in SUBSET Stored, \A r \in S : r \in accepted \/ (r \in Expired /\ r \in tried),
           Stored' = Stored \ S, Expired' = Expired \ S,
           UNCHANGED <<tried, accepted, torn>>
    PROVE  [Mailbox!Next]_(Mailbox!mailbox)
<1>1. CASE S = {}
  BY <1>1, Unseen
<1>2. CASE S # {}
  <2>1. S \in SUBSET Reports /\ S \cap torn = {}
    BY DEF Stored
  <2>2. Mailbox!Remove(S)
    BY <1>2, <2>1 DEF Mailbox!Remove, Mailbox!Removable, Expired
  <2> QED
    BY <2>1, <2>2 DEF Mailbox!Next
<1> QED
  BY <1>1, <1>2

\* Each step of storage is a step of the mailbox or is not seen by it.
LEMMA MailboxStep ==
    ASSUME DistinctNames, StoreInv, [Next]_vars
    PROVE  [Mailbox!Next]_(Mailbox!mailbox)
<1> USE StoreAssumption, NamesAssumption
    DEF disk, writing, flushing, posted, FlusherGoto, Exists, SetFile
<1> TypeOK
  BY DEF StoreInv
<1>1. ASSUME NEW r \in Reports, Open(r) PROVE [Mailbox!Next]_(Mailbox!mailbox)
  <2>1. file[NameOf[r]] = Absent /\ NameOf[r] \notin old
    BY <1>1 DEF Open, StoreInv, FileOfReport, FileOf, OldExists
  <2>2. Stored' = Stored /\ Expired' = Expired
    BY <1>1, <2>1 DEF Open, Stored, Expired, TypeOK
  <2> QED
    BY <1>1, <2>2, Unseen DEF Open
<1>2. ASSUME NEW r \in Reports, Write(r) PROVE [Mailbox!Next]_(Mailbox!mailbox)
  <2>1. CASE r \notin linked
    BY <1>2, <2>1, Unseen DEF Write, Stored, Expired
  <2>2. CASE r \in linked
    <3>1. file[NameOf[r]] = Partial /\ NameOf[r] \notin old /\ r \notin Stored
      BY <2>2 DEF StoreInv, FileOfReport, FileOf, Stored
    <3>2. Expired' = Expired
      BY <1>2, <2>2, <3>1 DEF Write, Stored, Expired, TypeOK, DistinctNames
    <3>3. Stored' = IF r \in torn THEN Stored ELSE Stored \cup {r}
      BY <1>2, <2>2, <3>1 DEF Write, Stored, TypeOK, DistinctNames
    <3>4. CASE r \in torn
      BY <1>2, <3>2, <3>3, <3>4, Unseen DEF Write
    <3>5. CASE r \notin torn
      <4>1. Mailbox!Put(r)
        BY <1>2, <3>1, <3>2, <3>3, <3>5 DEF Write, Mailbox!Put, Expired
      <4> QED
        BY <4>1 DEF Mailbox!Next
    <3> QED
      BY <3>4, <3>5
  <2> QED
    BY <2>1, <2>2
<1>3. ASSUME NEW n \in Names, Age(n) PROVE [Mailbox!Next]_(Mailbox!mailbox)
  <2>1. Stored' = Stored
    BY <1>3 DEF Age, Stored
  <2>2. CASE \E r \in Stored : NameOf[r] = n
    <3>1. PICK r \in Stored : NameOf[r] = n
      BY <2>2
    <3>2. r \in Reports
      BY DEF Stored
    <3>3. Expired' = Expired \cup {r}
      BY <1>3, <2>1, <3>1, <3>2 DEF Age, Stored, Expired, DistinctNames
    <3>4. Mailbox!Expire(r)
      BY <1>3, <2>1, <3>1, <3>3 DEF Age, Mailbox!Expire, Expired
    <3> QED
      BY <3>2, <3>4 DEF Mailbox!Next
  <2>3. CASE ~\E r \in Stored : NameOf[r] = n
    <3>1. Expired' = Expired
      BY <1>3, <2>1, <2>3 DEF Age, Expired
    <3> QED
      BY <1>3, <2>1, <3>1, Unseen DEF Age
  <2> QED
    BY <2>2, <2>3
<1>4. ASSUME NEW f \in Flushers, Consume(f) \/ Refuse(f) \/ Unposted(f)
      PROVE  [Mailbox!Next]_(Mailbox!mailbox)
  <2>1. cur[f] \in Names
    BY <1>4 DEF Consume, Refuse, Unposted, TypeOK
  <2> QED
    BY <1>4, <2>1, PostTries DEF Consume, Refuse, Refused, Unposted
<1>5. ASSUME NEW f \in Flushers, Delete(f) PROVE [Mailbox!Next]_(Mailbox!mailbox)
  <2> DEFINE S == {r \in Stored : NameOf[r] = cur[f]}
  <2>1. cur[f] \in Names /\ pc[f] = "delete"
    BY <1>5 DEF Delete, TypeOK
  <2>2. \A r \in S : r \in accepted
    BY <2>1 DEF Stored, StoreInv, FlusherKnows
  <2>3. Stored' = Stored \ S
    BY <1>5, <2>1 DEF Delete, Stored, TypeOK
  <2>4. Expired' = Expired \ S
    BY <1>5, <2>1, <2>3 DEF Delete, Expired, Stored
  <2>5. UNCHANGED <<tried, accepted, torn>>
    BY <1>5 DEF Delete
  <2> QED
    <3>1. S \in SUBSET Stored
      OBVIOUS
    <3> HIDE DEF S
    <3> QED
      BY <2>2, <2>3, <2>4, <2>5, <3>1, Removes
<1>6. CASE Exit
  <2> DEFINE S == {r \in Stored : NameOf[r] \in doomed}
  <2>1. \A r \in S : r \in Expired /\ r \in tried
    BY DEF Stored, Expired, StoreInv, DoomedTried
  <2>2. Stored' = Stored \ S
    BY <1>6 DEF Exit, Relaunch, Stored, TypeOK
  <2>3. Expired' = Expired \ S
    BY <1>6, <2>2 DEF Exit, Expired, Stored
  <2>4. UNCHANGED <<tried, accepted, torn>>
    BY <1>6 DEF Exit, Relaunch
  <2> QED
    <3>1. S \in SUBSET Stored
      OBVIOUS
    <3> HIDE DEF S
    <3> QED
      BY <2>1, <2>2, <2>3, <2>4, <3>1, Removes
<1>7. ASSUME UNCHANGED <<file, old, tried, accepted, torn>>
      PROVE  [Mailbox!Next]_(Mailbox!mailbox)
  BY <1>7, Unseen DEF Stored, Expired
<1>8. ASSUME NEW r \in Reports, OpenFails(r) PROVE UNCHANGED <<file, old, tried, accepted, torn>>
  BY <1>8 DEF OpenFails
<1>9. ASSUME NEW f \in Flushers,
             Flush(f) \/ NextReport(f) \/ FlushDone(f)
               \/ DeleteFails(f) \/ ExpireReport(f)
      PROVE UNCHANGED <<file, old, tried, accepted, torn>>
  BY <1>9 DEF Flush, NextReport, FlushDone, DeleteFails, ExpireReport
<1>10. Kill \/ UNCHANGED vars => UNCHANGED <<file, old, tried, accepted, torn>>
  BY DEF Kill, Relaunch, vars
<1> QED
  BY <1>1, <1>2, <1>3, <1>4, <1>5, <1>6, <1>7, <1>8, <1>9, <1>10 DEF Next, FlusherStep

\* Storage keeps the promise of the mailbox (README.md:105 and 113): a report is
\* removed only after it was accepted or, expired, after an attempt to post it.
THEOREM StorageIsMailbox ==
    ASSUME DistinctNames
    PROVE  Spec => MailboxSpec
<1>1. Init => Mailbox!Init
  BY NamesAssumption, StoreAssumption DEF Init, Mailbox!Init, Stored
<1>2. StoreInv /\ [Next]_vars => [Mailbox!Next]_(Mailbox!mailbox)
  BY MailboxStep
<1> QED
  BY <1>1, <1>2, StoreInvariant, PTL DEF Spec, MailboxSpec, Mailbox!Spec


=============================================================================
