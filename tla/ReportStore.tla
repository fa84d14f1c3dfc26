---------------------------- MODULE ReportStore ----------------------------
(***************************************************************************)
(* Native reports between the handler that writes them (serializer.cpp)    *)
(* and the listener that consumes them (flushPendingReports and postReport *)
(* of AgentNDK.kt).  Storage is a directory of files that outlives the     *)
(* process; the process may be killed, or exit, at any moment.             *)
(*                                                                         *)
(* A report r is one run of to_storage.  The file name is made of the kind *)
(* and the time in milliseconds: NameOf[r] is the name r gets.             *)
(***************************************************************************)
EXTENDS Naturals, FiniteSets

CONSTANTS
    Reports,     \* the reports that handlers will write
    Names,       \* file names
    NameOf,      \* the name generateTmpFilename makes for each report
    Flushers,    \* threads that call flushPendingReports
    Rejected,    \* environment: the reports the listener never accepts
    MaxEnds,     \* bound: how often the process is killed or exits
    Failures     \* environment: the file operations that may fail

ASSUME StoreAssumption ==
    /\ NameOf \in [Reports -> Names]
    /\ Rejected \subseteq Reports
    /\ MaxEnds \in Nat
    /\ Failures \subseteq {"open", "read", "delete", "listener"}

Absent  == "absent"     \* there is no such file
Partial == "partial"    \* the file exists without its whole report
NoOne   == "no one"
NoName  == "no name"

ASSUME NamesAssumption ==
    /\ {Absent, Partial} \cap Reports = {}
    /\ NoOne \notin Flushers /\ NoName \notin Names

VARIABLES
    file,      \* what each name holds: nothing, a partial file, or a report
    old,       \* the names whose file is past the expiration period
    writer,    \* where each report's to_storage is
    linked,    \* the reports whose open file is still in the directory
    pc,        \* where each flusher is
    todo,      \* the rest of each flusher's listing
    cur,       \* the file each flusher is at
    lock,      \* the holder of AgentNDK.lock
    doomed,    \* the names registered with deleteOnExit
    ends,      \* how often the process has ended
    tried,     \* the reports a flush tried to post
    offered,   \* those of them that the listener was given
    accepted,  \* the reports the listener consumed
    kept,      \* the accepted reports whose file could not be deleted
    torn       \* the reports the listener was given half-written

disk     == <<file, old>>
writing  == <<writer, linked>>
flushing == <<pc, todo, cur, lock>>
posted   == <<tried, offered, accepted, kept, torn>>
vars     == <<disk, writing, flushing, doomed, ends, posted>>

TypeOK ==
    /\ file \in [Names -> {Absent, Partial} \cup Reports]
    /\ old \subseteq Names
    /\ writer \in [Reports -> {"none", "open", "done"}]
    /\ linked \subseteq Reports
    /\ pc \in [Flushers -> {"idle", "next", "post", "delete", "expire"}]
    /\ todo \in [Flushers -> SUBSET Names]
    /\ cur \in [Flushers -> Names \cup {NoName}]
    /\ lock \in Flushers \cup {NoOne}
    /\ doomed \subseteq Names
    /\ ends \in 0..MaxEnds
    /\ \A f \in Flushers : pc[f] # "idle" => lock = f
    /\ \A f \in Flushers : pc[f] \notin {"idle", "next"} => cur[f] \in Names
    /\ tried \subseteq Reports /\ offered \subseteq tried /\ accepted \subseteq offered
    /\ kept \subseteq Reports /\ torn \subseteq Reports

Init ==
    /\ file = [n \in Names |-> Absent] /\ old = {}
    /\ writer = [r \in Reports |-> "none"] /\ linked = {}
    /\ pc = [f \in Flushers |-> "idle"]
    /\ todo = [f \in Flushers |-> {}]
    /\ cur = [f \in Flushers |-> NoName]
    /\ lock = NoOne
    /\ doomed = {} /\ ends = 0
    /\ tried = {} /\ offered = {} /\ accepted = {} /\ kept = {} /\ torn = {}

Exists(n)    == file[n] # Absent
NamedBy(S)   == {r \in Reports : NameOf[r] \in S}
SetFile(n, content) == file' = [file EXCEPT ![n] = content]

-----------------------------------------------------------------------------
(* to_storage, in a handler of the process                                 *)

\* The stream is opened for output, which creates or truncates the file.
Open(r) ==
    /\ writer[r] = "none"
    /\ writer' = [writer EXCEPT ![r] = "open"]
    /\ SetFile(NameOf[r], Partial)
    /\ linked' = linked \cup {r}
    /\ old' = old \ {NameOf[r]}
    /\ UNCHANGED <<flushing, doomed, ends, posted>>

OpenFails(r) ==
    /\ "open" \in Failures
    /\ writer[r] = "none"
    /\ writer' = [writer EXCEPT ![r] = "done"]
    /\ UNCHANGED <<disk, linked, flushing, doomed, ends, posted>>

\* write, flush and close; into a file that may have been deleted meanwhile.
Write(r) ==
    /\ writer[r] = "open"
    /\ writer' = [writer EXCEPT ![r] = "done"]
    /\ IF r \in linked
          THEN SetFile(NameOf[r], r) /\ old' = old \ {NameOf[r]}
          ELSE UNCHANGED disk
    /\ linked' = linked \ {r}
    /\ UNCHANGED <<flushing, doomed, ends, posted>>

\* Time passes: a file gets past the expiration period.  Writing a file, and
\* posting one, takes less than that.
Age(n) ==
    /\ Exists(n) /\ n \notin old
    /\ \A r \in linked : NameOf[r] # n
    /\ \A f \in Flushers : cur[f] = n => pc[f] \in {"idle", "next"}
    /\ old' = old \cup {n}
    /\ UNCHANGED <<file, writing, flushing, doomed, ends, posted>>

-----------------------------------------------------------------------------
(* flushPendingReports                                                     *)

FlusherGoto(f, from, to) == pc[f] = from /\ pc' = [pc EXCEPT ![f] = to]

\* Deviation: the flush does not take the lock.
FlushUnlocked(f) ==
    /\ FlusherGoto(f, "idle", "next")
    /\ todo' = [todo EXCEPT ![f] = {n \in Names : Exists(n)}]
    /\ UNCHANGED <<cur, lock, disk, writing, doomed, ends, posted>>

\* lock.lock() and listFiles().
Flush(f) ==
    /\ lock = NoOne /\ lock' = f
    /\ FlusherGoto(f, "idle", "next")
    /\ todo' = [todo EXCEPT ![f] = {n \in Names : Exists(n)}]
    /\ UNCHANGED <<cur, disk, writing, doomed, ends, posted>>

NextReport(f) ==
    /\ \E n \in todo[f] :
           /\ cur' = [cur EXCEPT ![f] = n]
           /\ todo' = [todo EXCEPT ![f] = @ \ {n}]
    /\ FlusherGoto(f, "next", "post")
    /\ UNCHANGED <<lock, disk, writing, doomed, ends, posted>>

\* The end of the loop, and lock.unlock().
FlushDone(f) ==
    /\ todo[f] = {}
    /\ FlusherGoto(f, "next", "idle")
    /\ lock' = NoOne
    /\ UNCHANGED <<todo, cur, disk, writing, doomed, ends, posted>>

-----------------------------------------------------------------------------
(* postReport.  Its file exists: only a flush deletes files, and this one   *)
(* holds the lock.                                                         *)

Held(f) == {file[cur[f]]} \cap Reports   \* the whole report posted, if any

\* The listener returns true.  It is given what the file holds: a whole
\* report, or what there is of one.
Consume(f) ==
    /\ FlusherGoto(f, "post", "delete")
    /\ Exists(cur[f]) /\ Held(f) \cap Rejected = {}
    /\ tried' = tried \cup Held(f) /\ offered' = offered \cup Held(f)
    /\ accepted' = accepted \cup Held(f)
    /\ torn' = torn \cup (linked \cap NamedBy({cur[f]}))
    /\ UNCHANGED <<todo, cur, lock, disk, writing, doomed, ends, kept>>

Refused(f) ==
    /\ Exists(cur[f])
    /\ Held(f) = {} \/ Held(f) \cap Rejected # {}
    /\ tried' = tried \cup Held(f) /\ offered' = offered \cup Held(f)
    /\ UNCHANGED <<cur, disk, writing, doomed, ends, accepted, kept, torn>>

\* Deviation: the value the listener returns is not looked at.
RefuseDeletes(f) ==
    /\ FlusherGoto(f, "post", "delete") /\ Refused(f)
    /\ UNCHANGED <<todo, lock>>

\* Deviation: an exception of the listener ends the flush.
RefuseEnds(f) ==
    /\ FlusherGoto(f, "post", "idle") /\ Refused(f)
    /\ todo' = [todo EXCEPT ![f] = {}] /\ lock' = NoOne

\* The listener returns false, or throws and the flush catches it.
Refuse(f) ==
    /\ FlusherGoto(f, "post", "expire") /\ Refused(f)
    /\ UNCHANGED <<todo, lock>>

\* readText throws, or there is no listener.
Unposted(f) ==
    /\ Failures \cap {"read", "listener"} # {}
    /\ FlusherGoto(f, "post", "expire")
    /\ Exists(cur[f])
    /\ tried' = tried \cup Held(f)
    /\ UNCHANGED <<todo, cur, lock, disk, writing, doomed, ends, offered, accepted, kept, torn>>

\* report.delete().
Delete(f) ==
    /\ FlusherGoto(f, "delete", "next")
    /\ SetFile(cur[f], Absent)
    /\ old' = old \ {cur[f]}
    /\ linked' = linked \ NamedBy({cur[f]})
    /\ UNCHANGED <<todo, cur, lock, writer, doomed, ends, posted>>

DeleteFails(f) ==
    /\ "delete" \in Failures
    /\ FlusherGoto(f, "delete", IF Exists(cur[f]) THEN "expire" ELSE "next")
    /\ kept' = kept \cup (Held(f) \cap accepted)
    /\ UNCHANGED <<todo, cur, lock, disk, writing, doomed, ends, tried, offered, accepted, torn>>

\* A report that is still there and has expired is deleted when the JVM exits.
ExpireReport(f) ==
    /\ FlusherGoto(f, "expire", "next")
    /\ doomed' = doomed \cup ({cur[f]} \cap old)
    /\ UNCHANGED <<todo, cur, lock, disk, writing, ends, posted>>

-----------------------------------------------------------------------------
(* The process ends and is launched again                                  *)

Relaunch ==
    /\ ends < MaxEnds /\ ends' = ends + 1
    /\ writer' = [r \in Reports |-> IF writer[r] = "open" THEN "done" ELSE writer[r]]
    /\ linked' = {}
    /\ pc' = [f \in Flushers |-> "idle"]
    /\ todo' = [f \in Flushers |-> {}] /\ cur' = [f \in Flushers |-> NoName]
    /\ lock' = NoOne
    /\ doomed' = {}
    /\ UNCHANGED <<tried, offered, accepted, torn>>

\* A crash, or the system killing the application.
Kill ==
    /\ Relaunch
    /\ kept' = {r \in accepted : file[NameOf[r]] = r}
    /\ UNCHANGED disk

\* An orderly exit of the JVM deletes the registered files.
Exit ==
    /\ Relaunch
    /\ file' = [n \in Names |-> IF n \in doomed THEN Absent ELSE file[n]]
    /\ old' = old \ doomed
    /\ kept' = {r \in accepted : file'[NameOf[r]] = r}

-----------------------------------------------------------------------------
FlusherStep(f) ==
    \/ NextReport(f) \/ FlushDone(f) \/ Consume(f) \/ Refuse(f)
    \/ Unposted(f) \/ Delete(f) \/ DeleteFails(f) \/ ExpireReport(f)

Next ==
    \/ \E r \in Reports : Open(r) \/ OpenFails(r) \/ Write(r)
    \/ \E n \in Names : Age(n)
    \/ \E f \in Flushers : Flush(f) \/ FlusherStep(f)
    \/ Kill \/ Exit

Spec == Init /\ [][Next]_vars

\* The application flushes again and again, and a flush goes on.  The listener
\* does not refuse for ever a report that it accepts at all.
FairSpec ==
    /\ Spec
    /\ \A r \in Reports : WF_vars(Write(r))
    /\ \A f \in Flushers : WF_vars(Flush(f)) /\ WF_vars(FlusherStep(f))
    /\ \A f \in Flushers, n \in Names : SF_vars(cur[f] = n /\ Consume(f))

-----------------------------------------------------------------------------
(* Properties                                                              *)

Stored == {r \in Reports \ torn : file[NameOf[r]] = r}

\* Storage implements the mailbox: from the moment it is whole, a report is
\* removed only after the listener accepted it or, expired, after an attempt to
\* post it - through kills, exits, failures and concurrent flushes.  The one
\* exception is a report whose file was posted while it was being written.
Mailbox == INSTANCE ReportMailbox
             WITH box <- Stored, expired <- {r \in Stored : NameOf[r] \in old},
                  tried <- tried \ torn, accepted <- accepted \ torn
MailboxSpec == Mailbox!Spec

\* No report is posted twice, unless its file outlived the first time because
\* the process ended or the deletion failed (AgentNDK.kt:101 and 161).
NoDoublePost ==
    [][\A f \in Flushers : Consume(f) => Held(f) \cap accepted \subseteq kept]_vars

\* One report that the listener rejects, or that cannot be posted, does not keep
\* the others back (the catch of AgentNDK.kt:113): a stored report that the
\* listener accepts at all is accepted in the end, or expires.
ReportDelivered ==
    \A r \in Reports \ Rejected :
        r \in Stored ~> r \in accepted \/ NameOf[r] \in old

\* README.md:113 says that an expired report is removed "only after a final post
\* to the native report listener".  It is not so when reading the file fails or
\* when the agent was built without a listener (AgentNDK.kt:143).
FinalPost == [][\A r \in Stored \ Stored' : r \in offered \/ r \in torn']_vars

=============================================================================
