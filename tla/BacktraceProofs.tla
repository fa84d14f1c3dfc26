-------------------------- MODULE BacktraceProofs --------------------------
(* Proofs about Backtrace, for every stack, list of threads and limit.     *)
EXTENDS Backtrace, SequenceTheorems, TLAPS

\* Type correctness: the limits of frames and threads hold (unwinder.cpp:38,
\* backtrace.cpp:122).

\* What record_frame returns: an array within the limit.
LEMMA RecordFrameType ==
    ASSUME NEW ip \in Nat, NEW seq \in Seq(Nat), Len(seq) <= MaxFrames
    PROVE  /\ record_frame(ip, seq) \in Seq(Nat)
           /\ Len(record_frame(ip, seq)) <= MaxFrames
<1>1. CASE Full(seq) \/ Ignored(ip, seq)
  BY <1>1 DEF record_frame
<1>2. CASE ~(Full(seq) \/ Ignored(ip, seq))
  <2>1. record_frame(ip, seq) = Append(seq, ip)
    BY <1>2 DEF record_frame
  <2>2. Len(seq) < MaxFrames
    BY <1>2, BacktraceAssumption DEF Full
  <2> QED
    BY <2>1, <2>2, BacktraceAssumption
<1> QED
  BY <1>1, <1>2

\* A recorded frame is an address.
LEMMA ShownType ==
    ASSUME NEW ip \in Address
    PROVE  Shown(ip) \in Nat
<1> DEFINE adjusted == IF ip \in {crash_ip, 0} THEN ip ELSE ip - Adjust
<1>1. adjusted \in Nat
  BY BacktraceAssumption
<1> HIDE DEF adjusted
<1>2. adjusted - (adjusted % 2) \in Nat
  BY <1>1
<1>3. Shown(ip) = IF Thumb THEN adjusted - (adjusted % 2) ELSE adjusted
  BY DEF Shown, adjusted
<1> QED
  BY <1>1, <1>2, <1>3

\* A report's length is a number.
LEMMA SizeType == TypeOK => Size \in Nat
<1> SUFFICES ASSUME TypeOK PROVE Size \in Nat
  OBVIOUS
<1>1. \A a, b \in Nat : a * b \in Nat
  OBVIOUS
<1>2. Len(threads) \in Nat /\ Len(frames) \in Nat
  BY DEF TypeOK
<1>3. ThreadSize * Len(threads) \in Nat /\ FrameSize * Len(frames) \in Nat
  BY <1>1, <1>2, BacktraceAssumption
<1> DEFINE ts == ThreadSize * Len(threads)
           fs == FrameSize * Len(frames)
<1>4. Size = HeadSize + ts + IF \E i \in DOMAIN threads : threads[i].stack
                             THEN fs ELSE 0
  BY DEF Size
<1> HIDE DEF ts, fs
<1>5. ts \in Nat /\ fs \in Nat
  BY <1>3 DEF ts, fs
<1> QED
  BY <1>4, <1>5, BacktraceAssumption

\* The thread that readdir returned still has room in the vector: the limit is
\* checked before its stat is read.
TypeInv ==
    /\ TypeOK
    /\ pc = "info" => Len(threads) < MaxThreads

LEMMA TypeInit == Init => TypeInv
<1> SUFFICES ASSUME Init PROVE TypeInv
  OBVIOUS
<1>1. frames \in Seq(Nat) /\ walked \in Seq(Address) /\ threads \in Seq(ThreadInfo)
  BY DEF Init
<1>2. Len(frames) = 0 /\ Len(threads) = 0
  BY DEF Init
<1>3. live \subseteq Tid /\ Self \in live /\ fresh \subseteq Tid \ live /\ entry \in Tid
  BY BacktraceAssumption DEF Init
<1>4. entries \subseteq Tid \cup {"."} /\ due \subseteq live
  BY DEF Init
<1>5. /\ pc = "call" /\ caller \in Callers /\ crash_ip \in Address
      /\ copied \in Nat /\ result \in BOOLEAN
  BY BacktraceAssumption DEF Init
<1> QED
  BY <1>1, <1>2, <1>3, <1>4, <1>5, BacktraceAssumption DEF TypeInv, TypeOK

LEMMA TypeStep == TypeInv /\ [Next]_vars => TypeInv'
<1> SUFFICES ASSUME TypeInv, [Next]_vars
             PROVE  TypeInv'
  OBVIOUS
<1> USE BacktraceAssumption DEF TypeInv, TypeOK
<1>1. CASE unwind_backtrace
  BY <1>1 DEF unwind_backtrace, CrashIp, process, listing, output
<1>2. ASSUME NEW ip \in Address, unwinder_cb(ip)
      PROVE  TypeInv'
  <2> DEFINE kept == IF ip = crash_ip THEN <<>> ELSE frames
  <2>1. kept \in Seq(Nat) /\ Len(kept) <= MaxFrames
    OBVIOUS
  <2>2. frames' = record_frame(Shown(ip), kept)
    BY <1>2 DEF unwinder_cb
  <2> HIDE DEF kept
  <2>3. frames' \in Seq(Nat) /\ Len(frames') <= MaxFrames
    BY <2>1, <2>2, ShownType, RecordFrameType
  <2> QED
    BY <1>2, <2>3 DEF unwinder_cb, process, listing, output
<1>3. CASE EndOfStack
  BY <1>3 DEF EndOfStack, walk, process, listing, output
<1>4. CASE Describe
  BY <1>4 DEF Describe, walk, process, listing, output
<1>5. CASE OpenTask
  BY <1>5 DEF OpenTask, walk, process, output
<1>6. CASE OpenTaskFails
  BY <1>6 DEF OpenTaskFails, walk, process, listing, output
<1>7. ASSUME NEW e \in Tid \cup {"."}, ReadEntry(e)
      PROVE  TypeInv'
  BY <1>7 DEF ReadEntry, MoreThreads, walk, process, output
<1>8. CASE collect_thread_info
  <2>1. PICK known \in StatReads :
          threads' = Append(threads,
             [tid     |-> entry,
              known   |-> known,
              crashed |-> IsCrashed(entry),
              stack   |-> IsCrashed(entry) /\ Len(frames) > 0])
    BY <1>8 DEF collect_thread_info
  <2>2. known \in BOOLEAN
    BY DEF StatReads
  <2>3. threads' \in Seq(ThreadInfo)
    BY <2>1, <2>2 DEF ThreadInfo, IsCrashed
  <2> QED
    BY <1>8, <2>3 DEF collect_thread_info, walk, process, output
<1>9. CASE EndOfList
  BY <1>9 DEF EndOfList, walk, process, listing, output
<1>10. CASE Emit
  <2>1. copied' \in Nat
    BY <1>10, SizeType DEF Emit, Min
  <2> QED
    BY <1>10, <2>1 DEF Emit, walk, process, listing
<1>11. ASSUME NEW t \in Tid, ThreadStarts(t)
       PROVE  TypeInv'
  BY <1>11 DEF ThreadStarts, walk, output
<1>12. ASSUME NEW t \in Tid, ThreadExits(t)
       PROVE  TypeInv'
  BY <1>12 DEF ThreadExits, walk, output
<1>13. CASE UNCHANGED vars
  BY <1>13 DEF vars, walk, process, listing, output
<1> QED
  BY <1>1, <1>2, <1>3, <1>4, <1>5, <1>6, <1>7, <1>8, <1>9, <1>10, <1>11,
     <1>12, <1>13 DEF Next, Collect

\* Types, and both limits, for every walk of the unwinder and every process
\* (collect_backtrace).
THEOREM TypeInvariant == Spec => []TypeOK
<1>1. TypeInv => TypeOK
  BY DEF TypeInv
<1> QED
  BY <1>1, TypeInit, TypeStep, PTL DEF Spec

-----------------------------------------------------------------------------
(* Whole reports.                                                          *)

\* Only a caller that passed a siginfo, and with it a context, gets past the
\* description; so the registers are never the null item that ends the report.
WholeInv ==
    /\ pc \in {"opendir", "readdir", "info", "emit", "done"} => Passed
    /\ copied < MaxSize
    /\ result => pc = "done" /\ report.parts = AllParts /\ copied = Size

\* Items without a null are all emitted (emitter.cpp:74-85).
LEMMA EmitAll ==
    Passed => EmitItems(<<emit_context, emit_registers,
                          emit_signal_context, emit_thread_state>>) = AllParts
<1> SUFFICES ASSUME Passed
             PROVE  EmitItems(<<emit_context, emit_registers,
                          emit_signal_context, emit_thread_state>>) = AllParts
  OBVIOUS
<1>1. <<emit_context, emit_registers, emit_signal_context, emit_thread_state>>
        = AllParts
  BY DEF emit_context, emit_registers, emit_signal_context, emit_thread_state,
         AllParts
<1> DEFINE First(k) == /\ \A i \in 1..k : AllParts[i] # Null
                       /\ k = Len(AllParts) \/ AllParts[k + 1] = Null
<1>2. \A i \in 1..4 : AllParts[i] # Null
  BY DEF AllParts, Null
<1>3. \A k \in 0..4 : First(k) <=> k = 4
  BY <1>2 DEF AllParts
<1>4. (CHOOSE k \in 0..Len(AllParts) : First(k)) = 4
  BY <1>3 DEF AllParts
<1>5. SubSeq(AllParts, 1, 4) = AllParts
  <2> DEFINE Parts == {"context", "registers", "exception", "threads"}
  <2>1. AllParts \in Seq(Parts) /\ Len(AllParts) = 4
    BY DEF AllParts
  <2> QED
    BY <2>1, SubSeqFull
<1> QED
  BY <1>1, <1>4, <1>5 DEF EmitItems

LEMMA WholeInit == Init => WholeInv
  BY BacktraceAssumption DEF Init, WholeInv

LEMMA WholeStep == TypeInv /\ WholeInv /\ [Next]_vars => WholeInv'
<1> SUFFICES ASSUME TypeInv, WholeInv, [Next]_vars
             PROVE  WholeInv'
  OBVIOUS
<1> USE DEF WholeInv
<1>1. CASE unwind_backtrace
  BY <1>1 DEF unwind_backtrace, output, Passed
<1>2. ASSUME NEW ip \in Address, unwinder_cb(ip)
      PROVE  WholeInv'
  BY <1>2 DEF unwinder_cb, output, Passed
<1>3. CASE EndOfStack
  BY <1>3 DEF EndOfStack, output, Passed
<1>4. CASE Describe
  BY <1>4 DEF Describe, output, Passed
<1>5. CASE OpenTask
  BY <1>5 DEF OpenTask, output, Passed
<1>6. CASE OpenTaskFails
  BY <1>6 DEF OpenTaskFails, output, Passed
<1>7. ASSUME NEW e \in Tid \cup {"."}, ReadEntry(e)
      PROVE  WholeInv'
  BY <1>7 DEF ReadEntry, output, Passed
<1>8. CASE collect_thread_info
  BY <1>8 DEF collect_thread_info, output, Passed
<1>9. CASE EndOfList
  BY <1>9 DEF EndOfList, output, Passed
<1>10. CASE Emit
  <2>1. copied' < MaxSize
    BY <1>10, SizeType, BacktraceAssumption DEF Emit, Min, TypeInv
  <2>2. report'.parts = AllParts
    BY <1>10, EmitAll DEF Emit, emit_backtrace
  <2>3. Size' = Size /\ Passed'
    BY <1>10 DEF Emit, Size, walk, listing, Passed
  <2> QED
    BY <1>10, <2>1, <2>2, <2>3 DEF Emit
<1>11. ASSUME NEW t \in Tid, ThreadStarts(t) \/ ThreadExits(t)
       PROVE  WholeInv'
  <2>1. UNCHANGED <<pc, caller, frames, threads, output>>
    BY <1>11 DEF ThreadStarts, ThreadExits, walk
  <2> QED
    BY <2>1 DEF output, Passed, Size
<1>12. CASE UNCHANGED vars
  BY <1>12 DEF vars, walk, listing, output, Passed, Size
<1> QED
  BY <1>1, <1>2, <1>3, <1>4, <1>5, <1>6, <1>7, <1>8, <1>9, <1>10, <1>11,
     <1>12 DEF Next, Collect

\* For every size of buffer and report, what a caller stores is a whole report
\* (backtrace.cpp:154-175).
THEOREM ReportWhole == Spec => []WholeReport
<1>1. WholeInv => WholeReport
  BY DEF WholeInv, WholeReport
<1> QED
  BY <1>1, TypeInit, TypeStep, WholeInit, WholeStep, PTL DEF Spec

-----------------------------------------------------------------------------
(* The frames.                                                             *)

\* FramesFaithful without its quantifiers, for a walk w and the frames f.
Faithful(w, f, top, origin) ==
    /\ top \in DOMAIN w /\ origin \in [DOMAIN f -> DOMAIN w]
    /\ top = 1 \/ w[top] = crash_ip
    /\ \A p \in DOMAIN w : p > top => w[p] # crash_ip
    /\ f # <<>> /\ origin[1] = top
    /\ \A i, j \in DOMAIN f : i < j => origin[i] < origin[j]
    /\ \A i \in DOMAIN f : f[i] = Shown(w[origin[i]])
    /\ \A i \in DOMAIN f \ {1} : f[i] \notin {0, f[i - 1]}
    /\ \A p \in top..Len(w) :
         \/ \E i \in DOMAIN f : origin[i] = p
         \/ Shown(w[p]) = 0
         \/ \E i \in DOMAIN f :
              /\ f[i] = Shown(w[p]) /\ origin[i] < p
              /\ i < Len(f) => p < origin[i + 1]
         \/ Len(f) = MaxFrames /\ origin[MaxFrames] < p

LEMMA FaithfulIs ==
    FramesFaithful <=>
        (walked # <<>> => \E top, origin : Faithful(walked, frames, top, origin))
BY DEF FramesFaithful, Faithful

\* A first frame, of the walk or of the crash, starts the array.
LEMMA FirstFrame ==
    ASSUME NEW w \in Seq(Address), NEW ip \in Address,
           w = <<>> \/ ip = crash_ip
    PROVE  LET v == Append(w, ip)
           IN  Faithful(v, <<Shown(ip)>>, Len(v), [i \in {1} |-> Len(v)])
<1> DEFINE v == Append(w, ip)
           f == <<Shown(ip)>>
           origin == [i \in {1} |-> Len(v)]
<1>1. /\ DOMAIN v = 1..Len(v) /\ Len(v) = Len(w) + 1 /\ Len(w) \in Nat
      /\ v[Len(v)] = ip
  OBVIOUS
<1>2. DOMAIN f = {1} /\ Len(f) = 1 /\ f[1] = Shown(ip) /\ f # <<>>
  OBVIOUS
<1>3. origin[1] = Len(v) /\ origin \in [{1} -> {Len(v)}]
  OBVIOUS
<1>4. Len(v) = 1 \/ v[Len(v)] = crash_ip
  BY <1>1
<1> HIDE DEF v, f, origin
<1>5. Faithful(v, f, Len(v), origin)
  <2>1. Len(v) \in DOMAIN v /\ origin \in [DOMAIN f -> DOMAIN v]
    BY <1>1, <1>2, <1>3
  <2>2. \A p \in DOMAIN v : ~(p > Len(v))
    BY <1>1
  <2>3. \A p \in Len(v)..Len(v) : p = Len(v)
    BY <1>1
  <2> QED
    BY <1>1, <1>2, <1>3, <1>4, <2>1, <2>2, <2>3 DEF Faithful
<1> QED
  BY <1>5 DEF v, f, origin

\* A frame that is ignored, or that the array has no room for, leaves the frames
\* those of the longer walk.
LEMMA FrameSkipped ==
    ASSUME NEW w \in Seq(Address), NEW f \in Seq(Nat), NEW ip \in Address,
           NEW top, NEW origin, Faithful(w, f, top, origin),
           ip # crash_ip, Len(f) <= MaxFrames,
           Full(f) \/ Ignored(Shown(ip), f)
    PROVE  Faithful(Append(w, ip), f, top, origin)
<1> DEFINE v == Append(w, ip)
<1>d. DOMAIN v = 1..Len(v) /\ DOMAIN w = 1..Len(w) /\ DOMAIN f = 1..Len(f)
  OBVIOUS
<1>1. /\ Len(v) = Len(w) + 1 /\ Len(w) \in Nat /\ v[Len(v)] = ip
      /\ \A p \in 1..Len(w) : v[p] = w[p]
  OBVIOUS
<1>2. Len(f) \in Nat \ {0}
  BY DEF Faithful
<1> HIDE DEF v
<1>3. /\ top \in 1..Len(w) /\ origin \in [1..Len(f) -> 1..Len(w)]
      /\ top = 1 \/ w[top] = crash_ip
      /\ \A p \in 1..Len(w) : p > top => w[p] # crash_ip
      /\ f # <<>> /\ origin[1] = top
      /\ \A i, j \in 1..Len(f) : i < j => origin[i] < origin[j]
      /\ \A i \in 1..Len(f) : f[i] = Shown(w[origin[i]])
      /\ \A i \in 1..Len(f) \ {1} : f[i] \notin {0, f[i - 1]}
  BY <1>d DEF Faithful
<1>4. /\ top \in 1..Len(v) /\ origin \in [1..Len(f) -> 1..Len(v)]
      /\ top = 1 \/ v[top] = crash_ip
  BY <1>1, <1>3
<1>5. ASSUME NEW p \in 1..Len(v), p > top
      PROVE  v[p] # crash_ip
  <2>1. CASE p \in 1..Len(w)
    <3>1. v[p] = w[p] /\ w[p] # crash_ip
      BY <1>1, <1>3, <1>5, <2>1
    <3> QED
      BY <3>1
  <2>2. CASE p = Len(v)
    BY <1>1, <2>2
  <2> QED
    BY <1>1, <2>1, <2>2
<1>6. \A i \in 1..Len(f) : f[i] = Shown(v[origin[i]])
  BY <1>1, <1>3
<1>7. ASSUME NEW p \in top..Len(v)
      PROVE  \/ \E i \in 1..Len(f) : origin[i] = p
             \/ Shown(v[p]) = 0
             \/ \E i \in 1..Len(f) :
                  /\ f[i] = Shown(v[p]) /\ origin[i] < p
                  /\ i < Len(f) => p < origin[i + 1]
             \/ Len(f) = MaxFrames /\ origin[MaxFrames] < p
  <2>1. CASE p \in top..Len(w)
    <3>1. v[p] = w[p]
      BY <1>1, <1>3, <2>1
    <3> QED
      BY <1>d, <2>1, <3>1 DEF Faithful
  <2>2. CASE p = Len(v)
    <3>1. v[p] = ip
      BY <1>1, <2>2
    <3>2. ASSUME NEW i \in 1..Len(f)
          PROVE  origin[i] < p
      <4>1. origin[i] \in 1..Len(w)
        BY <1>3
      <4> QED
        BY <1>1, <2>2, <4>1
    <3>3. CASE Full(f)
      <4>1. Len(f) = MaxFrames
        BY <1>2, <3>3, BacktraceAssumption DEF Full
      <4> QED
        BY <1>2, <3>2, <4>1
    <3>4. CASE Ignored(Shown(ip), f)
      BY <1>2, <3>1, <3>2, <3>4 DEF Ignored
    <3> QED
      BY <3>3, <3>4
  <2>3. p \in top..Len(w) \/ p = Len(v)
    <3>1. top \in 1..Len(w)
      BY <1>3
    <3> QED
      BY <1>1, <3>1
  <2> QED
    BY <2>1, <2>2, <2>3
<1>8. Faithful(v, f, top, origin)
  BY <1>d, <1>3, <1>4, <1>5, <1>6, <1>7 DEF Faithful
<1> QED
  BY <1>8 DEF v

\* A frame that is recorded comes from the end of the longer walk.
LEMMA FrameRecorded ==
    ASSUME NEW w \in Seq(Address), NEW f \in Seq(Nat), NEW ip \in Address,
           NEW top, NEW origin, Faithful(w, f, top, origin),
           ip # crash_ip, ~Full(f), ~Ignored(Shown(ip), f)
    PROVE  Faithful(Append(w, ip), Append(f, Shown(ip)), top,
                    [i \in 1..(Len(f) + 1) |->
                        IF i = Len(f) + 1 THEN Len(w) + 1 ELSE origin[i]])
<1> DEFINE v == Append(w, ip)
           g == Append(f, Shown(ip))
           from == [i \in 1..(Len(f) + 1) |->
                       IF i = Len(f) + 1 THEN Len(w) + 1 ELSE origin[i]]
<1>d. /\ DOMAIN v = 1..Len(v) /\ DOMAIN w = 1..Len(w)
      /\ DOMAIN f = 1..Len(f)
  OBVIOUS
<1>1. /\ Len(v) = Len(w) + 1 /\ Len(w) \in Nat /\ v[Len(v)] = ip
      /\ \A p \in 1..Len(w) : v[p] = w[p]
  OBVIOUS
<1>2. Len(f) \in Nat \ {0}
  BY DEF Faithful
<1>a. Shown(ip) \in Nat
  BY ShownType
<1>e. DOMAIN g = 1..Len(g)
  BY <1>a
<1>3. /\ Len(g) = Len(f) + 1
      /\ g[Len(g)] = Shown(ip) /\ g # <<>>
      /\ \A i \in 1..Len(f) : g[i] = f[i]
  BY <1>2, <1>a
<1>4. /\ from[Len(g)] = Len(v)
      /\ \A i \in 1..Len(f) : from[i] = origin[i]
  BY <1>1, <1>2, <1>3
<1>5. from \in [1..Len(g) -> {from[i] : i \in 1..Len(g)}]
  BY <1>2, <1>3
<1> HIDE DEF v, g, from
<1>6. /\ top \in 1..Len(w) /\ origin \in [1..Len(f) -> 1..Len(w)]
      /\ top = 1 \/ w[top] = crash_ip
      /\ \A p \in 1..Len(w) : p > top => w[p] # crash_ip
      /\ origin[1] = top
      /\ \A i, j \in 1..Len(f) : i < j => origin[i] < origin[j]
      /\ \A i \in 1..Len(f) : f[i] = Shown(w[origin[i]])
      /\ \A i \in 1..Len(f) \ {1} : f[i] \notin {0, f[i - 1]}
  BY <1>d DEF Faithful
<1>7. /\ \A i \in 1..Len(f) : from[i] \in 1..Len(w) /\ from[i] = origin[i]
      /\ \A i \in 1..Len(g) : i \in 1..Len(f) \/ i = Len(g)
      /\ 1 \in 1..Len(f)
  <2>1. \A i \in 1..Len(f) : origin[i] \in 1..Len(w)
    BY <1>6
  <2>2. \A i \in 1..Len(g) : i \in 1..Len(f) \/ i = Len(g)
    BY <1>2, <1>3
  <2> QED
    BY <1>2, <1>4, <2>1, <2>2
<1>8. /\ top \in 1..Len(v) /\ from \in [1..Len(g) -> 1..Len(v)]
      /\ top = 1 \/ v[top] = crash_ip
      /\ from[1] = top
  <2>1. top \in 1..Len(w)
    BY <1>6
  <2>2. top \in 1..Len(v) /\ v[top] = w[top]
    BY <1>1, <2>1
  <2>3. \A i \in 1..Len(g) : from[i] \in 1..Len(v)
    BY <1>1, <1>4, <1>7
  <2> QED
    BY <1>5, <1>6, <1>7, <2>2, <2>3
<1>9. ASSUME NEW p \in 1..Len(v), p > top
      PROVE  v[p] # crash_ip
  <2>1. CASE p \in 1..Len(w)
    <3>1. v[p] = w[p] /\ w[p] # crash_ip
      BY <1>1, <1>6, <1>9, <2>1
    <3> QED
      BY <3>1
  <2>2. CASE p = Len(v)
    BY <1>1, <2>2
  <2> QED
    BY <1>1, <2>1, <2>2
<1>10. \A i, j \in 1..Len(g) : i < j => from[i] < from[j]
  BY <1>1, <1>2, <1>3, <1>4, <1>6, <1>7
<1>11. ASSUME NEW i \in 1..Len(g)
       PROVE  g[i] = Shown(v[from[i]])
  <2>1. CASE i \in 1..Len(f)
    <3>1. g[i] = f[i] /\ f[i] = Shown(w[origin[i]])
      BY <1>3, <1>6, <2>1
    <3>2. from[i] = origin[i] /\ from[i] \in 1..Len(w)
      BY <1>7, <2>1
    <3>3. v[from[i]] = w[origin[i]]
      BY <1>1, <3>2
    <3> QED
      BY <3>1, <3>3
  <2>2. CASE i = Len(g)
    <3>1. g[i] = Shown(ip) /\ v[from[i]] = ip
      BY <1>1, <1>3, <1>4, <2>2
    <3> QED
      BY <3>1
  <2> QED
    BY <1>7, <2>1, <2>2
<1>12. \A i \in 1..Len(g) \ {1} : g[i] \notin {0, g[i - 1]}
  <2>1. Shown(ip) \notin {0, f[Len(f)]}
    BY <1>2 DEF Ignored
  <2>2. ASSUME NEW i \in 1..Len(g) \ {1}
        PROVE  g[i] \notin {0, g[i - 1]}
    <3>1. CASE i \in 1..Len(f)
      <4>1. f[i] \notin {0, f[i - 1]}
        BY <1>6, <3>1
      <4>2. i - 1 \in 1..Len(f)
        BY <1>2, <3>1
      <4>3. g[i] = f[i] /\ g[i - 1] = f[i - 1]
        BY <1>3, <3>1, <4>2
      <4> QED
        BY <4>1, <4>3
    <3>2. CASE i = Len(g)
      <4>1. i - 1 = Len(f) /\ Len(f) \in 1..Len(f)
        BY <1>2, <1>3, <3>2
      <4>2. g[i] = Shown(ip) /\ g[i - 1] = f[Len(f)]
        BY <1>3, <3>2, <4>1
      <4> QED
        BY <2>1, <4>2
    <3> QED
      BY <1>7, <3>1, <3>2
  <2> QED
    BY <2>2
<1>13. ASSUME NEW p \in top..Len(v)
       PROVE  \/ \E i \in 1..Len(g) : from[i] = p
              \/ Shown(v[p]) = 0
              \/ \E i \in 1..Len(g) :
                   /\ g[i] = Shown(v[p]) /\ from[i] < p
                   /\ i < Len(g) => p < from[i + 1]
              \/ Len(g) = MaxFrames /\ from[MaxFrames] < p
  <2>1. CASE p = Len(v)
    BY <1>2, <1>3, <1>4, <2>1
  <2>2. CASE p \in top..Len(w)
    <3>1. v[p] = w[p] /\ p < Len(v)
      BY <1>1, <1>6, <2>2
    <3>2. \/ \E i \in 1..Len(f) : origin[i] = p
          \/ Shown(w[p]) = 0
          \/ \E i \in 1..Len(f) :
               /\ f[i] = Shown(w[p]) /\ origin[i] < p
               /\ i < Len(f) => p < origin[i + 1]
          \/ Len(f) = MaxFrames
      BY <1>d, <2>2 DEF Faithful
    <3>3. Len(f) # MaxFrames
      BY <1>2, BacktraceAssumption DEF Full
    <3>4. CASE \E i \in 1..Len(f) : origin[i] = p
      BY <1>2, <1>3, <1>4, <3>4
    <3>5. ASSUME NEW i \in 1..Len(f), f[i] = Shown(w[p]), origin[i] < p,
                 i < Len(f) => p < origin[i + 1]
          PROVE  /\ i \in 1..Len(g) /\ g[i] = Shown(v[p]) /\ from[i] < p
                 /\ i < Len(g) => p < from[i + 1]
      <4>1. i \in 1..Len(g) /\ g[i] = Shown(v[p]) /\ from[i] < p
        BY <1>2, <1>3, <1>4, <3>1, <3>5
      <4>2. CASE i = Len(f)
        BY <1>2, <1>3, <1>4, <3>1, <4>1, <4>2
      <4>3. CASE i < Len(f)
        BY <1>2, <1>3, <1>4, <3>5, <4>1, <4>3
      <4> QED
        BY <1>2, <4>2, <4>3
    <3> QED
      BY <3>1, <3>2, <3>3, <3>4, <3>5
  <2>3. p \in top..Len(w) \/ p = Len(v)
    <3>1. top \in 1..Len(w)
      BY <1>6
    <3> QED
      BY <1>1, <3>1
  <2> QED
    BY <2>1, <2>2, <2>3
<1>14. Faithful(v, g, top, from)
  BY <1>d, <1>e, <1>3, <1>8, <1>9, <1>10, <1>11, <1>12, <1>13 DEF Faithful
<1> QED
  BY <1>14 DEF v, g, from

\* Before the walk there are no frames.
FramesInv ==
    /\ FramesFaithful
    /\ walked = <<>> => frames = <<>>
    /\ pc = "call" => walked = <<>>

LEMMA FramesInit == Init => FramesInv
  BY DEF Init, FramesInv, FramesFaithful

LEMMA FramesStep == TypeOK /\ FramesInv /\ [Next]_vars => FramesInv'
<1> SUFFICES ASSUME TypeOK, FramesInv, [Next]_vars
             PROVE  FramesInv'
  OBVIOUS
<1>1. CASE unwind_backtrace
  BY <1>1 DEF unwind_backtrace, FramesInv, FramesFaithful
<1>2. ASSUME NEW ip \in Address, unwinder_cb(ip)
      PROVE  FramesInv'
  <2> DEFINE kept == IF ip = crash_ip THEN <<>> ELSE frames
  <2>1. /\ frames' = record_frame(Shown(ip), kept) /\ walked' = Append(walked, ip)
        /\ crash_ip' = crash_ip /\ pc' # "call"
    BY <1>2 DEF unwinder_cb
  <2>2. walked \in Seq(Address) /\ frames \in Seq(Nat) /\ Len(frames) <= MaxFrames
    BY DEF TypeOK
  <2>3. walked' # <<>>
    BY <2>1, <2>2
  <2>5. \E top, origin : Faithful(walked', frames', top, origin)
    <3>1. CASE ip = crash_ip \/ walked = <<>>
      <4>1. kept = <<>>
        BY <3>1 DEF FramesInv
      <4>2. ~Full(<<>>) /\ ~Ignored(Shown(ip), <<>>)
        BY BacktraceAssumption DEF Full, Ignored
      <4>3. record_frame(Shown(ip), <<>>) = Append(<<>>, Shown(ip))
        BY <4>2 DEF record_frame
      <4>4. Append(<<>>, Shown(ip)) = <<Shown(ip)>>
        OBVIOUS
      <4>5. frames' = <<Shown(ip)>>
        BY <2>1, <4>1, <4>3, <4>4
      <4> QED
        BY <2>1, <2>2, <3>1, <4>5, FirstFrame
    <3>2. CASE ip # crash_ip /\ walked # <<>>
      <4>1. PICK top, origin : Faithful(walked, frames, top, origin)
        BY <3>2, FaithfulIs DEF FramesInv
      <4>2. frames' = record_frame(Shown(ip), frames)
        BY <2>1, <3>2
      <4>3. CASE Full(frames) \/ Ignored(Shown(ip), frames)
        <5>1. frames' = frames
          BY <4>2, <4>3 DEF record_frame
        <5> QED
          BY <2>1, <2>2, <3>2, <4>1, <4>3, <5>1, FrameSkipped
      <4>4. CASE ~(Full(frames) \/ Ignored(Shown(ip), frames))
        <5>1. frames' = Append(frames, Shown(ip))
          BY <4>2, <4>4 DEF record_frame
        <5>2. \E from : Faithful(Append(walked, ip), Append(frames, Shown(ip)),
                                 top, from)
          BY <2>2, <3>2, <4>1, <4>4, FrameRecorded
        <5> QED
          BY <2>1, <5>1, <5>2
      <4> QED
        BY <4>3, <4>4
    <3> QED
      BY <3>1, <3>2
  <2>4. \A x : Shown(x)' = Shown(x)
    BY <2>1 DEF Shown
  <2>6. FramesFaithful'
    BY <2>1, <2>4, <2>5 DEF FramesFaithful, Faithful
  <2> QED
    BY <2>1, <2>3, <2>6 DEF FramesInv
<1>3. ASSUME UNCHANGED walk, pc' # "call" \/ pc' = pc
      PROVE  FramesInv'
  BY <1>3 DEF walk, FramesInv, FramesFaithful, Shown
<1>4. CASE EndOfStack \/ Describe \/ OpenTask \/ OpenTaskFails
           \/ collect_thread_info \/ EndOfList \/ Emit
  BY <1>3, <1>4 DEF EndOfStack, Describe, OpenTask, OpenTaskFails,
     collect_thread_info, EndOfList, Emit
<1>5. ASSUME NEW e \in Tid \cup {"."}, ReadEntry(e)
      PROVE  FramesInv'
  BY <1>3, <1>5 DEF ReadEntry
<1>6. ASSUME NEW t \in Tid, ThreadStarts(t) \/ ThreadExits(t)
      PROVE  FramesInv'
  BY <1>3, <1>6 DEF ThreadStarts, ThreadExits
<1>7. CASE UNCHANGED vars
  BY <1>3, <1>7 DEF vars
<1> QED
  BY <1>1, <1>2, <1>4, <1>5, <1>6, <1>7 DEF Next, Collect

\* For every walk of the unwinder, however deep, and every limit: the frames of
\* a report are those below the crash, in order, without null or repeated ones,
\* and none is missing but for a full array (unwinder.cpp:36-135).
THEOREM WalkFaithful == Spec => []FramesFaithful
<1>1. FramesInv => FramesFaithful
  BY DEF FramesInv
<1>2. TypeInv => TypeOK
  BY DEF TypeInv
<1> QED
  BY <1>1, <1>2, TypeInit, TypeStep, FramesInit, FramesStep, PTL DEF Spec

-----------------------------------------------------------------------------
(* The threads.                                                            *)

Listing == {"readdir", "info", "emit", "done"}

\* A thread is listed, being looked at, or still to come, and never two of
\* these; a thread that has not started is none.
DistinctInv ==
    /\ pc \notin Listing => threads = <<>>
    /\ \A i \in 1..Len(threads) : threads[i].tid \notin entries \cup fresh
    /\ \A i, j \in 1..Len(threads) :
         i # j => threads[i].tid # threads[j].tid
    /\ pc = "info" =>
         /\ entry \notin entries \cup fresh
         /\ \A i \in 1..Len(threads) : threads[i].tid # entry
    /\ pc \in {"readdir", "info"} => entries \cap fresh = {}

\* The current thread is the crashed one, and is on its way into the list.
SelfInv ==
    /\ \A i \in 1..Len(threads) :
         /\ threads[i].crashed <=> threads[i].tid = Self
         /\ threads[i].stack <=> threads[i].tid = Self /\ Len(frames) > 0
    /\ pc \in {"readdir", "info"} =>
         \/ Self \in due
         \/ pc = "info" /\ entry = Self
         \/ \E i \in 1..Len(threads) : threads[i].tid = Self
    /\ pc \in {"emit", "done"} =>
         \/ threads = <<>> \/ ~MoreThreads
         \/ \E i \in 1..Len(threads) : threads[i].tid = Self
    /\ pc = "done" =>
         report.stacks = [i \in 1..Len(threads) |-> emit_callstack(threads[i])]

ListInv == DistinctInv /\ SelfInv

LEMMA ListInit == Init => ListInv
<1> SUFFICES ASSUME Init PROVE ListInv
  OBVIOUS
<1>1. threads = <<>> /\ Len(threads) = 0 /\ pc = "call"
  BY DEF Init
<1>2. 1..Len(threads) = {}
  BY <1>1
<1> QED
  BY <1>1, <1>2 DEF ListInv, DistinctInv, SelfInv, Listing

\* Before the listing the frames and the threads do not meet.
LEMMA ListBefore ==
    ASSUME ListInv, pc \notin Listing, threads' = threads, pc' \notin Listing
    PROVE  ListInv'
<1>1. threads = <<>>
  BY DEF ListInv, DistinctInv
<1>2. 1..Len(threads) = {} /\ 1..Len(threads') = {}
  BY <1>1
<1> QED
  BY <1>1, <1>2 DEF ListInv, DistinctInv, SelfInv, Listing

LEMMA ListStep == TypeInv /\ ListInv /\ [Next]_vars => ListInv'
<1> SUFFICES ASSUME TypeInv, ListInv, [Next]_vars
             PROVE  ListInv'
  OBVIOUS
<1>1. CASE unwind_backtrace \/ EndOfStack \/ Describe
  BY <1>1, ListBefore DEF unwind_backtrace, EndOfStack, Describe, listing, Listing
<1>2. ASSUME NEW ip \in Address, unwinder_cb(ip)
      PROVE  ListInv'
  BY <1>2, ListBefore DEF unwinder_cb, listing, Listing
<1>3. CASE OpenTask
  <2>1. threads = <<>> /\ threads' = <<>>
    BY <1>3 DEF OpenTask, ListInv, DistinctInv, Listing
  <2>2. 1..Len(threads') = {}
    BY <2>1
  <2>3. Self \in due' /\ pc' = "readdir"
    BY <1>3 DEF OpenTask, TypeInv, TypeOK
  <2>4. entries' \cap fresh' = {}
    BY <1>3, BacktraceAssumption DEF OpenTask, process, TypeInv, TypeOK
  <2> QED
    BY <2>1, <2>2, <2>3, <2>4 DEF ListInv, DistinctInv, SelfInv, Listing
<1>4. CASE OpenTaskFails
  <2>1. threads = <<>> /\ threads' = <<>> /\ pc' = "emit"
    BY <1>4 DEF OpenTaskFails, ListInv, DistinctInv, Listing, listing
  <2>2. 1..Len(threads') = {}
    BY <2>1
  <2> QED
    BY <2>1, <2>2 DEF ListInv, DistinctInv, SelfInv, Listing
<1>5. ASSUME NEW e \in Tid \cup {"."}, ReadEntry(e)
      PROVE  ListInv'
  <2>1. /\ pc = "readdir" /\ e \in entries /\ threads' = threads
        /\ entries' = entries \ {e} /\ due' = due \ {e}
        /\ fresh' = fresh /\ frames' = frames
        /\ \/ e \notin Tid /\ pc' = pc
           \/ e \in Tid /\ pc' = "info" /\ entry' = e
    BY <1>5 DEF ReadEntry, walk, process
  <2>2. DistinctInv'
    BY <2>1 DEF ListInv, DistinctInv, Listing
  <2>3. Self \in due' \/ (pc' = "info" /\ entry' = Self)
          \/ \E i \in 1..Len(threads) : threads[i].tid = Self
    BY <2>1, BacktraceAssumption DEF ListInv, SelfInv
  <2> QED
    BY <2>1, <2>2, <2>3 DEF ListInv, SelfInv
<1>6. CASE collect_thread_info
  <2>1. PICK known \in BOOLEAN :
          threads' = Append(threads,
             [tid     |-> entry,
              known   |-> known,
              crashed |-> IsCrashed(entry),
              stack   |-> IsCrashed(entry) /\ Len(frames) > 0])
    BY <1>6 DEF collect_thread_info, StatReads
  <2> DEFINE n == Len(threads) + 1
  <2>2. /\ pc = "info" /\ pc' = "readdir" /\ entries' = entries
        /\ due' = due /\ fresh' = fresh /\ frames' = frames
    BY <1>6 DEF collect_thread_info, walk, process
  <2>3. threads \in Seq(ThreadInfo) /\ Len(threads) \in Nat
    BY DEF TypeInv, TypeOK
  <2>4. /\ Len(threads') = n
        /\ \A i \in 1..Len(threads) : threads'[i] = threads[i]
        /\ threads'[n].tid = entry
        /\ threads'[n].crashed = IsCrashed(entry)
        /\ threads'[n].stack = (IsCrashed(entry) /\ Len(frames) > 0)
    BY <2>1, <2>3
  <2>5. \A i \in 1..n : i \in 1..Len(threads) \/ i = n
    BY <2>3
  <2>6. n \in 1..n /\ \A i \in 1..Len(threads) : i \in 1..n
    BY <2>3
  <2> HIDE DEF n
  <2>7. /\ \A i \in 1..Len(threads) : threads[i].tid \notin entries \cup fresh
        /\ \A i, j \in 1..Len(threads) : i # j => threads[i].tid # threads[j].tid
        /\ entry \notin entries \cup fresh
        /\ \A i \in 1..Len(threads) : threads[i].tid # entry
        /\ entries \cap fresh = {}
    BY <2>2 DEF ListInv, DistinctInv
  <2>8. \A i \in 1..n : threads'[i].tid \notin entries \cup fresh
    BY <2>4, <2>5, <2>7
  <2>9. \A i, j \in 1..n : i # j => threads'[i].tid # threads'[j].tid
    BY <2>4, <2>5, <2>7
  <2>10. DistinctInv'
    BY <2>2, <2>4, <2>7, <2>8, <2>9 DEF DistinctInv, Listing
  <2>11. \A i \in 1..n :
           /\ threads'[i].crashed <=> threads'[i].tid = Self
           /\ threads'[i].stack <=> threads'[i].tid = Self /\ Len(frames) > 0
    BY <2>4, <2>5 DEF IsCrashed, ListInv, SelfInv
  <2>12. Self \in due \/ \E i \in 1..n : threads'[i].tid = Self
    BY <2>2, <2>4, <2>6 DEF ListInv, SelfInv
  <2>13. SelfInv'
    BY <2>2, <2>4, <2>11, <2>12 DEF SelfInv
  <2> QED
    BY <2>10, <2>13 DEF ListInv
<1>7. CASE EndOfList
  <2>1. /\ pc = "readdir" /\ pc' = "emit" /\ threads' = threads
        /\ entries' = entries /\ fresh' = fresh /\ frames' = frames
        /\ ~MoreThreads \/ due = {}
    BY <1>7 DEF EndOfList, listing, process, walk
  <2> QED
    BY <2>1 DEF ListInv, DistinctInv, SelfInv, Listing, MoreThreads
<1>8. CASE Emit
  <2>1. /\ pc = "emit" /\ pc' = "done" /\ threads' = threads
        /\ entries' = entries /\ fresh' = fresh /\ frames' = frames
        /\ report' = emit_backtrace
    BY <1>8 DEF Emit, listing, process, walk
  <2>2. DOMAIN threads = 1..Len(threads)
    BY DEF TypeInv, TypeOK
  <2>3. report'.stacks = [i \in 1..Len(threads') |-> emit_callstack(threads[i])]
    BY <2>1, <2>2 DEF emit_backtrace
  <2>4. report'.stacks = [i \in 1..Len(threads') |-> emit_callstack(threads[i])']
    BY <2>1, <2>3 DEF emit_callstack
  <2> QED
    BY <2>1, <2>4 DEF ListInv, DistinctInv, SelfInv, Listing, MoreThreads
<1>9. ASSUME NEW t \in Tid, ThreadStarts(t)
      PROVE  ListInv'
  <2>1. /\ t \in fresh /\ fresh' = fresh \ {t} /\ pc' = pc /\ threads' = threads
        /\ entries' = IF pc \in {"readdir", "info"} THEN entries \cup {t} ELSE entries
        /\ due' = due /\ entry' = entry /\ frames' = frames /\ report' = report
    BY <1>9 DEF ThreadStarts, walk, output
  <2>2. DistinctInv'
    BY <2>1 DEF ListInv, DistinctInv
  <2> QED
    BY <2>1, <2>2 DEF ListInv, SelfInv, MoreThreads, emit_callstack
<1>10. ASSUME NEW t \in Tid, ThreadExits(t)
       PROVE  ListInv'
  <2>1. /\ t # Self /\ fresh' = fresh /\ pc' = pc /\ threads' = threads
        /\ entries' = entries /\ due' = due \ {t} /\ entry' = entry
        /\ frames' = frames /\ report' = report
    BY <1>10 DEF ThreadExits, walk, output
  <2>2. DistinctInv'
    BY <2>1 DEF ListInv, DistinctInv
  <2> QED
    BY <2>1, <2>2 DEF ListInv, SelfInv, MoreThreads, emit_callstack
<1>11. CASE UNCHANGED vars
  BY <1>11 DEF vars, walk, process, listing, output, ListInv, DistinctInv,
     SelfInv, MoreThreads, emit_callstack
<1> QED
  BY <1>1, <1>2, <1>3, <1>4, <1>5, <1>6, <1>7, <1>8, <1>9, <1>10, <1>11
  DEF Next, Collect

\* For any number of threads, starting and exiting while they are listed: below
\* the limit of threads, the crashed one is in the report, once and with the
\* whole stack (backtrace.cpp:110-136).
THEOREM CrashedReported == Spec => []StackReported
<1>1. TypeInv /\ ListInv => StackReported
  <2> SUFFICES ASSUME TypeInv, ListInv, pc = "done", threads # <<>>,
                      Len(threads) < MaxThreads
               PROVE  \E i \in DOMAIN threads :
                        /\ threads[i].tid = Self /\ threads[i].crashed
                        /\ report.stacks[i] = frames
                        /\ \A j \in DOMAIN threads \ {i} :
                             /\ threads[j].tid # Self /\ ~threads[j].crashed
                             /\ report.stacks[j] = <<>>
    BY DEF StackReported
  <2>1. PICK i \in 1..Len(threads) : threads[i].tid = Self
    BY DEF ListInv, SelfInv, MoreThreads
  <2>2. \A j \in 1..Len(threads) :
          report.stacks[j] = IF threads[j].stack THEN frames ELSE <<>>
    BY DEF ListInv, SelfInv, emit_callstack
  <2>3. frames = <<>> \/ Len(frames) > 0
    BY DEF TypeInv, TypeOK
  <2>4. threads[i].crashed /\ report.stacks[i] = frames
    BY <2>1, <2>2, <2>3 DEF ListInv, SelfInv
  <2>5. ASSUME NEW j \in 1..Len(threads), j # i
        PROVE  /\ threads[j].tid # Self /\ ~threads[j].crashed
               /\ report.stacks[j] = <<>>
    BY <2>1, <2>2, <2>5 DEF ListInv, DistinctInv, SelfInv
  <2>6. DOMAIN threads = 1..Len(threads)
    BY DEF TypeInv, TypeOK
  <2> QED
    BY <2>1, <2>4, <2>5, <2>6
<1> QED
  BY <1>1, TypeInit, TypeStep, ListInit, ListStep, PTL DEF Spec

=============================================================================
