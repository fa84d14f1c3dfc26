--------------------------- MODULE NativeContext ---------------------------
(***************************************************************************)
(* The native context (native-context.cpp) and the delegate of the JVM     *)
(* that is bound to it (jni-delegate.cpp), with the wrappers of the JNI    *)
(* (jni.cpp) through which both read the JVM.                              *)
(*                                                                         *)
(* Any thread may run set_native_context, at any time: the fields are      *)
(* copied one by one without a lock, and the report path, which a handler  *)
(* may read meanwhile, in two halves.                                      *)
(***************************************************************************)
EXTENDS Naturals

CONSTANTS
    Threads,     \* the threads that may call into this module
    Managed,     \* the ManagedContexts it may be given
    Classpaths,  \* the sets of names the JVM may be able to resolve
    Null

\* The names bind_delegate looks up, its methods in order.
Methods == <<"onNativeCrash", "onNativeException", "onApplicationNotResponding">>
Names   == {Methods[i] : i \in 1..3} \cup {"JVMDelegate", "<init>"}
Ids     == {"sessionId", "buildId"}

Texts(field) == {c[field] : c \in Managed} \cup {Null}

VARIABLES
    path,         \* the halves of reportPathAbsolute
    ids,          \* sessionId and buildId
    anrMonitorEnabled,
    initialized,  \* whether the delegate is said to be bound
    delegate,     \* jniDelegateObject
    methods,      \* the method ids: bound or null
    refs,         \* the global references that were not deleted
    found,        \* the names the JVM resolves
    loaded,       \* whether the library is loaded: never, now, or no longer
    arg,          \* the context each thread is copying
    step          \* where each thread is in this module

fields      == <<path, ids, anrMonitorEnabled>>
bound       == <<initialized, delegate, methods, refs>>
contextVars == <<fields, bound, found, loaded, arg, step>>

TypeOK ==
    /\ path \in Texts("reportsDir") \X Texts("reportsDir")
    /\ DOMAIN ids = Ids /\ \A f \in Ids : ids[f] \in Texts(f)
    /\ {anrMonitorEnabled, initialized} \subseteq BOOLEAN
    /\ loaded \in {"never", "loaded", "unloaded"}
    /\ delegate \in Nat \cup {Null} /\ refs \in Nat
    /\ methods \in [1..3 -> BOOLEAN]
    /\ found \in Classpaths
    /\ arg \in [Threads -> Managed \cup {Null}]
    /\ step \in [Threads -> {"out", "head", "tail", "sessionId", "buildId",
                             "anrMonitor", "fault"}]
    /\ \A t \in Threads : arg[t] = Null <=> step[t] = "out"

\* The static structure is zero-initialised.
Init ==
    /\ path = <<Null, Null>> /\ ids = [f \in Ids |-> Null]
    /\ anrMonitorEnabled = FALSE
    /\ initialized = FALSE /\ delegate = Null /\ refs = 0
    /\ methods = [i \in 1..3 |-> FALSE]
    /\ found \in Classpaths
    /\ loaded = "never"
    /\ arg = [t \in Threads |-> Null]
    /\ step = [t \in Threads |-> "out"]

Out(t) == step[t] = "out"

-----------------------------------------------------------------------------
(* The wrappers: null in, null out; a Java exception is cleared            *)

EnvFind(name) == IF name \in found THEN name ELSE Null

EnvGetId(class, name) == IF class = Null THEN Null ELSE EnvFind(name)

EnvNew(class, constructor, object) ==
    IF class = Null \/ constructor = Null THEN Null ELSE object

\* A string of field f; env_get_string_UTF_chars of null is null.
EnvGetText(object, f) == IF object = Null THEN Null ELSE object[f]

-----------------------------------------------------------------------------
(* set_native_context                                                      *)

\* The Kotlin types make the argument non-null.
SetContext(t, c) ==
    /\ Out(t) /\ loaded = "loaded"
    /\ step' = [step EXCEPT ![t] = "head"]
    /\ arg' = [arg EXCEPT ![t] = c]
    /\ UNCHANGED <<fields, bound, found, loaded>>

Text(t, f) == EnvGetText(arg[t], f)

\* strncpy of a field that is null.
CopyNull(t, at, f) ==
    /\ step[t] = at /\ Text(t, f) = Null
    /\ step' = [step EXCEPT ![t] = "fault"]
    /\ UNCHANGED <<fields, bound, found, loaded, arg>>

CopyHead(t) ==
    /\ step[t] = "head" /\ Text(t, "reportsDir") # Null
    /\ step' = [step EXCEPT ![t] = "tail"]
    /\ path' = [path EXCEPT ![1] = Text(t, "reportsDir")]
    /\ UNCHANGED <<ids, anrMonitorEnabled, bound, found, loaded, arg>>

CopyTail(t) ==
    /\ step[t] = "tail"
    /\ step' = [step EXCEPT ![t] = "sessionId"]
    /\ path' = [path EXCEPT ![2] = Text(t, "reportsDir")]
    /\ UNCHANGED <<ids, anrMonitorEnabled, bound, found, loaded, arg>>

CopyId(t, f, to) ==
    /\ step[t] = f /\ Text(t, f) # Null
    /\ step' = [step EXCEPT ![t] = to]
    /\ ids' = [ids EXCEPT ![f] = Text(t, f)]
    /\ UNCHANGED <<path, anrMonitorEnabled, bound, found, loaded, arg>>

CopyFlag(t) ==
    /\ step[t] = "anrMonitor"
    /\ step' = [step EXCEPT ![t] = "out"]
    /\ anrMonitorEnabled' = arg[t].anrMonitor
    /\ arg' = [arg EXCEPT ![t] = Null]
    /\ UNCHANGED <<path, ids, bound, found, loaded>>

Step(t) ==
    \/ CopyHead(t) \/ CopyTail(t) \/ CopyFlag(t)
    \/ CopyId(t, "sessionId", "buildId") \/ CopyId(t, "buildId", "anrMonitor")
    \/ CopyNull(t, "head", "reportsDir")
    \/ \E f \in Ids : CopyNull(t, f, f)

-----------------------------------------------------------------------------
(* bind_delegate, and its callers' assignment of the result                *)

\* JNI_ERR, which the class or the object being missing is answered with, is
\* -1 and becomes true.  A method that is missing ends the binding; the ids
\* after it keep their values.  A delegate bound before is not released.
BindDelegate ==
    LET class  == EnvFind("JVMDelegate")
        object == EnvNew(class, EnvGetId(class, "<init>"), refs + 1)
        Has(i) == EnvGetId(class, Methods[i]) # Null
    IN  /\ delegate' = IF class = Null THEN delegate ELSE object
        /\ refs' = IF object = Null THEN refs ELSE refs + 1
        /\ IF object = Null
           THEN initialized' = TRUE /\ UNCHANGED methods
           ELSE /\ methods' = [i \in 1..3 |-> IF \A j \in 1..(i - 1) : Has(j)
                                              THEN Has(i) ELSE methods[i]]
                /\ initialized' = \A i \in 1..3 : Has(i)

\* System.loadLibrary and JNI_OnLoad.
OnLoad ==
    /\ loaded = "never" /\ loaded' = "loaded"
    /\ BindDelegate
    /\ UNCHANGED <<fields, found, arg, step>>

\* What was bound is given back, if there is an environment to do it with.
ReleaseDelegate(env) ==
    IF env = Null
    THEN UNCHANGED <<delegate, methods, refs>>
    ELSE /\ delegate' = Null /\ methods' = [i \in 1..3 |-> FALSE]
         /\ refs' = IF delegate = Null THEN refs ELSE refs - 1

\* release_native_context; nobody else holds its mutex.
ReleaseContext(env) ==
    IF initialized
    THEN ReleaseDelegate(env) /\ initialized' = FALSE
    ELSE UNCHANGED bound

\* JNI_OnUnload: nothing is done when GetEnv answers with an environment, and
\* the context is released without one when it does not.  A library that is
\* loaded after that has a static context of its own.
OnUnload ==
    /\ loaded = "loaded" /\ loaded' = "unloaded"
    /\ UNCHANGED bound \/ ReleaseContext(Null)
    /\ UNCHANGED <<fields, found, arg, step>>
=============================================================================
