---------------------------- MODULE EncoderRace ----------------------------
(***************************************************************************)
(* One encoder of il_instructions.cpp called by several JIT threads at    *)
(* once.  Each encoder keeps its bytes in a function-local static vector:  *)
(* the call clears it, pushes the instruction's bytes, reads its size and  *)
(* returns its data pointer; the rewriter then memcpy's size bytes from    *)
(* that pointer into its own buffer (il_rewriter.h).  Nothing serialises   *)
(* the calls, and the CLR compiles different methods on different threads. *)
(*                                                                         *)
(* The vector is modelled by its storage `mem` and its size `len`: clear() *)
(* only resets the size, and once the vector has grown to the encoding's   *)
(* length its storage no longer moves, so the pointer a call returns stays *)
(* valid and a late memcpy reads whatever the storage holds then.  The     *)
(* unsynchronised accesses are taken one at a time, in any order: those    *)
(* are outcomes the build can produce.                                     *)
(***************************************************************************)
EXTENDS Integers, Sequences

CONSTANTS
    Threads,   \* JIT threads rewriting a method each
    Calls      \* calls of one encoder: [enc, arg] records, as in ILInstructions

Enc == INSTANCE ILInstructions
           WITH code <- <<>>, emitted <- <<>>, starts <- <<>>, MaxInstrs <- 0

\* The storage of the static vector once it has grown to the encoding length.
Capacity == 5

VARIABLES
    mem,       \* the vector's storage
    len,       \* buffer.size()
    pc,        \* per thread: "idle", "push", "copy" or "done"
    want,      \* per thread: the encoder call it makes
    pushed,    \* per thread: how many of its bytes it has pushed
    size,      \* per thread: its local `size`, set by the encoder
    got        \* per thread: the bytes its memcpy copied

vars == <<mem, len, pc, want, pushed, size, got>>

Init ==
    /\ mem = [k \in 1..Capacity |-> 0]
    /\ len = 0
    /\ pc = [t \in Threads |-> "idle"]
    /\ want = [t \in Threads |-> CHOOSE c \in Calls : TRUE]
    /\ pushed = [t \in Threads |-> 0]
    /\ size = [t \in Threads |-> 0]
    /\ got = [t \in Threads |-> <<>>]

\* The encoder is entered with call c: buffer.clear().
Clear(t, c) ==
    /\ pc[t] = "idle"
    /\ len' = 0
    /\ pc' = [pc EXCEPT ![t] = "push"]
    /\ want' = [want EXCEPT ![t] = c]
    /\ pushed' = [pushed EXCEPT ![t] = 0]
    /\ UNCHANGED <<mem, size, got>>

\* The next buffer.push_back of the thread's encoding.  It writes at the
\* vector's current size, whoever set it.
PushBack(t) ==
    /\ pc[t] = "push"
    /\ pushed[t] < Len(Enc!Encode(want[t]))
    /\ len < Capacity
    /\ mem' = [mem EXCEPT ![len + 1] = Enc!Encode(want[t])[pushed[t] + 1]]
    /\ len' = len + 1
    /\ pushed' = [pushed EXCEPT ![t] = @ + 1]
    /\ UNCHANGED <<pc, want, size, got>>

\* size = buffer.size(); return buffer.data();
Return(t) ==
    /\ pc[t] = "push"
    /\ pushed[t] = Len(Enc!Encode(want[t]))
    /\ size' = [size EXCEPT ![t] = len]
    /\ pc' = [pc EXCEPT ![t] = "copy"]
    /\ UNCHANGED <<mem, len, want, pushed, got>>

\* memcpy(newIL, il, size): the storage as it is now.
Copy(t) ==
    /\ pc[t] = "copy"
    /\ got' = [got EXCEPT ![t] = [k \in 1..size[t] |-> mem[k]]]
    /\ pc' = [pc EXCEPT ![t] = "done"]
    /\ UNCHANGED <<mem, len, want, pushed, size>>

Next ==
    \E t \in Threads :
        \/ \E c \in Calls : Clear(t, c)
        \/ PushBack(t)
        \/ Return(t)
        \/ Copy(t)

Spec == Init /\ [][Next]_vars

-----------------------------------------------------------------------------
\* What the rewriter relies on when it copies an encoder's result: the bytes
\* it copies into its method's body are the encoding of the call it made,
\* whatever other JIT threads do with the same encoder meanwhile.
CopiedOwnEncoding ==
    \A t \in Threads : pc[t] = "done" => got[t] = Enc!Encode(want[t])

====
