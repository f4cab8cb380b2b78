----------------------------- MODULE TestBench -----------------------------
(***************************************************************************)
(* The unit tests of cpu_dispatch, run on the model of cpu_dispatch: a     *)
(* zeroed processor on a bus of 64 KiB goes through the steps of a run.    *)
(* The tests are what the repository says of the instructions whose code   *)
(* is in a binary library.                                                 *)
(***************************************************************************)
EXTENDS Instructions, DispatchTests
LOCAL INSTANCE SequencesExt

VARIABLES
    test, run,      \* the test, and the run in it
    passed,         \* how many of its steps are done
    m               \* the machine

Zeroed ==
    [reg |-> [r \in R8s |-> 0], F |-> NoFlags, SP |-> 0, PC |-> 0, IME |-> 0, HALT |-> 0,
     idle_time |-> 0, write_listener |-> 0, mem |-> <<>>, gap |-> {}, err |-> "ERR_NONE"]

Put(s, p) ==
    CASE p.what = "bus" -> [s EXCEPT !.mem = (p.at :> p.v) @@ @]
      [] p.what = "program" -> [s EXCEPT !.mem = (s.PC + p.at :> p.v) @@ @]
      [] p.what = "stack" -> cpu_SP_push(s, p.v)
      [] p.what = "SP" -> [s EXCEPT !.SP = p.v]
      [] p.what = "PC" -> [s EXCEPT !.PC = p.v]
      [] p.what = "F"  -> [s EXCEPT !.F = FlagsOf(p.v)]
      [] p.what \in R8s -> cpu_reg_set(s, p.what, p.v)
      [] OTHER -> cpu_reg_pair_set(s, p.what, p.v)
Found(s, w) ==
    CASE w.what = "bus" -> ByteAt(s, w.at)
      [] w.what = "stack" -> Popped(s)
      [] w.what \in {"SP", "PC", "IME", "HALT"} -> s[w.what]
      [] w.what = "F"  -> ByteOf(s.F)
      [] w.what \in R8s -> s.reg[w.what]
      [] OTHER -> cpu_reg_pair_get(s, w.what)

DO_RUN(s, step) == cpu_dispatch(FoldLeft(Put, s, step.puts), RowNamed(step.op))

-----------------------------------------------------------------------------
Steps == Tests[test][run]

Init ==
    /\ test \in DOMAIN Tests
    /\ run \in DOMAIN Tests[test]
    /\ passed = 0
    /\ m = Zeroed

Next ==
    /\ passed < Len(Steps)
    /\ passed' = passed + 1
    /\ m' = DO_RUN(m, Steps[passed + 1])
    /\ UNCHANGED <<test, run>>

Spec == Init /\ [][Next]_<<test, run, passed, m>>

\* What the unit tests assert of cpu_dispatch: it succeeds, and the registers,
\* flags and bytes are the expected ones, also after all the steps that came
\* before on the same machine.  It is about every instruction that cpu.c
\* dispatches, those of the binary library included.
AsExpected ==
    passed > 0 => /\ Fine(m)
                /\ \A w \in Steps[passed].want : Found(m, w) = w.v
=============================================================================
