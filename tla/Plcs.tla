-------------------------------- MODULE Plcs --------------------------------
(***************************************************************************)
(* The parallel longest common subsequence of plcs/plcs.c.  main divides   *)
(* every diagonal of the table among T workers; the workers fill the table *)
(* diagonal by diagonal (a "round" each) and meet at a barrier made of two *)
(* atomics: the counter finished_thread_num and a flag per worker.         *)
(*                                                                         *)
(* The case T = 1, which runs Tworker alone, is the definition the other   *)
(* cases are compared with.                                                *)
(***************************************************************************)
EXTENDS Integers, Sequences

CONSTANTS
  Letters,        \* the characters of the two strings
  MaxLen,         \* bound: the longest string
  MaxThreads      \* bound: the most workers, below MAX_THREAD

ASSUME BoundsAssumption ==
  /\ MaxLen \in Nat \ {0}
  /\ MaxThreads \in Nat /\ MaxThreads >= 2

VARIABLES
  A, B, T,        \* the input of main
  thread_todo_list, \* thread_todo_list[round][worker], written by main before it creates workers
  main,           \* 0..T: how many workers are created; T + 1: joined
  pc, round, row, \* per worker: position, its round, the row it fills next
  next,           \* the worker that worker 1 releases next
  dp_cache,       \* dp_cache[<<round, row>>]
  finished,       \* finished_thread_num
  can_run,        \* thread_can_run, by worker
  result

inputs == <<A, B, T, thread_todo_list>>
vars == <<A, B, T, thread_todo_list, main, pc, round, row, next, dp_cache, finished, can_run, result>>

Workers == 1..T
N == Len(A)
M == Len(B)
Rounds == 0..(N + M - 2)
Min2(x, y) == IF x < y THEN x ELSE y
Max2(x, y) == IF x > y THEN x ELSE y
Match(r, c) == IF A[r + 1] = B[c + 1] THEN 1 ELSE 0

-----------------------------------------------------------------------------
(* Tworker: the table filled row by row by one thread. *)
Table ==
  LET dp[x \in (-1..(N - 1)) \X (-1..(M - 1))] ==
        LET r == x[1]
            c == x[2]
        IN IF r < 0 \/ c < 0 THEN 0
           ELSE Max2(Max2(dp[<<r - 1, c>>], dp[<<r, c - 1>>]),
                     dp[<<r - 1, c - 1>>] + Match(r, c))
  IN dp

(* main's division of the diagonal of round r. *)
FirstRow(r) == IF r < M THEN 0 ELSE r - M + 1
FirstCol(r) == IF r < M THEN r ELSE M - 1
LastRow(r) == IF r < N THEN r ELSE N - 1
Size(r) == LastRow(r) - FirstRow(r) + 1

Block(r, i) ==  \* rows of worker i
  IF Size(r) < T THEN 1
  ELSE Size(r) \div T + (IF i <= Size(r) % T THEN 1 ELSE 0)

Nothing == [start_col |-> 0, start_row |-> 0, end_row |-> 0]
(* thread_todo_list[r], filled by the loop over the workers.  Entries of   *)
(* workers beyond the number needed keep the zeros of a global.            *)
Todo(r) ==
  LET part[i \in Workers] ==
        LET first == IF i = 1 THEN FirstRow(r) ELSE part[i - 1].end_row + 1
            col == IF i = 1 THEN FirstCol(r)
                   ELSE part[i - 1].start_col - (part[i - 1].end_row - part[i - 1].start_row) - 1
        IN [start_col |-> col, start_row |-> first,
            end_row |-> Min2(first + Block(r, i) - 1, LastRow(r))]
  IN [i \in Workers |-> IF i <= Min2(T, Size(r)) THEN part[i] ELSE Nothing]

Idle(i, todo) == todo = Nothing /\ i # 1

DP_CACHE(x, y) == IF x >= 0 /\ y >= 0 THEN dp_cache[<<x, y>>] ELSE 0
CellSlip(r, y, c) ==
  Max2(Max2(DP_CACHE(r - 1, y), DP_CACHE(r - 1, y - 1)),
       DP_CACHE(r - 2, y) + Match(y, c))
Cell(r, y, c) ==  \* row y, column c = r - y
  Max2(Max2(DP_CACHE(r - 1, y), DP_CACHE(r - 1, y - 1)),
       DP_CACHE(r - 2, y - 1) + Match(y, c))

-----------------------------------------------------------------------------
Words == UNION {[1..n -> Letters] : n \in 1..MaxLen}

Init ==
  /\ A \in Words /\ B \in Words /\ T \in 2..MaxThreads
  /\ thread_todo_list = [r \in Rounds |-> Todo(r)]
  /\ main = 0
  /\ pc = [i \in 1..MaxThreads |-> "off"]
  /\ round = [i \in 1..MaxThreads |-> 0]
  /\ row = [i \in 1..MaxThreads |-> 0]
  /\ next = 1
  /\ dp_cache = [x \in (0..(2 * MaxLen - 2)) \X (0..(MaxLen - 1)) |-> 0]
  /\ finished = 0
  /\ can_run = [i \in 1..MaxThreads |-> FALSE]
  /\ result = -1

Goto(i, at) == pc' = [pc EXCEPT ![i] = at]

(* main: create the next worker; it may run before the others exist. *)
Create ==
  /\ main < T
  /\ main' = main + 1
  /\ Goto(main + 1, "read")
  /\ UNCHANGED <<inputs, round, row, next, dp_cache, finished, can_run, result>>

(* main: join returns when all workers have; then the result is read. *)
Join ==
  /\ main = T
  /\ \A i \in Workers : pc[i] = "done"
  /\ main' = T + 1
  /\ result' = dp_cache[<<N + M - 2, N - 1>>]
  /\ UNCHANGED <<inputs, pc, round, row, next, dp_cache, finished, can_run>>

(* A worker reads its entry for the round, or leaves after the last one. *)
Read(i) ==
  /\ pc[i] = "read"
  /\ IF round[i] \notin Rounds
     THEN Goto(i, "done") /\ row' = row
     ELSE LET todo == thread_todo_list[round[i]][i]
          IN IF Idle(i, todo)
             THEN Goto(i, "stop") /\ row' = row
             ELSE Goto(i, "fill") /\ row' = [row EXCEPT ![i] = todo.start_row]
  /\ UNCHANGED <<inputs, main, round, next, dp_cache, finished, can_run, result>>

(* One cell of the worker's rows. *)
Fill(i) ==
  /\ pc[i] = "fill"
  /\ LET todo == thread_todo_list[round[i]][i]
         col == todo.start_col - (row[i] - todo.start_row)
     IN /\ dp_cache' = [dp_cache EXCEPT ![<<round[i], row[i]>>] = Cell(round[i], row[i], col)]
        /\ Goto(i, IF row[i] = todo.end_row THEN "stop" ELSE "fill")
  /\ row' = [row EXCEPT ![i] = @ + 1]
  /\ UNCHANGED <<inputs, main, round, next, finished, can_run, result>>

(* The barrier: clear the own flag, then count oneself. *)
Stop(i) ==
  /\ pc[i] = "stop"
  /\ can_run' = [can_run EXCEPT ![i] = FALSE]
  /\ Goto(i, "arrive")
  /\ UNCHANGED <<inputs, main, round, row, next, dp_cache, finished, result>>

Arrive(i) ==
  /\ pc[i] = "arrive"
  /\ finished' = finished + 1
  /\ Goto(i, IF i = 1 THEN "gather" ELSE "wait")
  /\ UNCHANGED <<inputs, main, round, row, next, dp_cache, can_run, result>>

(* Worker 1 waits for all, resets the counter and releases one by one. *)
GatherSlip(i) ==
  /\ pc[i] = "gather" /\ finished >= T - 1
  /\ Goto(i, "reset")
  /\ UNCHANGED <<inputs, main, round, row, next, dp_cache, finished, can_run, result>>
Gather(i) ==
  /\ pc[i] = "gather" /\ finished >= T
  /\ Goto(i, "reset")
  /\ UNCHANGED <<inputs, main, round, row, next, dp_cache, finished, can_run, result>>

Reset(i) ==
  /\ pc[i] = "reset"
  /\ finished' = 0
  /\ next' = 1
  /\ Goto(i, "release")
  /\ UNCHANGED <<inputs, main, round, row, dp_cache, can_run, result>>

ReleaseSlip(i) ==
  /\ pc[i] = "release"
  /\ can_run' = [can_run EXCEPT ![next] = TRUE]
  /\ next' = next + 1
  /\ Goto(i, IF next = T - 1 THEN "wait" ELSE "release")
  /\ UNCHANGED <<inputs, main, round, row, dp_cache, finished, result>>
Release(i) ==
  /\ pc[i] = "release"
  /\ can_run' = [can_run EXCEPT ![next] = TRUE]
  /\ next' = next + 1
  /\ Goto(i, IF next = T THEN "wait" ELSE "release")
  /\ UNCHANGED <<inputs, main, round, row, dp_cache, finished, result>>

Wait(i) ==
  /\ pc[i] = "wait" /\ can_run[i]
  /\ round' = [round EXCEPT ![i] = @ + 1]
  /\ Goto(i, "read")
  /\ UNCHANGED <<inputs, main, row, next, dp_cache, finished, can_run, result>>

Worker(i) ==
  Read(i) \/ Fill(i) \/ Stop(i) \/ Arrive(i) \/ Gather(i) \/ Reset(i) \/ Release(i) \/ Wait(i)

Next == Create \/ Join \/ \E i \in Workers : Worker(i)

Spec == Init /\ [][Next]_vars
(* The threads are scheduled by the host: each one runs on. *)
FairSpec ==
  /\ Spec
  /\ WF_vars(Create) /\ WF_vars(Join)
  /\ \A i \in 1..MaxThreads : WF_vars(i \in Workers /\ Worker(i))

-----------------------------------------------------------------------------
TypeOK ==
  /\ A \in Words /\ B \in Words /\ T \in 2..MaxThreads
  /\ main \in 0..(T + 1)
  /\ pc \in [1..MaxThreads -> {"off", "read", "fill", "stop", "arrive", "gather",
                               "reset", "release", "wait", "done"}]
  /\ round \in [1..MaxThreads -> Nat]
  /\ row \in [1..MaxThreads -> Nat]
  /\ next \in 1..(MaxThreads + 1)
  /\ finished \in Nat
  /\ can_run \in [1..MaxThreads -> BOOLEAN]

(* Worker i has finished its part of round r. *)
Past(i, r) ==
  \/ round[i] > r
  \/ round[i] = r /\ pc[i] \notin {"off", "read", "fill"}

(* The barrier: while a worker fills its part of a round, all workers have *)
(* finished theirs of the round before and nobody is in the next one.  The *)
(* cells it reads are therefore complete and nobody writes to them.        *)
RoundsApart ==
  \A i, j \in Workers :
    pc[i] = "fill" => /\ round[i] > 0 => Past(j, round[i] - 1)
                      /\ round[j] <= round[i]

(* The printed answer is the one of the sequential program. *)
AnswerSequential == main = T + 1 => result = Table[<<N - 1, M - 1>>]

(* Every worker gets through all rounds and main prints an answer. *)
Terminates == <>(main = T + 1)
=============================================================================
