---------------------------- MODULE SampleBuffer ----------------------------
(***************************************************************************)
(* CS423/MP3: the samples of the profiler on their way to the user. The    *)
(* work function of the module (mp3.c) writes them word by word into a     *)
(* ring that monitor.c maps into its memory, prints and clears. Nothing    *)
(* orders the two: the monitor goes by the words that are not clear (-1),  *)
(* every access to a word is a step, and either side may stop between two. *)
(* The module goes round PROFILER_BUFFER_LEN words, the monitor BUFD_MAX.  *)
(* What the buffer holds when it is allocated nobody has written.          *)
(***************************************************************************)
EXTENDS Integers, Sequences

CONSTANTS Width,                \* the words of a sample: 4
          PROFILER_BUFFER_LEN,  \* the words of the ring
          BUFD_MAX,             \* where the monitor goes back to its start
          MaxSamples            \* bound: the samples that are taken

ASSUME WidthAssumption == Width \in Nat \ {0}
ASSUME RingAssumption ==
  /\ PROFILER_BUFFER_LEN \in Nat /\ BUFD_MAX \in Nat \ {0} /\ MaxSamples \in Nat
  /\ PROFILER_BUFFER_LEN % Width = 0 /\ BUFD_MAX % Width = 0
  /\ BUFD_MAX < PROFILER_BUFFER_LEN

VARIABLES
  profiler_buffer,  \* for each word, the sample it is of
  samples,          \* how many samples were begun
  written,          \* how many words of the last one are in the buffer
  profiler_ptr,     \* the next word the module writes
  monitor,          \* where the monitor is
  index,            \* its next word
  printed,          \* the words of the row it is printing
  rows,             \* history: the rows with words of samples that its runs printed
  due,              \* history: how many samples were complete when the run began
  crossed           \* history: the module and the monitor were at the same sample, or a
                    \* run of the monitor was longer than the time between two

writer == <<samples, written, profiler_ptr>>
reader == <<monitor, index, printed, rows, due>>
ringVars == <<profiler_buffer, writer, reader, crossed>>

Word == 0 .. PROFILER_BUFFER_LEN - 1
Clear == -1
Junk == 0   \* neither -1 nor of a sample
Sample == 1 .. MaxSamples
Content == {Clear, Junk} \cup Sample

\* The place of a word: the sample it belongs to, and which word of it it is.
SlotOf(w) == w \div Width
Offset(w) == w % Width
Complete == IF written = Width THEN samples ELSE samples - 1

RingTypeOK ==
  /\ profiler_buffer \in [Word -> Content]
  /\ samples \in 0 .. MaxSamples /\ written \in 0 .. Width
  /\ profiler_ptr \in Word
  /\ monitor \in {"idle", "scan", "test", "print", "clear"}
  /\ index \in 0 .. BUFD_MAX
  /\ printed \in Seq(Content \X (0 .. Width - 1)) /\ Len(printed) <= Width
  /\ rows \in Seq(Seq(Content \X (0 .. Width - 1)))
  /\ due \in 0 .. MaxSamples /\ crossed \in BOOLEAN

\* Uninitialised memory. (The words of one sample are taken to be alike.)
RingInit ==
  /\ \E old \in [0 .. SlotOf(PROFILER_BUFFER_LEN) - 1 -> {Clear, Junk}] :
       profiler_buffer = [w \in Word |-> old[SlotOf(w)]]
  /\ samples = 0 /\ written = Width /\ profiler_ptr = 0
  /\ monitor = "idle" /\ index = 0 /\ printed = <<>> /\ rows = <<>> /\ due = 0
  /\ crossed = FALSE

-----------------------------------------------------------------------------
(* mp3_work_function *)

\* The monitor has passed the word in its search, or is in the middle of its sample,
\* or has run past what it reads, to begin with a word of another sample.
SeenByMonitor(w) ==
  \/ monitor = "scan" /\ w < index
  \/ /\ monitor \in {"test", "print", "clear"} /\ SlotOf(w) = SlotOf(index)
     /\ printed # <<>> \/ Offset(index) # 0
  \/ monitor # "idle" /\ index = BUFD_MAX

\* The module is in the middle of the sample the word belongs to.
BeingWritten(w) == 0 < written /\ written < Width /\ SlotOf(w) = SlotOf(profiler_ptr)

\* The delayed work runs: the next sample. The monitor is slow if it is the second
\* one it meets in a run.
Begin ==
  /\ written = Width /\ samples < MaxSamples
  /\ samples' = samples + 1 /\ written' = 0
  /\ crossed' = (crossed \/ (monitor # "idle" /\ samples > due))
  /\ UNCHANGED <<profiler_buffer, profiler_ptr, reader>>

\* Mutant: the pointer goes back to the start before the monitor does.
StoreShort ==
  /\ written < Width /\ written' = written + 1
  /\ profiler_buffer' = [profiler_buffer EXCEPT ![profiler_ptr] = samples]
  /\ profiler_ptr' = (profiler_ptr + 1) % (BUFD_MAX - Width)
  /\ crossed' = (crossed \/ SeenByMonitor(profiler_ptr))
  /\ UNCHANGED <<samples, reader>>

Store ==
  /\ written < Width /\ written' = written + 1
  /\ profiler_buffer' = [profiler_buffer EXCEPT ![profiler_ptr] = samples]
  /\ profiler_ptr' = (profiler_ptr + 1) % PROFILER_BUFFER_LEN
  /\ crossed' = (crossed \/ SeenByMonitor(profiler_ptr))
  /\ UNCHANGED <<samples, reader>>

-----------------------------------------------------------------------------
(* monitor.c *)

Start ==
  /\ monitor = "idle" /\ monitor' = "scan"
  /\ index' = 0 /\ due' = Complete
  /\ UNCHANGED <<profiler_buffer, writer, printed, rows, crossed>>

Looks == crossed' = (crossed \/ BeingWritten(index))

\* The first loop. If all words are clear it ends on the word behind them.
Scan ==
  /\ monitor = "scan"
  /\ IF index < BUFD_MAX /\ profiler_buffer[index] = Clear
     THEN index' = index + 1 /\ UNCHANGED monitor
     ELSE monitor' = "test" /\ UNCHANGED index
  /\ Looks
  /\ UNCHANGED <<profiler_buffer, writer, printed, rows, due>>

\* The condition of the second loop, once for each row.
Test ==
  /\ monitor = "test"
  /\ monitor' = IF profiler_buffer[index] = Clear THEN "idle" ELSE "print"
  /\ Looks
  /\ UNCHANGED <<profiler_buffer, writer, index, printed, rows, due>>

PrintWord ==
  /\ monitor = "print" /\ monitor' = "clear"
  /\ printed' = Append(printed, <<profiler_buffer[index], Offset(index)>>)
  /\ Looks
  /\ UNCHANGED <<profiler_buffer, writer, index, rows, due>>

HasSample(row) == \E k \in DOMAIN row : row[k][1] \in Sample

Advance ==
  /\ index' = IF index + 1 >= BUFD_MAX THEN 0 ELSE index + 1
  /\ IF Len(printed) = Width
     THEN /\ rows' = IF HasSample(printed) THEN Append(rows, printed) ELSE rows
          /\ printed' = <<>> /\ monitor' = "test"
     ELSE monitor' = "print" /\ UNCHANGED <<rows, printed>>

\* Mutant: the last word of a sample is not cleared.
ClearWordButLast ==
  /\ monitor = "clear" /\ Advance
  /\ profiler_buffer' = IF Len(printed) = Width THEN profiler_buffer
                        ELSE [profiler_buffer EXCEPT ![index] = Clear]
  /\ Looks
  /\ UNCHANGED <<writer, due>>

ClearWord ==
  /\ monitor = "clear" /\ Advance
  /\ profiler_buffer' = [profiler_buffer EXCEPT ![index] = Clear]
  /\ Looks
  /\ UNCHANGED <<writer, due>>

Monitor == Scan \/ Test \/ PrintWord \/ ClearWord

-----------------------------------------------------------------------------
RingNext == Begin \/ Store \/ Start \/ Monitor

RingSpec == RingInit /\ [][RingNext]_ringVars

-----------------------------------------------------------------------------
(* Properties *)

WholeRow(s) == [k \in 1 .. Width |-> <<s, k - 1>>]

\* As long as the samples fit what the monitor reads, the two were never at the same
\* sample at once and no run took longer than the 50 ms between samples, the runs
\* print every sample once, as one row, in the order they were taken; and a run prints
\* all that were complete when it began (monitor.c:60 to 77). Rows of words nobody has
\* written may come between.
EachSampleOnce ==
  ~crossed /\ samples <= BUFD_MAX \div Width =>
    /\ \A k \in DOMAIN rows : rows[k] = WholeRow(k)
    /\ monitor = "idle" => Len(rows) >= due

\* Whatever happens, no word of a sample is printed twice: not when the monitor
\* meets the module, starts in the middle of a sample, or runs past BUFD_MAX.
NoWordTwice ==
  LET all == Append(rows, printed)
  IN  \A r \in DOMAIN all : \A j \in DOMAIN all[r] :
        all[r][j][1] \in Sample =>
          \A s \in DOMAIN all : \A k \in DOMAIN all[s] :
            all[s][k] = all[r][j] => r = s /\ j = k
=============================================================================
