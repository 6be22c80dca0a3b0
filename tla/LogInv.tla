------------------------------- MODULE LogInv -------------------------------
(***************************************************************************)
(* The inductive invariant of Log, on which the proofs of LogProofs rest.  *)
(***************************************************************************)
EXTENDS Log

CommitLabels == {"commit", "write_log", "write_header", "install",
                 "clear_header", "finish"}
BootPhases == {"read_header", "install", "clear_header"}

NoRepeats(h) == \A i, j \in DOMAIN h : h[i] = h[j] => i = j
In(b, h) == \E i \in DOMAIN h : h[i] = b

\* While the machine boots nothing runs, and memory is what is on disk.
BootInv ==
    /\ sys \in BootPhases =>
          /\ outstanding = 0 /\ mu = 0 /\ ~committing
          /\ rm = [t \in Threads |-> 0]
          /\ pc = [t \in Threads |-> "idle"]
          /\ mem = disk
    /\ sys = "read_header" => header = <<>>
    /\ sys = "install" => tail < Len(header)
    /\ sys \in {"install", "clear_header"} => header = headerDisk
    /\ sys = "panicked" => ~committing

\* At most one thread commits, and only while no operation runs.
CommitInv ==
    /\ \A t, u \in Threads : pc[t] \in CommitLabels /\ pc[u] \in CommitLabels => t = u
    /\ committing = (\E t \in Threads : pc[t] \in CommitLabels)
    /\ committing => \A t \in Threads : pc[t] # "running"
    /\ \A t \in Threads : rm[t] # 0 => pc[t] = "running"
    /\ \A t \in Threads :
          /\ pc[t] \in {"write_log", "install"} => tail < Len(header)
          /\ pc[t] \in {"write_header", "clear_header"} => header # <<>>
          /\ pc[t] = "finish" => header = <<>>

\* The log holds something only for operations that run or are being committed.
HeaderInv ==
    /\ NoRepeats(header) /\ \A b \in DirectBlocks : ~In(b, header)
    /\ NoRepeats(headerDisk) /\ \A b \in DirectBlocks : ~In(b, headerDisk)
    /\ (sys = "up" /\ ~committing /\ \A t \in Threads : pc[t] # "running")
          => header = <<>>
    /\ (sys \in {"up", "panicked"} /\ headerDisk # <<>>)
          => \E t \in Threads : pc[t] \in {"install", "clear_header"}
    /\ \A t \in Threads :
          pc[t] \in {"install", "clear_header"} => headerDisk = header

\* Memory and disk differ only on logged blocks, which are pinned; log blocks
\* that are written hold the memory content; blocks that are installed agree.
DataInv ==
    /\ sys = "up" => \A b \in Blocks : IF In(b, header) THEN pinned[b]
                                                        ELSE mem[b] = disk[b]
    /\ \A t \in Threads :
          /\ pc[t] = "write_log" => \A i \in 1..tail : logDisk[i] = mem[header[i]]
          /\ pc[t] \in {"write_header", "install", "clear_header"} =>
                \A i \in DOMAIN header : logDisk[i] = mem[header[i]]
          /\ pc[t] = "install" => \A i \in 1..tail : disk[header[i]] = mem[header[i]]
          /\ pc[t] = "clear_header" => mem = disk
    /\ sys = "install" => \A i \in 1..tail : disk[header[i]] = logDisk[i]
    /\ sys = "clear_header" => \A i \in DOMAIN header : disk[header[i]] = logDisk[i]

\* The group commit at work: the log on disk describes a complete, readable
\* transaction at every moment of end_op, commit and recover_from_log.
LogInvariant ==
    /\ TypeOK /\ BootInv /\ CommitInv /\ HeaderInv /\ DataInv
    /\ ReservationExact /\ NoProtocolPanic
=============================================================================
