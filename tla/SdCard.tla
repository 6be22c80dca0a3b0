------------------------------- MODULE SdCard -------------------------------
(***************************************************************************)
(* How the driver brings up the SD card at boot (src/src/driver/sd.c:      *)
(* sd_init, sdInit and the calls below them): the reset of the controller, *)
(* its clock, the commands that identify and select the card, with their   *)
(* polling loops and retries, and the first read, of the MBR.              *)
(*                                                                         *)
(* A polling loop waits for an event for a while, and its last round may   *)
(* see the event and still report a timeout: a wait can time out at any    *)
(* moment.  The answer to a command that timed out can come later.         *)
(***************************************************************************)
EXTENDS Integers

CONSTANTS
    HostVersions,    \* sdHostVer
    OpCondRetries,   \* retries of ACMD41
    MaxBusy,         \* bound: answers to ACMD41 before the card is ready
    MaxFaults        \* bound: lost commands and answers, and transfers with errors

ASSUME SdCardAssumption ==
    /\ HostVersions \subseteq 0..2
    /\ OpCondRetries \in Nat /\ MaxBusy \in Nat /\ MaxFaults \in Nat

VARIABLES
    stage,    \* where sd_init and sdInit are
    step,     \* where they are in sending a command
    old,      \* the card is treated as an old one
    tries,    \* retries of ACMD41 that are left
    sd,       \* sdCard
    host,     \* the registers of the controller
    card,     \* the card
    mbr,      \* what the MBR was read as
    dropped,  \* a wait of sd_init has failed
    faults

bootVars == <<stage, step, old, tries, sd, host, card, mbr, dropped, faults>>

-----------------------------------------------------------------------------
(* The clock.                                                               *)

FREQ_SETUP == 400000
FREQ_NORMAL == 25000000
BaseClock == 41666666
HOST_SPEC_V2 == 1

\* fls_long: halve the part of the word that is searched for its highest bit.
Halved(x, r, n) == IF x < 2^(r - n) THEN r - n ELSE r
Fls(x) ==
    IF x = 0 THEN 0
    ELSE Halved(x, Halved(x, Halved(x, Halved(x, Halved(x, 32, 16), 8), 4), 2), 1)

\* sdGetClockDivider, as the 10 bits of the divider in CONTROL1.
Divider(ver, freq) ==
    LET closest == BaseClock \div freq
        shift == Fls(closest - 1)
        shiftcount == IF shift > 8 THEN 7 ELSE IF shift > 0 THEN shift - 1 ELSE 0
        divisor == IF ver > HOST_SPEC_V2 THEN closest ELSE 2^shiftcount
    IN  (IF divisor <= 2 THEN 2 ELSE divisor) % (IF ver > HOST_SPEC_V2 THEN 1024 ELSE 256)

\* What the controller makes of it.
Frequency(divider) == IF divider = 0 THEN BaseClock ELSE BaseClock \div (2 * divider)

-----------------------------------------------------------------------------
(* The state.                                                               *)

NoAnswer == [app |-> FALSE, err |-> FALSE, complete |-> FALSE, ccs |-> FALSE, bus4 |-> FALSE]

BootInit ==
    /\ stage = "start" /\ step = "call" /\ old = FALSE /\ tries = 0
    /\ sd = [type |-> "none", rca |-> FALSE, ocr |-> NoAnswer, app |-> FALSE, bus4 |-> FALSE,
             init |-> FALSE]
    /\ host \in [ver : HostVersions, clock : {0}, width : {1}, inhibit : {FALSE}, int : {{}},
                 pending : {"none"}, answer : {NoAnswer}, fresh : {FALSE}, data : {"none"}]
    /\ card \in {c \in [v2 : BOOLEAN, hc : BOOLEAN, bus4 : BOOLEAN, busy : 0..MaxBusy,
                        state : {"idle"}, app : {FALSE}, cond : {FALSE}, width : {1}] :
                   c.hc => c.v2}
    /\ mbr = "none" /\ dropped = FALSE /\ faults = 0

-----------------------------------------------------------------------------
(* The card and the controller (external).                                  *)

\* The commands, and the card that has carried one out; with APP_CMD before them
\* some mean something else.
Legal(c, cmd) ==
    CASE cmd \in {"GO_IDLE_STATE", "APP_CMD"} -> TRUE
      [] cmd = "SEND_IF_COND"    -> c.v2 /\ c.state = "idle"
      [] cmd \in {"OP_COND_HC", "OP_COND_SC"} -> c.app /\ c.state = "idle"
      [] cmd = "ALL_SEND_CID"    -> c.state = "ready"
      [] cmd = "SEND_REL_ADDR"   -> c.state \in {"ident", "stby"}
      [] cmd \in {"SEND_CSD", "CARD_SELECT"} -> c.state = "stby"
      [] cmd = "SEND_SCR"        -> c.app /\ c.state = "tran"
      [] OTHER                   -> c.state = "tran" /\ host.data # "coming"
\* ACMD41: a card of high capacity gets ready only for a host that knows of it.
Powers(c, cmd) == c.busy = 0 /\ (c.hc => c.cond /\ cmd = "OP_COND_HC")
Executed(c, cmd) ==
    LET d == [c EXCEPT !.app = (cmd = "APP_CMD")] IN
    CASE cmd = "GO_IDLE_STATE" -> [d EXCEPT !.state = "idle", !.cond = FALSE, !.width = 1]
      [] cmd = "SEND_IF_COND"  -> [d EXCEPT !.cond = TRUE]
      [] cmd \in {"OP_COND_HC", "OP_COND_SC"} ->
           [d EXCEPT !.busy = IF @ > 0 THEN @ - 1 ELSE 0,
                     !.state = IF Powers(c, cmd) THEN "ready" ELSE "idle"]
      [] cmd = "ALL_SEND_CID"  -> [d EXCEPT !.state = "ident"]
      [] cmd = "SEND_REL_ADDR" -> [d EXCEPT !.state = "stby"]
      [] cmd = "CARD_SELECT"   -> [d EXCEPT !.state = "tran"]
      [] cmd = "SET_BUS_WIDTH" /\ c.app -> [d EXCEPT !.width = 4]
      [] OTHER                 -> d
Answer(c, cmd) ==
    [app |-> c.app \/ cmd = "APP_CMD", err |-> FALSE,
     complete |-> cmd \in {"OP_COND_HC", "OP_COND_SC"} /\ Powers(c, cmd),
     ccs |-> c.hc /\ Powers(c, cmd), bus4 |-> c.bus4]

Faulty == faults < MaxFaults /\ faults' = faults + 1
Answered(int, a) ==
    host' = [host EXCEPT !.int = @ \cup int, !.pending = "none", !.inhibit = FALSE,
                         !.answer = a, !.fresh = TRUE,
                         !.data = IF host.pending \in {"SEND_SCR", "READ_SINGLE"}
                                  THEN "coming" ELSE @]
\* The controller gives up; its command line may stay busy.
GivesUp(int) ==
    \E busy \in BOOLEAN :
        host' = [host EXCEPT !.int = @ \cup int, !.pending = "none", !.inhibit = busy]

\* A command is carried out and answered.
CardAnswers ==
    /\ host.pending # "none" /\ host.clock > 0 /\ Legal(card, host.pending)
    /\ card' = Executed(card, host.pending)
    /\ \/ Answered({"CMD_DONE"}, Answer(card, host.pending)) /\ UNCHANGED faults
       \/ Faulty /\ Answered({"CMD_DONE"}, [Answer(card, host.pending) EXCEPT !.err = TRUE])
       \/ Faulty /\ GivesUp({"CMD_TIMEOUT", "ERROR"})
       \/ Faulty /\ GivesUp({"ERROR"})
    /\ UNCHANGED <<stage, step, old, tries, sd, mbr, dropped>>

\* A command is not: it is lost, or the card may not be asked that now.
CardSilent ==
    /\ host.pending # "none" /\ host.clock > 0
    /\ \/ ~Legal(card, host.pending) /\ UNCHANGED faults
       \/ Legal(card, host.pending) /\ Faulty
    /\ IF host.pending \in {"GO_IDLE_STATE", "APP_CMD"} /\ ~sd.rca
         THEN Answered({"CMD_DONE"}, NoAnswer)
         ELSE GivesUp({"CMD_TIMEOUT", "ERROR"})
    /\ card' = [card EXCEPT !.app = FALSE]
    /\ UNCHANGED <<stage, step, old, tries, sd, mbr, dropped>>

\* The data of a block arrives, unless the two ends use different bus widths; the
\* end of the transfer is raised when the data has been read.
DataArrives ==
    /\ host.data = "coming"
    /\ \/ /\ host.width = card.width
          /\ host' = [host EXCEPT !.int = @ \cup {"READ_RDY"}, !.data = "ready"]
          /\ UNCHANGED faults
       \/ /\ IF host.width = card.width THEN Faulty ELSE UNCHANGED faults
          /\ host' = [host EXCEPT !.int = @ \cup {"ERROR"}, !.data = "none"]
    /\ UNCHANGED <<stage, step, old, tries, sd, card, mbr, dropped>>
DataEnds ==
    /\ host.data = "read"
    /\ host' = [host EXCEPT !.int = @ \cup {"DATA_DONE"}, !.data = "none"]
    /\ UNCHANGED <<stage, step, old, tries, sd, card, mbr, dropped, faults>>

-----------------------------------------------------------------------------
(* Waits and commands.                                                      *)

\* sdWaitForInterrupt: its results, and the interrupts that are left.
Results(mask) ==
    {"TIMEOUT"}
      \cup (IF "ERROR" \in host.int /\ "CMD_TIMEOUT" \notin host.int THEN {"ERROR"} ELSE {})
      \cup (IF mask \in host.int /\ "ERROR" \notin host.int THEN {"OK"} ELSE {})
Left(mask, r) == IF r = "OK" THEN host.int \ {mask} ELSE {}

\* sdWaitForCommand
MayBeFree == ~host.inhibit /\ "ERROR" \notin host.int

\* The first part of sdSendCommandP: clear the interrupts, set the argument and
\* the command.  (The mutant leaves the interrupts.)
IssueUncleared(cmd) ==
    host' = [host EXCEPT !.pending = cmd, !.inhibit = TRUE, !.fresh = FALSE]
Issue(cmd) ==
    host' = [host EXCEPT !.int = {}, !.pending = cmd, !.inhibit = TRUE, !.fresh = FALSE]

\* Its second part: what the answer to a command leaves in sdCard, and the result.
Taken(cmd, a) ==
    CASE cmd = "GO_IDLE_STATE" -> sd
      [] cmd \in {"OP_COND_HC", "OP_COND_SC"} -> [sd EXCEPT !.ocr = a, !.app = FALSE]
      [] cmd \in {"ALL_SEND_CID", "SEND_CSD", "SEND_IF_COND"} -> [sd EXCEPT !.app = FALSE]
      [] cmd = "SEND_REL_ADDR" -> [sd EXCEPT !.rca = TRUE, !.app = a.app]
      [] OTHER -> [sd EXCEPT !.app = a.app]
Result(cmd, a) ==
    IF a.err /\ cmd \notin {"GO_IDLE_STATE", "OP_COND_HC", "OP_COND_SC", "ALL_SEND_CID",
                          "SEND_CSD"}
      THEN "STATUS" ELSE "OK"

\* The command that sdInit is at; the last three, and ACMD41, need APP_CMD.
CommandAt ==
    CASE stage = "idle"     -> "GO_IDLE_STATE"
      [] stage = "ifcond"   -> "SEND_IF_COND"
      [] stage = "opcond"   -> IF old THEN "OP_COND_SC" ELSE "OP_COND_HC"
      [] stage = "cid"      -> "ALL_SEND_CID"
      [] stage = "rca"      -> "SEND_REL_ADDR"
      [] stage = "csd"      -> "SEND_CSD"
      [] stage = "select"   -> "CARD_SELECT"
      [] stage = "scr"      -> "SEND_SCR"
      [] stage = "width"    -> "SET_BUS_WIDTH"
      [] stage = "blocklen" -> "SET_BLOCKLEN"
      [] stage = "mbr"      -> "READ_SINGLE"
      [] OTHER           -> "none"
NeedsApp(cmd) == cmd \in {"OP_COND_HC", "OP_COND_SC", "SEND_SCR", "SET_BUS_WIDTH"}

-----------------------------------------------------------------------------
(* sdInit: what follows a command.                                          *)

GoTo(p) == stage' = p /\ step' = "call"
\* sd_init does not look at the result of sdInit.
SdInitFails == GoTo("assert") /\ UNCHANGED <<old, tries>>

\* SEND_IF_COND; a card that does not answer it as it should is an old one.
AfterIfCond(r) ==
    \/ r = "OK" /\ GoTo("opcond") /\ tries' = OpCondRetries /\ UNCHANGED old
    \/ r = "BUSY" /\ SdInitFails
    \/ r \notin {"OK", "BUSY"} /\ old' = TRUE /\ tries' = OpCondRetries
       /\ GoTo(IF host.inhibit THEN "reset" ELSE "opcond")

\* sdAppSendOpCond: a timeout is no failure.  (The mutants do not wait until the
\* card is ready, and do not count.)
OpCondAny(s) == TRUE
OpCondReady(s) == s.ocr.complete
CountNothing(n) == n
CountDown(n) == n - 1
AfterOpCond(r) ==
    \/ r \notin {"OK", "TIMEOUT"} /\ SdInitFails
    \/ /\ r \in {"OK", "TIMEOUT"} /\ OpCondReady(sd') /\ GoTo("voltage")
       /\ UNCHANGED <<old, tries>>
    \/ /\ r \in {"OK", "TIMEOUT"} /\ ~OpCondReady(sd') /\ tries = 0 /\ SdInitFails
    \/ /\ r \in {"OK", "TIMEOUT"} /\ ~OpCondReady(sd') /\ tries > 0 /\ GoTo("opcond")
       /\ tries' = CountDown(tries) /\ UNCHANGED old

\* The others fail when their command does.
NextStage ==
    CASE stage = "idle"   -> IF old THEN "opcond" ELSE "ifcond"
      [] stage = "cid"    -> "rca"
      [] stage = "rca"    -> "csd"
      [] stage = "csd"    -> "format"
      [] stage = "select" -> "waitdata"
      [] stage = "scr"    -> "readscr"
      [] stage = "width"  -> "dwidth"
      [] stage = "blocklen" -> "finish"
      [] stage = "mbr"    -> "mbrwait"
AfterCommand(r) ==
    IF stage = "ifcond" THEN AfterIfCond(r)
    ELSE IF stage = "opcond" THEN AfterOpCond(r)
    ELSE IF r = "OK" THEN GoTo(NextStage) /\ UNCHANGED <<old, tries>>
    ELSE IF stage = "mbr" THEN GoTo("panic") /\ UNCHANGED <<old, tries>>
    ELSE SdInitFails

-----------------------------------------------------------------------------
(* Sending a command: sdSendCommand, sdSendCommandA, sdSendAppCommand.      *)

Sending == CommandAt # "none"
\* The command line does not get free.  Without an address the result of APP_CMD
\* is not looked at.
Busy ==
    /\ Sending /\ step \in {"call", "apped"}
    /\ IF NeedsApp(CommandAt) /\ step = "call" /\ ~sd.rca
         THEN step' = "apped" /\ UNCHANGED <<stage, old, tries>>
         ELSE AfterCommand("BUSY")
    /\ UNCHANGED <<sd, host, card, mbr, dropped, faults>>
SendApp ==
    /\ Sending /\ NeedsApp(CommandAt) /\ step = "call" /\ MayBeFree
    /\ Issue("APP_CMD") /\ step' = "appsent"
    /\ UNCHANGED <<stage, old, tries, sd, card, mbr, dropped, faults>>
Send ==
    /\ Sending /\ step = (IF NeedsApp(CommandAt) THEN "apped" ELSE "call") /\ MayBeFree
    /\ Issue(CommandAt) /\ step' = "sent"
    /\ UNCHANGED <<stage, old, tries, sd, card, mbr, dropped, faults>>

\* The wait for APP_CMD is over.  With an address the card must have accepted it.
AppDone ==
    /\ step = "appsent"
    /\ \E r \in Results("CMD_DONE") :
         /\ host' = [host EXCEPT !.int = Left("CMD_DONE", r)]
         /\ sd' = IF r = "OK" /\ sd.rca THEN Taken("APP_CMD", host.answer) ELSE sd
         /\ LET bad == IF r # "OK" THEN r
                       ELSE IF host.answer.err THEN "STATUS"
                       ELSE IF ~host.answer.app THEN "ERROR" ELSE "OK"
            IN  IF ~sd.rca \/ bad = "OK" THEN step' = "apped" /\ UNCHANGED <<stage, old, tries>>
                ELSE AfterCommand(bad)
    /\ UNCHANGED <<card, mbr, dropped, faults>>

\* The wait for the command is over, and its answer is taken; after an
\* application command the card must have seen it as one.
CommandDone ==
    /\ step = "sent"
    /\ \E r \in Results("CMD_DONE") :
         LET a == host.answer
             taken == IF r = "OK" THEN Taken(CommandAt, a) ELSE sd
             got == IF r = "OK" THEN Result(CommandAt, a) ELSE r
             res == IF got = "OK" /\ NeedsApp(CommandAt) /\ taken.rca /\ ~taken.app
                      THEN "APP_CMD" ELSE got
         IN  /\ host' = [host EXCEPT !.int = Left("CMD_DONE", r)]
             /\ sd' = taken
             /\ AfterCommand(res)
    /\ UNCHANGED <<card, mbr, dropped, faults>>

-----------------------------------------------------------------------------
(* The other steps of sdInit.                                               *)

\* GPIO, the version of the controller, the base clock.
Start ==
    /\ stage = "start" /\ GoTo("reset")
    /\ UNCHANGED <<old, tries, sd, host, card, mbr, dropped, faults>>

\* sdResetCard, up to the clock: the controller forgets everything, or does not
\* come back from the reset.
Reset ==
    /\ stage = "reset"
    /\ host' = [host EXCEPT !.clock = 0, !.width = 1, !.inhibit = FALSE, !.int = {},
                            !.pending = "none", !.data = "none"]
    /\ \/ GoTo("setup") /\ UNCHANGED <<old, tries>>
       \/ SdInitFails
    /\ UNCHANGED <<sd, card, mbr, dropped, faults>>

\* sdSetClock: the clock is off while the divider changes.
SetClock(freq, next) ==
    \/ /\ host' \in {host, [host EXCEPT !.clock = 0]} /\ SdInitFails
    \/ /\ ~host.inhibit /\ host.data = "none"
       /\ host' = [host EXCEPT !.clock = Frequency(Divider(host.ver, freq))]
       /\ GoTo(next) /\ UNCHANGED <<old, tries>>
\* The rest of sdResetCard up to GO_IDLE_STATE.
SetupClock ==
    /\ stage = "setup" /\ SetClock(FREQ_SETUP, "idle")
    /\ sd' = IF stage' = "idle" THEN [sd EXCEPT !.rca = FALSE, !.ocr = NoAnswer, !.app = FALSE,
                                             !.type = "none"]
             ELSE sd
    /\ UNCHANGED <<card, mbr, dropped, faults>>
\* A card whose voltage is refused fails; otherwise its type is set.
Voltage ==
    /\ stage = "voltage"
    /\ \/ /\ sd' = [sd EXCEPT !.type = IF old THEN "1" ELSE IF sd.ocr.ccs THEN "2_HC"
                                       ELSE "2_SC"]
          /\ GoTo("cid") /\ UNCHANGED <<old, tries>>
       \/ SdInitFails /\ UNCHANGED sd
    /\ UNCHANGED <<host, card, mbr, dropped, faults>>
\* The file format of the CSD is one that is supported, or not.
Format ==
    /\ stage = "format"
    /\ \/ GoTo("clock") /\ UNCHANGED <<old, tries>>
       \/ SdInitFails
    /\ UNCHANGED <<sd, host, card, mbr, dropped, faults>>
NormalClock ==
    /\ stage = "clock" /\ SetClock(FREQ_NORMAL, "select")
    /\ UNCHANGED <<sd, card, mbr, dropped, faults>>

\* sdReadSCR around its command: wait for the data lines, then for the data, and
\* read it.  Nothing waits for DATA_DONE.
WaitData ==
    /\ stage = "waitdata"
    /\ \/ host.data = "none" /\ "ERROR" \notin host.int /\ GoTo("scr") /\ UNCHANGED <<old, tries>>
       \/ SdInitFails
    /\ UNCHANGED <<sd, host, card, mbr, dropped, faults>>
ReadScr ==
    /\ stage = "readscr"
    /\ \E r \in Results("READ_RDY") :
         \/ /\ r = "OK"
            /\ host' = [host EXCEPT !.int = Left("READ_RDY", r), !.data = "read"]
            /\ sd' = [sd EXCEPT !.bus4 = card.bus4]
            /\ GoTo(IF card.bus4 THEN "width" ELSE "blocklen") /\ UNCHANGED <<old, tries>>
         \/ /\ host' = [host EXCEPT !.int = Left("READ_RDY", r)] /\ SdInitFails /\ UNCHANGED sd
    /\ UNCHANGED <<card, mbr, dropped, faults>>
SetWidth ==
    /\ stage = "dwidth" /\ GoTo("blocklen")
    /\ host' = [host EXCEPT !.width = 4]
    /\ UNCHANGED <<old, tries, sd, card, mbr, dropped, faults>>
Finish ==
    /\ stage = "finish" /\ GoTo("assert")
    /\ sd' = [sd EXCEPT !.init = TRUE]
    /\ UNCHANGED <<old, tries, host, card, mbr, dropped, faults>>

-----------------------------------------------------------------------------
(* sd_init after sdInit: sd_start of the MBR and the polling for its data.  *)

\* The assertion of sd_start: no interrupt is set.
StartMbr ==
    /\ stage = "assert" /\ GoTo(IF host.int = {} THEN "mbr" ELSE "panic")
    /\ UNCHANGED <<old, tries, sd, host, card, mbr, dropped, faults>>

\* The results of the two waits are dropped.  (The mutant waits for the end of
\* the transfer.)
MbrMaskDone == "DATA_DONE"
MbrMask == "READ_RDY"
MbrWait ==
    /\ stage = "mbrwait" /\ GoTo("mbrdone")
    /\ \E r \in Results(MbrMask) :
         /\ host' = [host EXCEPT !.int = Left(MbrMask, r),
                                 !.data = IF @ = "ready" THEN "read" ELSE @]
         /\ dropped' = (r # "OK")
         /\ mbr' = IF host.data = "ready" THEN "good" ELSE "garbage"
    /\ UNCHANGED <<old, tries, sd, card, faults>>
MbrDone ==
    /\ stage = "mbrdone" /\ GoTo("up")
    /\ \E r \in Results("DATA_DONE") : host' = [host EXCEPT !.int = Left("DATA_DONE", r)]
    /\ UNCHANGED <<old, tries, sd, card, mbr, dropped, faults>>

Driver ==
    \/ Start \/ Reset \/ SetupClock \/ Voltage \/ Format \/ NormalClock
    \/ Busy \/ SendApp \/ Send \/ AppDone \/ CommandDone
    \/ WaitData \/ ReadScr \/ SetWidth \/ Finish
    \/ StartMbr \/ MbrWait \/ MbrDone

BootNext == Driver \/ CardAnswers \/ CardSilent \/ DataArrives \/ DataEnds

\* The driver runs alone at boot, and every wait of it is bounded.
BootSpec == BootInit /\ [][BootNext]_bootVars /\ WF_bootVars(Driver)

-----------------------------------------------------------------------------
(* Properties.                                                              *)

\* An answer is never taken for the answer to another command, however late it
\* is: while sdSendCommandP waits for its command, INT_CMD_DONE means that the
\* response registers hold the answer to that command, whatever has timed out
\* before and was retried or followed by another command.
AnswersOwn ==
    step \in {"sent", "appsent"} /\ "CMD_DONE" \in host.int => host.fresh

\* When sdInit sets sdCard.init the two sides agree, on every path there, with a
\* card taken for an old one included: the card is selected, both use the same bus
\* width, sd_start will address the card as its capacity demands, and the card has
\* a clock that is not too fast for it, for both formulas of sdGetClockDivider.
InitAgrees ==
    sd.init => /\ card.state = "tran" /\ host.width = card.width
               /\ 0 < host.clock /\ host.clock <= FREQ_NORMAL
               /\ (sd.type = "2_HC") = card.hc

\* The partition table that sd_init takes lba2 from is the card's, unless sdInit
\* failed or a wait did, whose results it drops.
MbrTrusted == stage = "up" /\ sd.init /\ ~dropped => mbr = "good"

\* sd_init ends, whatever the card and the controller do, or do not do: every
\* polling loop and the retries of ACMD41 are bounded.
SdInitReturns == <>(stage \in {"up", "panic"})
=============================================================================
