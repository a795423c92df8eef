-------------------------- MODULE PrintSpoolProof ---------------------------
(***************************************************************************)
(* Proofs about PrintSpool, for any number of clients, jobs, blocks and    *)
(* crashes: the inductive invariant, that each of its parts is preserved,  *)
(* and what follows - the spool keeps the jobs clients were sent numbers   *)
(* of, what is printed is what was stored, once, and the job list keeps    *)
(* its order.                                                              *)
(***************************************************************************)
EXTENDS PrintSpool, TLAPS

(* Threads that have a job number and have not yet given the job away.     *)
Busy == {"data", "store", "control", "request", "respond", "add"}

(* Sending, or waiting for the answer.                                     *)
Sending == {"send", "status", "hung"}

(* The jobs in the list.                                                   *)
Queue == {jobs[k] : k \in 1 .. Len(jobs)}

(* Everything that carries a number - a file in the spool directory, a     *)
(* control file, a job in the list or in hand, an open file - belongs to a *)
(* request that was given this number.                                     *)
Numbers == /\ \A i \in Ids : data[i] # None => jobid[data[i]] = i
           /\ \A i \in Ids : reqs[i] \in Clients => jobid[reqs[i]] = i
           /\ \A job \in Queue : jobid[job[2]] = job[1]
           /\ jp # None => jobid[jp[2]] = jp[1]
           /\ file # None => jp # None /\ jobid[file] = jp[1]
           /\ \A c \in Clients : fd[c] # None => jobid[c] # 0 /\ jobid[fd[c]] = jobid[c]

(* A file that has a name or is open has been created.                     *)
Created == /\ \A i \in Ids : data[i] # None => text[data[i]] # None
           /\ file # None => text[file] # None
           /\ \A c \in Clients : fd[c] # None => text[fd[c]] # None

(* Where the client threads and the daemon are.                            *)
Threads == /\ \A c \in Clients : /\ pc[c] = "new" => jobid[c] = 0
                                 /\ pc[c] \in {"new", "data"} => blocks[c] = 0 /\ text[c] = None
                                 /\ pc[c] \in Busy => daemon = "up" /\ jobid[c] # 0
                                 /\ pc[c] = "store" => fd[c] # None
           /\ \A c \in acked : pc[c] \in {"add", "done", "failed"} /\ jobid[c] # 0
           /\ todo # {} => daemon = "build"
           /\ daemon # "down" => nextjob # 0
           /\ daemon = "down" => Queue = {} /\ ppc = "wait"

(* Where the printer thread is.                                            *)
Printer == /\ ppc = "wait" <=> jp = None
           /\ ppc \in Sending \cup {"unlink"} <=> file # None
           /\ ppc \in {"status", "hung"} <=> sent # None
           /\ ppc \in {"unlink", "unlink2"} => Printed(jp[2])

(* What build_qonstart has still to read is there, and not in the list.    *)
Unread == \A i \in todo : /\ reqs[i] # None
                          /\ jp # None => jp[1] # i
                          /\ \A job \in Queue : job[1] # i

(* A request is neither queued nor printed before its thread has given it  *)
(* to the printer thread or died.                                          *)
NotYet == \A c \in Clients : pc[c] \in {"new"} \cup Busy =>
             /\ ~Printed(c)
             /\ \A job \in Queue : job[2] # c
             /\ jp # None => jp[2] # c

(* The file a request created holds its text, and so does what is sent.    *)
Contents == /\ \A c \in Clients : jobid[c] # 0 /\ text[c] # None => Reissued(c) \/ text[c] = Stored(c)
            /\ sent # None => Reissued(jp[2]) \/ sent = Stored(jp[2])

(* The files of a request are there while its thread builds them, and from *)
(* the answer to the client until it is printed.                           *)
Kept == \A c \in Clients :
           /\ pc[c] \in {"store", "control", "request"} => Reissued(c) \/ data[jobid[c]] = c
           /\ pc[c] = "respond" \/ c \in acked =>
                 \/ Reissued(c)
                 \/ Printed(c)
                 \/ reqs[jobid[c]] = c /\ data[jobid[c]] = c

(* Only a request that has a number is printed.                            *)
PrintedNumbered == \A c \in Clients : Printed(c) => jobid[c] # 0

(* Once printed, the data file goes before the job can be sent again.      *)
Gone == /\ \A c \in Clients : Printed(c) =>
             \/ Reissued(c)
             \/ c \in unsure
             \/ jobid[c] # 0 /\ data[jobid[c]] = None
             \/ ppc = "unlink" /\ jp[2] = c
        /\ ppc \in Sending => \/ Reissued(jp[2])
                              \/ jp[2] \in unsure
                              \/ ~Printed(jp[2])

(* Which steps write a variable.                                           *)
Writes == /\ daemon' = daemon \/ init_request \/ StartAccepting \/ Crash
          /\ \/ data' = data
             \/ UnlinkData
             \/ \E i \in Ids : QueueOnStart(i)
             \/ \E c \in Clients : CreateData(c) \/ StoreFails(c) \/ ControlFails(c)
          /\ \/ reqs' = reqs
             \/ UnlinkControl
             \/ \E i \in Ids : QueueOnStart(i)
             \/ \E c \in Clients : CreateControl(c) \/ WriteControl(c) \/ ControlFails(c)
          /\ text' = text \/ \E c \in Clients : CreateData(c) \/ StoreBlock(c)
          /\ \/ nextjob' = nextjob
             \/ init_request \/ Crash
             \/ \E c \in Clients : get_newjobno(c)
          /\ \/ jobs' = jobs
             \/ PickUp \/ Defer \/ Crash
             \/ \E i \in Ids : QueueOnStart(i)
             \/ \E c \in Clients : NotifyPrinter(c)
          /\ \/ todo' = todo
             \/ init_request \/ Crash
             \/ \E i \in Ids : QueueOnStart(i) \/ SkipOnStart(i)
          /\ \/ pc' = pc
             \/ Crash
             \/ \E c \in Clients : HeaderFails(c) \/ get_newjobno(c) \/ CreateFails(c) \/
                    CreateData(c) \/ StoreFails(c) \/ TextEnds(c) \/ CreateControl(c) \/
                    WriteControl(c) \/ ControlFails(c) \/ Respond(c) \/ NotifyPrinter(c)
          /\ jobid' = jobid \/ \E c \in Clients : get_newjobno(c)
          /\ fd' = fd \/ Crash \/ \E c \in Clients : CreateData(c)
          /\ blocks' = blocks \/ \E c \in Clients : StoreBlock(c)
          /\ acked' = acked \/ \E c \in Clients : Respond(c)
          /\ \/ ppc' = ppc
             \/ PickUp \/ ReadJobno \/ update_jobno \/ OpenData \/ OpenFails \/ Send \/ Defer
                    \/ Confirmed \/ StatusHangs \/ UnlinkData \/ UnlinkControl \/ Crash
          /\ jp' = jp \/ PickUp \/ OpenFails \/ Defer \/ UnlinkControl \/ Crash
          /\ file' = file \/ OpenData \/ Defer \/ UnlinkData \/ Crash
          /\ sent' = sent \/ Send \/ Defer \/ Confirmed \/ Crash
          /\ printed' = printed \/ Confirmed
          /\ unsure' = unsure \/ Crash
          /\ \/ added' = added
             \/ Crash
             \/ \E i \in Ids : QueueOnStart(i)
             \/ \E c \in Clients : NotifyPrinter(c)
          /\ finished' = finished \/ OpenFails \/ UnlinkControl \/ Crash

SpoolInv == /\ TypeOK
            /\ Numbers
            /\ Created
            /\ Threads
            /\ Printer
            /\ Unread
            /\ NotYet
            /\ Contents
            /\ Kept
            /\ PrintedNumbered
            /\ PrintedIntact
            /\ Gone
            /\ PrintedOnce
            /\ InOrder

----------------------------------------------------------------------------
(* Writes holds of every step.                                             *)
LEMMA Writers == ASSUME [Next]_vars
                 PROVE  Writes
<1>1. CASE UNCHANGED vars
  BY <1>1, Zenon DEF Writes, vars, diskVars, clientVars, printerVars, histVars
<1>2. CASE init_request
  BY <1>2, Zenon DEF Writes, init_request, diskVars, clientVars, printerVars, histVars
<1>3. CASE StartAccepting
  BY <1>3, Zenon DEF Writes, StartAccepting, diskVars, clientVars, printerVars, histVars
<1>4. ASSUME NEW i \in Ids, QueueOnStart(i) PROVE Writes
  BY <1>4, Zenon DEF Writes, QueueOnStart, clientVars, printerVars
<1>5. ASSUME NEW i \in Ids, SkipOnStart(i) PROVE Writes
  BY <1>5, Zenon DEF Writes, SkipOnStart, diskVars, clientVars, printerVars
<1>6. ASSUME NEW c \in Clients, HeaderFails(c) PROVE Writes
  BY <1>6, Zenon DEF Writes, HeaderFails, diskVars, printerVars, histVars
<1>7. ASSUME NEW c \in Clients, get_newjobno(c) PROVE Writes
  BY <1>7, Zenon DEF Writes, get_newjobno, diskVars, printerVars, histVars
<1>8. ASSUME NEW c \in Clients, CreateFails(c) PROVE Writes
  BY <1>8, Zenon DEF Writes, CreateFails, diskVars, printerVars, histVars
<1>9. ASSUME NEW c \in Clients, CreateData(c) PROVE Writes
  BY <1>9, Zenon DEF Writes, CreateData, printerVars, histVars
<1>10. ASSUME NEW c \in Clients, StoreBlock(c) PROVE Writes
  BY <1>10, Zenon DEF Writes, StoreBlock, printerVars, histVars
<1>11. ASSUME NEW c \in Clients, StoreFails(c) PROVE Writes
  BY <1>11, Zenon DEF Writes, StoreFails, printerVars, histVars
<1>12. ASSUME NEW c \in Clients, TextEnds(c) PROVE Writes
  BY <1>12, Zenon DEF Writes, TextEnds, diskVars, printerVars, histVars
<1>13. ASSUME NEW c \in Clients, CreateControl(c) PROVE Writes
  BY <1>13, Zenon DEF Writes, CreateControl, printerVars, histVars
<1>14. ASSUME NEW c \in Clients, WriteControl(c) PROVE Writes
  BY <1>14, Zenon DEF Writes, WriteControl, printerVars, histVars
<1>15. ASSUME NEW c \in Clients, ControlFails(c) PROVE Writes
  BY <1>15, Zenon DEF Writes, ControlFails, printerVars, histVars
<1>16. ASSUME NEW c \in Clients, Respond(c) PROVE Writes
  BY <1>16, Zenon DEF Writes, Respond, diskVars, printerVars, histVars
<1>17. ASSUME NEW c \in Clients, NotifyPrinter(c) PROVE Writes
  BY <1>17, Zenon DEF Writes, NotifyPrinter, diskVars, printerVars
<1>18. CASE PickUp
  BY <1>18, Zenon DEF Writes, PickUp, diskVars, clientVars, histVars
<1>19. CASE ReadJobno
  BY <1>19, Zenon DEF Writes, ReadJobno, diskVars, clientVars, histVars
<1>20. CASE update_jobno
  BY <1>20, Zenon DEF Writes, update_jobno, clientVars, histVars
<1>21. CASE OpenData
  BY <1>21, Zenon DEF Writes, OpenData, diskVars, clientVars, histVars
<1>22. CASE OpenFails
  BY <1>22, Zenon DEF Writes, OpenFails, diskVars, clientVars
<1>23. CASE Send
  BY <1>23, Zenon DEF Writes, Send, diskVars, clientVars, histVars
<1>24. CASE Defer
  BY <1>24, Zenon DEF Writes, Defer, diskVars, clientVars, histVars
<1>25. CASE Confirmed
  BY <1>25, Zenon DEF Writes, Confirmed, diskVars, clientVars
<1>26. CASE StatusHangs
  BY <1>26, Zenon DEF Writes, StatusHangs, diskVars, clientVars, histVars
<1>27. CASE UnlinkData
  BY <1>27, Zenon DEF Writes, UnlinkData, clientVars, histVars
<1>28. CASE UnlinkControl
  BY <1>28, Zenon DEF Writes, UnlinkControl, clientVars
<1>29. CASE Crash
  BY <1>29, Zenon DEF Writes, Crash, diskVars
<1> QED
  BY <1>1, <1>2, <1>3, <1>4, <1>5, <1>6, <1>7, <1>8, <1>9, <1>10, <1>11, <1>12, <1>13, <1>14,
     <1>15, <1>16, <1>17, <1>18, <1>19, <1>20, <1>21, <1>22, <1>23, <1>24, <1>25, <1>26, <1>27,
     <1>28, <1>29, Zenon DEF Next, Startup, ClientThread, Proceed, PrinterStep

(* Every variable keeps its type (all actions).                            *)
LEMMA TypeStep == ASSUME TypeOK, Threads, Printer, Unread, Numbers, [Next]_vars
                  PROVE  TypeOK'
<1>a. /\ 0 \in 0 .. MaxJob + 1
      /\ 1 \in 0 .. MaxJob + 1
      /\ Ids \subseteq 0 .. MaxJob + 1
      /\ 0 \notin Ids
      /\ 0 \in 0 .. Blocks
      /\ crashes < MaxCrashes => crashes + 1 \in 0 .. MaxCrashes
  BY SpoolAssumption DEF Ids, TypeOK
<1>b. /\ << >> \in Seq(Jobs)
      /\ \A job \in Jobs : /\ Append(jobs, job) \in Seq(Jobs)
                           /\ Append(added, job) \in Seq(Jobs)
                           /\ Append(finished, job) \in Seq(Jobs)
                           /\ <<job>> \o jobs \in Seq(Jobs)
                           /\ job[1] \in Ids
                           /\ job[2] \in Clients
      /\ \A i \in Ids, c \in Clients : <<i, c>> \in Jobs
      /\ jobs # << >> => Head(jobs) \in Jobs /\ Tail(jobs) \in Seq(Jobs)
  BY SMTT(20) DEF TypeOK, Jobs
<1>c. /\ \A c \in Clients, t \in Texts : Append(printed, <<c, t>>) \in Seq(Clients \X Texts)
      /\ \A c \in Clients, b \in 0 .. Blocks : <<c, b>> \in Texts
  BY SMTT(20) DEF TypeOK, Texts
<1> USE <1>a DEF TypeOK
<1>1. CASE UNCHANGED vars
  BY <1>1, Zenon DEF vars, diskVars, clientVars, printerVars, histVars
<1>2. CASE init_request
  BY <1>2, Zenon DEF init_request, diskVars, clientVars, printerVars, histVars
<1>3. CASE StartAccepting
  BY <1>3, Zenon DEF StartAccepting, diskVars, clientVars, printerVars, histVars
<1>4. ASSUME NEW i \in Ids, QueueOnStart(i) PROVE TypeOK'
  <2>1. CASE reqs[i] = Short
    BY <1>4, <2>1, ZenonT(30) DEF QueueOnStart, Unlink, clientVars, printerVars
  <2>2. CASE reqs[i] # Short
    <3>1. reqs[i] \in Clients
      BY <1>4, <2>2, Zenon DEF QueueOnStart, Unread
    <3>2. /\ Append(jobs, <<i, reqs[i]>>) \in Seq(Jobs)
          /\ Append(added, <<i, reqs[i]>>) \in Seq(Jobs)
      BY <1>b, <3>1, Zenon
    <3> QED
      BY <1>4, <2>2, <3>2, Zenon DEF QueueOnStart, add_job, clientVars, printerVars
  <2> QED
    BY <2>1, <2>2, Zenon
<1>5. ASSUME NEW i \in Ids, SkipOnStart(i) PROVE TypeOK'
  BY <1>5, SMTT(20) DEF SkipOnStart, Unread, diskVars, clientVars, printerVars
<1>6. ASSUME NEW c \in Clients, HeaderFails(c) PROVE TypeOK'
  BY <1>6, Zenon DEF HeaderFails, At, Goto, diskVars, printerVars, histVars
<1>7. ASSUME NEW c \in Clients, get_newjobno(c) PROVE TypeOK'
  <2>1. nextjob \in Ids /\ nextjob + 1 \in 0 .. MaxJob + 1
    BY <1>7, SpoolAssumption DEF get_newjobno, Threads, Ids
  <2> QED
    BY <1>7, <2>1, Zenon DEF get_newjobno, At, Goto, diskVars, printerVars, histVars
<1>8. ASSUME NEW c \in Clients, CreateFails(c) PROVE TypeOK'
  BY <1>8, Zenon DEF CreateFails, At, Goto, diskVars, printerVars, histVars
<1>9. ASSUME NEW c \in Clients, CreateData(c) PROVE TypeOK'
  BY <1>9, <1>c, SMTT(20) DEF CreateData, At, Goto, Creat, Threads, Busy, printerVars, histVars
<1>10. ASSUME NEW c \in Clients, StoreBlock(c) PROVE TypeOK'
  <2>1. blocks[c] + 1 \in 0 .. Blocks
    BY <1>10, SpoolAssumption, SMTT(20) DEF StoreBlock
  <2>2. fd[c] \in Clients
    BY <1>10, Zenon DEF StoreBlock, At, Threads
  <2> QED
    BY <1>10, <1>c, <2>1, <2>2, Zenon DEF StoreBlock, At, printerVars, histVars
<1>11. ASSUME NEW c \in Clients, StoreFails(c) PROVE TypeOK'
  BY <1>11, Zenon DEF StoreFails, At, Goto, Unlink, printerVars, histVars
<1>12. ASSUME NEW c \in Clients, TextEnds(c) PROVE TypeOK'
  BY <1>12, Zenon DEF TextEnds, At, Goto, diskVars, printerVars, histVars
<1>13. ASSUME NEW c \in Clients, CreateControl(c) PROVE TypeOK'
  BY <1>13, Zenon DEF CreateControl, At, Goto, Creat, printerVars, histVars
<1>14. ASSUME NEW c \in Clients, WriteControl(c) PROVE TypeOK'
  BY <1>14, Zenon DEF WriteControl, At, Goto, Creat, printerVars, histVars
<1>15. ASSUME NEW c \in Clients, ControlFails(c) PROVE TypeOK'
  BY <1>15, ZenonT(30) DEF ControlFails, At, Goto, Unlink, printerVars, histVars
<1>16. ASSUME NEW c \in Clients, Respond(c) PROVE TypeOK'
  BY <1>16, Zenon DEF Respond, At, Goto, diskVars, printerVars, histVars
<1>17. ASSUME NEW c \in Clients, NotifyPrinter(c) PROVE TypeOK'
  BY <1>17, <1>b, Zenon DEF NotifyPrinter, At, Goto, add_job, Threads, Busy, diskVars, printerVars
<1>18. CASE PickUp
  BY <1>18, <1>b, Zenon DEF PickUp, PrinterAt, diskVars, clientVars, histVars
<1>19. CASE ReadJobno
  BY <1>19, Zenon DEF ReadJobno, PrinterAt, diskVars, clientVars, histVars
<1>20. CASE update_jobno
  BY <1>20, Zenon DEF update_jobno, PrinterAt, clientVars, histVars
<1>21. CASE OpenData
  BY <1>21, <1>b, Zenon DEF OpenData, PrinterAt, Printer, diskVars, clientVars, histVars
<1>22. CASE OpenFails
  BY <1>22, <1>b, ZenonT(30) DEF OpenFails, PrinterAt, Printer, diskVars, clientVars
<1>23. CASE Send
  BY <1>23, Zenon DEF Send, PrinterAt, Created, Printer, Sending, diskVars, clientVars, histVars
<1>24. CASE Defer
  BY <1>24, <1>b, Zenon DEF Defer, PrinterAt, replace_job, Printer, Sending, diskVars, clientVars, histVars
<1>25. CASE Confirmed
  BY <1>25, <1>b, <1>c, Zenon DEF Confirmed, PrinterAt, Printer, diskVars, clientVars
<1>26. CASE StatusHangs
  BY <1>26, Zenon DEF StatusHangs, PrinterAt, diskVars, clientVars, histVars
<1>27. CASE UnlinkData
  BY <1>27, Zenon DEF UnlinkData, PrinterAt, Unlink, clientVars, histVars
<1>28. CASE UnlinkControl
  BY <1>28, <1>b, Zenon DEF UnlinkControl, PrinterAt, Unlink, Printer, clientVars
<1>29. CASE Crash
  BY <1>29, <1>b, ZenonT(30) DEF Crash, Printer, diskVars
<1> HIDE DEF TypeOK
<1> QED
  BY <1>1, <1>2, <1>3, <1>4, <1>5, <1>6, <1>7, <1>8, <1>9, <1>10, <1>11, <1>12, <1>13, <1>14,
     <1>15, <1>16, <1>17, <1>18, <1>19, <1>20, <1>21, <1>22, <1>23, <1>24, <1>25, <1>26, <1>27,
     <1>28, <1>29, Zenon DEF Next, Startup, ClientThread, Proceed, PrinterStep

(* A job number once given stays, and so does the fact that it was given   *)
(* out again.                                                              *)
LEMMA NumberStays == ASSUME TypeOK, Threads, [Next]_vars, NEW c \in Clients, jobid[c] # 0
                     PROVE  /\ jobid'[c] = jobid[c]
                            /\ Reissued(c) => Reissued(c)'
<1>1. \/ jobid' = jobid
      \/ \E d \in Clients : jobid[d] = 0 /\ jobid' = [jobid EXCEPT ![d] = nextjob]
  BY Writers, Zenon DEF Writes, get_newjobno, Threads, At
<1> QED
  BY <1>1, Zenon DEF Reissued, TypeOK

(* What is printed: what was, and what the printer confirms.               *)
LEMMA PrintedGrows ==
    ASSUME TypeOK
    PROVE  /\ printed' = printed => \A c \in Clients : Printed(c)' <=> Printed(c)
           /\ Confirmed => \A c \in Clients : Printed(c)' <=> Printed(c) \/ c = jp[2]
<1>1. ASSUME Confirmed, NEW c \in Clients PROVE Printed(c)' <=> Printed(c) \/ c = jp[2]
  <2> DEFINE e == <<jp[2], sent>>
  <2>1. printed' = Append(printed, e) /\ e[1] = jp[2] /\ printed \in Seq(Clients \X Texts)
    BY <1>1, Zenon DEF Confirmed, TypeOK
  <2> HIDE DEF e
  <2>2. /\ Len(printed') = Len(printed) + 1
        /\ \A k \in 1 .. Len(printed) : printed'[k] = printed[k]
        /\ printed'[Len(printed) + 1] = e
        /\ Len(printed) \in Nat
    BY <2>1
  <2> QED
    BY <2>1, <2>2 DEF Printed
<1> QED
  BY <1>1, Zenon DEF Printed

(* What the list operations do to the jobs in the list.                    *)
LEMMA QueueStep ==
    ASSUME TypeOK
    PROVE  /\ Queue \subseteq Jobs
           /\ jobs' = jobs => Queue' = Queue
           /\ jobs' = << >> => Queue' = {}
           /\ \A job \in Jobs : add_job(job) \/ replace_job(job) => Queue' = Queue \cup {job}
           /\ jobs # << >> => Head(jobs) \in Queue
           /\ jobs # << >> /\ jobs' = Tail(jobs) => Queue' \subseteq Queue
<1>1. jobs \in Seq(Jobs) /\ Len(jobs) \in Nat
  BY DEF TypeOK
<1>2. Queue \subseteq Jobs
  BY <1>1 DEF Queue
<1>3. ASSUME NEW job \in Jobs, jobs' = Append(jobs, job) PROVE Queue' = Queue \cup {job}
  <2>1. /\ Len(jobs') = Len(jobs) + 1
        /\ jobs'[Len(jobs) + 1] = job
        /\ \A k \in 1 .. Len(jobs) : jobs'[k] = jobs[k]
    BY <1>1, <1>3
  <2> QED
    BY <1>1, <2>1 DEF Queue
<1>4. ASSUME NEW job \in Jobs, jobs' = <<job>> \o jobs PROVE Queue' = Queue \cup {job}
  <2>1. /\ Len(jobs') = Len(jobs) + 1
        /\ jobs'[1] = job
        /\ \A k \in 1 .. Len(jobs) : jobs'[k + 1] = jobs[k]
    BY <1>1, <1>4
  <2>2. \A x : x \in Queue' => x \in Queue \cup {job}
    <3> SUFFICES ASSUME NEW k \in 1 .. Len(jobs') PROVE jobs'[k] \in Queue \cup {job}
      BY Zenon DEF Queue
    <3>1. CASE k = 1
      BY <2>1, <3>1, Zenon
    <3>2. CASE k # 1
      <4>1. k - 1 \in 1 .. Len(jobs) /\ (k - 1) + 1 = k
        BY <1>1, <2>1, <3>2
      <4> QED
        BY <2>1, <4>1, ZenonT(30) DEF Queue
    <3> QED
      BY <3>1, <3>2, Zenon
  <2>3. \A k \in 1 .. Len(jobs) : k + 1 \in 1 .. Len(jobs')
    BY <1>1, <2>1
  <2>4. 1 \in 1 .. Len(jobs')
    BY <1>1, <2>1
  <2>5. job \in Queue'
    BY <2>1, <2>4, Zenon DEF Queue
  <2>6. ASSUME NEW k \in 1 .. Len(jobs) PROVE jobs[k] \in Queue'
    BY <2>1, <2>3, Zenon DEF Queue
  <2>7. Queue \subseteq Queue'
    BY <2>6, Zenon DEF Queue
  <2> QED
    BY <2>2, <2>5, <2>7, Zenon
<1>5. ASSUME jobs # << >> PROVE Head(jobs) \in Queue
  BY <1>1, <1>5 DEF Queue
<1>6. ASSUME jobs # << >>, jobs' = Tail(jobs) PROVE Queue' \subseteq Queue
  <2>1. /\ Len(jobs') = Len(jobs) - 1
        /\ \A k \in 1 .. Len(jobs) - 1 : jobs'[k] = jobs[k + 1]
    BY <1>1, <1>6
  <2> QED
    BY <1>1, <2>1 DEF Queue
<1>7. jobs' = << >> => Queue' = {}
  BY DEF Queue
<1> QED
  BY <1>2, <1>3, <1>4, <1>5, <1>6, <1>7, Zenon DEF Queue, add_job, replace_job

(* The types of the variables that are not sequences.                      *)
LEMMA Types == ASSUME TypeOK
               PROVE  /\ data \in [Ids -> Clients \cup {None}]
                      /\ reqs \in [Ids -> Clients \cup {Short, None}]
                      /\ text \in [Clients -> Texts \cup {None}]
                      /\ jobid \in [Clients -> Ids \cup {0}]
                      /\ pc \in [Clients -> {"new", "done", "failed"} \cup Busy]
                      /\ blocks \in [Clients -> 0 .. Blocks]
                      /\ fd \in [Clients -> Clients \cup {None}]
                      /\ jp \in Jobs \cup {None}
                      /\ file \in Clients \cup {None}
                      /\ todo \subseteq Ids
                      /\ acked \subseteq Clients
                      /\ 0 \notin Ids
                      /\ \A i \in Ids, c \in Clients : <<i, c>> \in Jobs /\ <<i, c>>[1] = i /\ <<i, c>>[2] = c
                      /\ \A job \in Jobs : job[1] \in Ids /\ job[2] \in Clients
                      /\ \A c \in Clients, b \in 0 .. Blocks : <<c, b>> \in Texts
<1>1. 0 \notin Ids
  BY SpoolAssumption DEF Ids
<1>2. /\ \A i \in Ids, c \in Clients : <<i, c>> \in Jobs /\ <<i, c>>[1] = i /\ <<i, c>>[2] = c
      /\ \A job \in Jobs : job[1] \in Ids /\ job[2] \in Clients
      /\ \A c \in Clients, b \in 0 .. Blocks : <<c, b>> \in Texts
  BY Zenon DEF Jobs, Texts
<1>3. pc \in [Clients -> {"new", "done", "failed"} \cup Busy]
  BY Zenon DEF TypeOK, Busy
<1> QED
  BY <1>1, <1>2, <1>3, Zenon DEF TypeOK

(* The files a number stands for, and who has it.                          *)
LEMMA FileTypes == ASSUME TypeOK
                   PROVE  /\ data \in [Ids -> Clients \cup {None}]
                          /\ reqs \in [Ids -> Clients \cup {Short, None}]
                          /\ jobid \in [Clients -> Ids \cup {0}]
                          /\ pc \in [Clients -> {"new", "done", "failed"} \cup Busy]
                          /\ acked \subseteq Clients
                          /\ 0 \notin Ids
  BY Types, Zenon

(* The two ways into the list, from a client thread and at the start.      *)
LEMMA Queued == ASSUME TypeOK, Threads, Unread
                PROVE  /\ \A c \in Clients : NotifyPrinter(c) =>
                             /\ <<jobid[c], c>> \in Jobs
                             /\ Queue' = Queue \cup {<<jobid[c], c>>}
                       /\ \A i \in Ids : QueueOnStart(i) =>
                             \/ /\ reqs[i] = Short
                                /\ Queue' = Queue
                             \/ /\ reqs[i] \in Clients
                                /\ <<i, reqs[i]>> \in Jobs
                                /\ Queue' = Queue \cup {<<i, reqs[i]>>}
<1>1. ASSUME NEW c \in Clients, NotifyPrinter(c)
      PROVE  <<jobid[c], c>> \in Jobs /\ Queue' = Queue \cup {<<jobid[c], c>>}
  <2>1. <<jobid[c], c>> \in Jobs
    BY <1>1, Types DEF NotifyPrinter, At, Threads, Busy
  <2> QED
    BY <1>1, <2>1, QueueStep, Zenon DEF NotifyPrinter
<1>2. ASSUME NEW i \in Ids, QueueOnStart(i), reqs[i] = Short
      PROVE  Queue' = Queue
  BY <1>2, QueueStep, Zenon DEF QueueOnStart
<1>3. ASSUME NEW i \in Ids, QueueOnStart(i), reqs[i] # Short
      PROVE  /\ reqs[i] \in Clients
             /\ <<i, reqs[i]>> \in Jobs
             /\ Queue' = Queue \cup {<<i, reqs[i]>>}
  <2>1. reqs[i] \in Clients /\ <<i, reqs[i]>> \in Jobs
    BY <1>3, Types DEF QueueOnStart, Unread
  <2> QED
    BY <1>3, <2>1, QueueStep, Zenon DEF QueueOnStart
<1> QED
  BY <1>1, <1>2, <1>3, Zenon

(* Numbers is preserved: a file, a control file or a job gets its number   *)
(* from the request it is made for.                                        *)
LEMMA NumbersStep == ASSUME TypeOK, Numbers, Threads, Printer, Unread, [Next]_vars
                     PROVE  Numbers'
<1> USE SpoolAssumption
<1>1. CASE UNCHANGED <<data, reqs, jobs, jp, file, fd, jobid>>
  BY <1>1, QueueStep, Zenon DEF Numbers
<1>2. ASSUME NEW i \in Ids, QueueOnStart(i) PROVE Numbers'
  BY <1>2, Types, Queued, SMTT(20) DEF Numbers, QueueOnStart, Unlink, clientVars, printerVars
<1>3. ASSUME NEW c \in Clients, get_newjobno(c) PROVE Numbers'
  <2>1. jobid[c] = 0 /\ jobid' = [jobid EXCEPT ![c] = nextjob]
    BY <1>3, Zenon DEF get_newjobno, At, Threads
  <2>2. \A d \in Clients : jobid[d] # 0 => jobid'[d] = jobid[d]
    BY <2>1, Types
  <2>3. UNCHANGED <<data, reqs, jp, file, fd>> /\ Queue' = Queue
    BY <1>3, QueueStep, Zenon DEF get_newjobno, diskVars, printerVars
  <2>4. \A job \in Queue : job[1] \in Ids /\ job[2] \in Clients
    BY Types, QueueStep, Zenon
  <2>5. \A d \in Clients : fd[d] # None => d # c /\ fd[d] # c
    BY <2>1, Zenon DEF Numbers
  <2> QED
    BY <2>2, <2>3, <2>4, <2>5, Types DEF Numbers
<1>4. ASSUME NEW c \in Clients, CreateData(c) PROVE Numbers'
  BY <1>4, Types, QueueStep, SMTT(20) DEF Numbers, CreateData, At, Threads, Busy, Creat, printerVars, histVars
<1>5. ASSUME NEW c \in Clients, StoreFails(c) PROVE Numbers'
  BY <1>5, Types, QueueStep, SMTT(20) DEF Numbers, StoreFails, Unlink, printerVars, histVars
<1>6. ASSUME NEW c \in Clients, CreateControl(c) PROVE Numbers'
  BY <1>6, Types, QueueStep, SMTT(20) DEF Numbers, CreateControl, Creat, printerVars, histVars
<1>7. ASSUME NEW c \in Clients, WriteControl(c) PROVE Numbers'
  BY <1>7, Types, QueueStep, SMTT(20) DEF Numbers, WriteControl, Creat, printerVars, histVars
<1>8. ASSUME NEW c \in Clients, ControlFails(c) PROVE Numbers'
  <2>1. \A i \in Ids : /\ reqs'[i] = reqs[i] \/ reqs'[i] = None
                       /\ data'[i] = data[i] \/ data'[i] = None
    BY <1>8, Types DEF ControlFails, Unlink
  <2>2. UNCHANGED <<jobs, jp, file, fd, jobid>>
    BY <1>8, Zenon DEF ControlFails, printerVars
  <2> QED
    BY Types, QueueStep, <2>1, <2>2, SMTT(20) DEF Numbers
<1>9. ASSUME NEW c \in Clients, NotifyPrinter(c) PROVE Numbers'
  BY <1>9, Types, Queued DEF Numbers, NotifyPrinter, diskVars, printerVars
<1>10. CASE PickUp
  BY <1>10, Types, QueueStep, Zenon
     DEF Numbers, PickUp, PrinterAt, Printer, Sending, diskVars, clientVars, histVars
<1>11. CASE OpenData
  BY <1>11, Types, QueueStep, Zenon
     DEF Numbers, OpenData, PrinterAt, Printer, diskVars, clientVars, histVars
<1>12. CASE OpenFails
  BY <1>12, Types, QueueStep, Zenon
     DEF Numbers, OpenFails, PrinterAt, Printer, Sending, diskVars, clientVars
<1>13. CASE Defer
  BY <1>13, Types, QueueStep, SMTT(20)
     DEF Numbers, Defer, PrinterAt, Printer, Sending, diskVars, clientVars, histVars
<1>14. CASE UnlinkData
  BY <1>14, Types, QueueStep, SMTT(20) DEF Numbers, UnlinkData, Unlink, clientVars, histVars
<1>15. CASE UnlinkControl
  BY <1>15, Types, QueueStep
     DEF Numbers, UnlinkControl, Unlink, PrinterAt, Printer, Sending, clientVars
<1>16. CASE Crash
  BY <1>16, Types, QueueStep, Zenon DEF Numbers, Crash, diskVars
<1> QED
  BY <1>1, <1>2, <1>3, <1>4, <1>5, <1>6, <1>7, <1>8, <1>9, <1>10, <1>11, <1>12, <1>13, <1>14,
     <1>15, <1>16, Writers, Zenon DEF Writes

(* Created is preserved: creat writes an empty file, text never goes away. *)
LEMMA CreatedStep == ASSUME TypeOK, Created, Threads, Printer, [Next]_vars
                     PROVE  Created'
<1> USE SpoolAssumption
<1>1. CASE UNCHANGED <<data, text, file, fd>>
  BY <1>1, Zenon DEF Created
<1>2. ASSUME NEW i \in Ids, QueueOnStart(i) PROVE Created'
  BY <1>2, Types, SMTT(20) DEF Created, QueueOnStart, Unlink, clientVars, printerVars
<1>3. ASSUME NEW c \in Clients, CreateData(c) PROVE Created'
  BY <1>3, Types, SMTT(20) DEF Created, CreateData, At, Threads, Busy, Creat, printerVars, histVars
<1>4. ASSUME NEW c \in Clients, StoreBlock(c) PROVE Created'
  BY <1>4, Types, SMTT(20) DEF Created, StoreBlock, At, Threads, printerVars, histVars
<1>5. ASSUME NEW c \in Clients, StoreFails(c) PROVE Created'
  BY <1>5, Types, SMTT(20) DEF Created, StoreFails, Unlink, printerVars, histVars
<1>6. ASSUME NEW c \in Clients, ControlFails(c) PROVE Created'
  BY <1>6, Types DEF Created, ControlFails, Unlink, printerVars, histVars
<1>7. CASE OpenData
  BY <1>7, Types, Zenon DEF Created, OpenData, PrinterAt, Printer, diskVars, clientVars, histVars
<1>8. CASE Defer
  BY <1>8, Types, Zenon DEF Created, Defer, diskVars, clientVars, histVars
<1>9. CASE UnlinkData
  BY <1>9, Types DEF Created, UnlinkData, Unlink, clientVars, histVars
<1>10. CASE Crash
  BY <1>10, Types, Zenon DEF Created, Crash, diskVars
<1> QED
  BY <1>1, <1>2, <1>3, <1>4, <1>5, <1>6, <1>7, <1>8, <1>9, <1>10, Writers, Zenon DEF Writes

----------------------------------------------------------------------------
(* Unread is preserved: while build_qonstart runs no client thread does,   *)
(* and the printer thread only has jobs of entries that were read.         *)
LEMMA UnreadStep == ASSUME TypeOK, Unread, Threads, Printer, Numbers, [Next]_vars
                    PROVE  Unread'
<1> USE SpoolAssumption
<1>1. CASE UNCHANGED <<todo, reqs, jp, jobs>>
  BY <1>1, QueueStep, Zenon DEF Unread
<1>2. CASE init_request
  BY <1>2, Types, QueueStep, Zenon
     DEF Unread, init_request, Threads, Printer, diskVars, clientVars, printerVars, histVars
<1>3. ASSUME NEW i \in Ids, QueueOnStart(i) PROVE Unread'
  BY <1>3, Types, Queued DEF Unread, QueueOnStart, Unlink, clientVars, printerVars
<1>4. ASSUME NEW i \in Ids, SkipOnStart(i) PROVE Unread'
  BY <1>4, Types, QueueStep, Zenon DEF Unread, SkipOnStart, diskVars, clientVars, printerVars
<1>5. ASSUME NEW c \in Clients, CreateControl(c) PROVE Unread'
  BY <1>5, Types, QueueStep, Zenon
     DEF Unread, CreateControl, At, Threads, Busy, Creat, printerVars, histVars
<1>6. ASSUME NEW c \in Clients, WriteControl(c) PROVE Unread'
  BY <1>6, Types, QueueStep, Zenon
     DEF Unread, WriteControl, At, Threads, Busy, Creat, printerVars, histVars
<1>7. ASSUME NEW c \in Clients, ControlFails(c) PROVE Unread'
  BY <1>7, Types, QueueStep, Zenon
     DEF Unread, ControlFails, At, Threads, Busy, Unlink, printerVars, histVars
<1>8. ASSUME NEW c \in Clients, NotifyPrinter(c) PROVE Unread'
  BY <1>8, Types, QueueStep, Zenon DEF Unread, NotifyPrinter, At, Threads, Busy, diskVars, printerVars
<1>9. CASE PickUp
  BY <1>9, Types, QueueStep, Zenon DEF Unread, PickUp, diskVars, clientVars, histVars
<1>10. CASE OpenFails
  BY <1>10, Types, QueueStep, Zenon DEF Unread, OpenFails, diskVars, clientVars
<1>11. CASE Defer
  BY <1>11, Types, QueueStep, SMTT(20)
     DEF Unread, Defer, PrinterAt, Printer, Sending, diskVars, clientVars, histVars
<1>12. CASE UnlinkControl
  BY <1>12, Types, QueueStep DEF Unread, UnlinkControl, PrinterAt, Printer, Unlink, clientVars
<1>13. CASE Crash
  BY <1>13, Types, QueueStep, Zenon DEF Unread, Crash, diskVars
<1> QED
  BY <1>1, <1>2, <1>3, <1>4, <1>5, <1>6, <1>7, <1>8, <1>9, <1>10, <1>11, <1>12, <1>13, Writers, Zenon
     DEF Writes

(* Threads is preserved: a client thread goes through its stages while the *)
(* daemon is up, and nothing of the daemon is left when it has died.       *)
LEMMA ThreadsStep == ASSUME TypeOK, Threads, Printer, Unread, Created, Numbers, [Next]_vars
                     PROVE  Threads'
<1> USE SpoolAssumption
<1>1. CASE UNCHANGED <<pc, jobid, blocks, text, daemon, fd, acked, todo, nextjob, jobs, ppc>>
  BY <1>1, QueueStep, Zenon DEF Threads
<1>2. CASE init_request
  BY <1>2, Types, QueueStep
     DEF Threads, init_request, Busy, Printer, diskVars, clientVars, printerVars, histVars
<1>3. CASE StartAccepting
  BY <1>3, Types, QueueStep, Zenon
     DEF Threads, StartAccepting, Busy, diskVars, clientVars, printerVars, histVars
<1>4. ASSUME NEW i \in Ids, QueueOnStart(i) PROVE Threads'
  BY <1>4, Types, Queued, Zenon DEF Threads, QueueOnStart, Busy, clientVars, printerVars
<1>5. ASSUME NEW i \in Ids, SkipOnStart(i) PROVE Threads'
  BY <1>5, Types, QueueStep, Zenon DEF Threads, SkipOnStart, Busy, diskVars, clientVars, printerVars
<1>6. ASSUME NEW c \in Clients, HeaderFails(c) PROVE Threads'
  BY <1>6, Types, QueueStep, SMTT(20)
     DEF Threads, HeaderFails, At, Goto, Busy, diskVars, printerVars, histVars
<1>7. ASSUME NEW c \in Clients, get_newjobno(c) PROVE Threads'
  <2>1. nextjob \in Ids /\ nextjob + 1 # 0
    BY <1>7, SMTT(20) DEF get_newjobno, Threads, TypeOK, Ids
  <2> QED
    BY <1>7, <2>1, Types, QueueStep, SMTT(20)
       DEF Threads, get_newjobno, At, Goto, Busy, diskVars, printerVars, histVars
<1>8. ASSUME NEW c \in Clients, CreateFails(c) PROVE Threads'
  BY <1>8, Types, QueueStep, SMTT(20)
     DEF Threads, CreateFails, At, Goto, Busy, diskVars, printerVars, histVars
<1>9. ASSUME NEW c \in Clients, CreateData(c) PROVE Threads'
  <2> DEFINE f == IF data[jobid[c]] = None THEN c ELSE data[jobid[c]]
  <2>1. jobid[c] \in Ids
    BY <1>9, Types, SMTT(20) DEF CreateData, At, Threads, Busy
  <2>2. f \in Clients /\ (f = c \/ text[f] # None)
    BY <2>1, Types DEF Created
  <2>3. text' = [text EXCEPT ![f] = <<c, 0>>] /\ fd' = [fd EXCEPT ![c] = f]
    BY <1>9, Zenon DEF CreateData
  <2> HIDE DEF f
  <2> QED
    BY <1>9, <2>2, <2>3, Types, QueueStep, SMTT(20)
       DEF Threads, CreateData, At, Goto, Busy, printerVars, histVars
<1>10. ASSUME NEW c \in Clients, StoreBlock(c) PROVE Threads'
  <2>1. fd[c] \in Clients /\ text[fd[c]] # None
    BY <1>10, Types, SMTT(20) DEF StoreBlock, At, Threads, Created
  <2> QED
    BY <1>10, <2>1, Types, QueueStep, SMTT(20) DEF Threads, StoreBlock, At, Busy, printerVars, histVars
<1>11. ASSUME NEW c \in Clients, StoreFails(c) PROVE Threads'
  BY <1>11, Types, QueueStep, SMTT(20) DEF Threads, StoreFails, At, Goto, Busy, printerVars, histVars
<1>12. ASSUME NEW c \in Clients, TextEnds(c) PROVE Threads'
  BY <1>12, Types, QueueStep, SMTT(20) DEF Threads, TextEnds, At, Goto, Busy, diskVars, printerVars, histVars
<1>13. ASSUME NEW c \in Clients, CreateControl(c) PROVE Threads'
  BY <1>13, Types, QueueStep, SMTT(20) DEF Threads, CreateControl, At, Goto, Busy, printerVars, histVars
<1>14. ASSUME NEW c \in Clients, WriteControl(c) PROVE Threads'
  BY <1>14, Types, QueueStep, SMTT(20) DEF Threads, WriteControl, At, Goto, Busy, printerVars, histVars
<1>15. ASSUME NEW c \in Clients, ControlFails(c) PROVE Threads'
  BY <1>15, Types, QueueStep, SMTT(20) DEF Threads, ControlFails, At, Goto, Busy, printerVars, histVars
<1>16. ASSUME NEW c \in Clients, Respond(c) PROVE Threads'
  BY <1>16, Types, QueueStep, SMTT(20) DEF Threads, Respond, At, Goto, Busy, diskVars, printerVars, histVars
<1>17. ASSUME NEW c \in Clients, NotifyPrinter(c) PROVE Threads'
  BY <1>17, Types, QueueStep DEF Threads, NotifyPrinter, At, Goto, Busy, diskVars, printerVars
<1>18. CASE PickUp
  BY <1>18, Types, QueueStep, Zenon DEF Threads, PickUp, PrinterAt, Busy, diskVars, clientVars, histVars
<1>19. CASE ReadJobno
  BY <1>19, Types, QueueStep, Zenon DEF Threads, ReadJobno, PrinterAt, Busy, diskVars, clientVars, histVars
<1>20. CASE update_jobno
  BY <1>20, Types, QueueStep, Zenon DEF Threads, update_jobno, PrinterAt, Busy, clientVars, histVars
<1>21. CASE OpenData
  BY <1>21, Types, QueueStep, Zenon DEF Threads, OpenData, PrinterAt, Busy, diskVars, clientVars, histVars
<1>22. CASE OpenFails
  BY <1>22, Types, QueueStep, Zenon DEF Threads, OpenFails, PrinterAt, Busy, diskVars, clientVars
<1>23. CASE Send
  BY <1>23, Types, QueueStep, Zenon DEF Threads, Send, PrinterAt, Busy, diskVars, clientVars, histVars
<1>24. CASE Defer
  BY <1>24, Types, QueueStep, Zenon DEF Threads, Defer, PrinterAt, Busy, diskVars, clientVars, histVars
<1>25. CASE Confirmed
  BY <1>25, Types, QueueStep, Zenon DEF Threads, Confirmed, PrinterAt, Busy, diskVars, clientVars
<1>26. CASE StatusHangs
  BY <1>26, Types, QueueStep, Zenon
     DEF Threads, StatusHangs, PrinterAt, Busy, diskVars, clientVars, histVars
<1>27. CASE UnlinkData
  BY <1>27, Types, QueueStep, Zenon DEF Threads, UnlinkData, PrinterAt, Busy, clientVars, histVars
<1>28. CASE UnlinkControl
  BY <1>28, Types, QueueStep, Zenon DEF Threads, UnlinkControl, PrinterAt, Busy, clientVars
<1>29. CASE Crash
  BY <1>29, Types, QueueStep, Zenon DEF Threads, Crash, Busy, diskVars
<1> QED
  BY <1>1, <1>2, <1>3, <1>4, <1>5, <1>6, <1>7, <1>8, <1>9, <1>10, <1>11, <1>12, <1>13, <1>14,
     <1>15, <1>16, <1>17, <1>18, <1>19, <1>20, <1>21, <1>22, <1>23, <1>24, <1>25, <1>26, <1>27,
     <1>28, <1>29, Writers, Zenon DEF Writes

(* Printer is preserved by the printer thread, alone in changing it, and   *)
(* by the end of the daemon.                                               *)
LEMMA PrinterStepKept == ASSUME TypeOK, Printer, Created, Threads, [Next]_vars
                         PROVE  Printer'
<1> USE SpoolAssumption
<1>1. CASE UNCHANGED <<ppc, jp, file, sent, printed>>
  BY <1>1, PrintedGrows, Types, Zenon DEF Printer
<1>2. CASE PickUp
  <2>1. jp' \in Jobs /\ ppc = "wait" /\ ppc' = "jobno" /\ UNCHANGED <<file, sent>>
    BY <1>2, QueueStep, Zenon DEF PickUp, PrinterAt
  <2> QED
    BY <2>1, Zenon DEF Printer, Sending
<1>3. CASE ReadJobno
  BY <1>3, Types, PrintedGrows, QueueStep, Zenon
     DEF Printer, ReadJobno, PrinterAt, Sending, Created, diskVars, clientVars, histVars
<1>4. CASE update_jobno
  BY <1>4, Types, PrintedGrows, QueueStep, Zenon
     DEF Printer, update_jobno, PrinterAt, Sending, Created, clientVars, histVars
<1>5. CASE OpenData
  BY <1>5, Types, PrintedGrows, QueueStep, Zenon
     DEF Printer, OpenData, PrinterAt, Sending, Created, diskVars, clientVars, histVars
<1>6. CASE OpenFails
  BY <1>6, Types, PrintedGrows, QueueStep, Zenon
     DEF Printer, OpenFails, PrinterAt, Sending, Created, diskVars, clientVars
<1>7. CASE Send
  BY <1>7, Types, PrintedGrows, QueueStep, Zenon
     DEF Printer, Send, PrinterAt, Sending, Created, diskVars, clientVars, histVars
<1>8. CASE Defer
  BY <1>8, Types, PrintedGrows, QueueStep, Zenon
     DEF Printer, Defer, PrinterAt, Sending, Created, diskVars, clientVars, histVars
<1>9. CASE Confirmed
  BY <1>9, Types, PrintedGrows, QueueStep, Zenon
     DEF Printer, Confirmed, PrinterAt, Sending, Created, diskVars, clientVars
<1>10. CASE StatusHangs
  BY <1>10, Types, PrintedGrows, QueueStep, Zenon
     DEF Printer, StatusHangs, PrinterAt, Sending, Created, diskVars, clientVars, histVars
<1>11. CASE UnlinkData
  BY <1>11, Types, PrintedGrows, QueueStep, Zenon
     DEF Printer, UnlinkData, PrinterAt, Sending, Created, clientVars, histVars
<1>12. CASE UnlinkControl
  BY <1>12, Types, PrintedGrows, QueueStep, Zenon
     DEF Printer, UnlinkControl, PrinterAt, Sending, Created, clientVars
<1>13. CASE Crash
  BY <1>13, Types, QueueStep, Zenon DEF Printer, Crash, Sending, diskVars
<1> QED
  BY <1>1, <1>2, <1>3, <1>4, <1>5, <1>6, <1>7, <1>8, <1>9, <1>10, <1>11, <1>12, <1>13, Writers, Zenon
     DEF Writes

(* A step of one thread that was under way leaves the others where they    *)
(* are, and NotYet holds if nothing is queued, taken or printed.           *)
LEMMA NotYetMove ==
  ASSUME TypeOK, NotYet, UNCHANGED <<jobs, jp, printed>>,
         NEW c \in Clients, NEW there, pc[c] \in {"new"} \cup Busy, pc' = [pc EXCEPT ![c] = there]
  PROVE  NotYet'
<1>1. \A d \in Clients : pc'[d] \in {"new"} \cup Busy => pc[d] \in {"new"} \cup Busy
  BY Types
<1> QED
  BY <1>1, QueueStep, PrintedGrows, Zenon DEF NotYet

(* NotYet is preserved: a request that build_qonstart queues has a number, *)
(* so its thread has begun, and no thread is under way at that time.       *)
LEMMA NotYetStep == ASSUME TypeOK, NotYet, Threads, Printer, Unread, Numbers, [Next]_vars
                    PROVE  NotYet'
<1> USE SpoolAssumption
<1>1. CASE UNCHANGED <<pc, printed, jobs, jp>>
  BY <1>1, QueueStep, PrintedGrows, Zenon DEF NotYet
<1>2. ASSUME NEW i \in Ids, QueueOnStart(i) PROVE NotYet'
  <2>1. UNCHANGED <<pc, jp, printed>>
    BY <1>2, Zenon DEF QueueOnStart, clientVars, printerVars
  <2>2. \A c \in Clients : pc[c] \notin Busy
    BY <1>2, Zenon DEF QueueOnStart, Threads
  <2>3. \A c \in Clients : pc[c] = "new" => jobid[c] = 0
    BY Zenon DEF Threads
  <2>4. \/ Queue' = Queue
        \/ /\ Queue' = Queue \cup {<<i, reqs[i]>>}
           /\ jobid[<<i, reqs[i]>>[2]] # 0
    <3>1. CASE reqs[i] = Short
      BY <1>2, <3>1, QueueStep, Zenon DEF QueueOnStart
    <3>2. CASE reqs[i] # Short
      <4>1. reqs[i] \in Clients /\ Queue' = Queue \cup {<<i, reqs[i]>>}
        BY <1>2, <3>2, Queued, Zenon
      <4>2. jobid[reqs[i]] # 0
        BY <4>1, FileTypes DEF Numbers
      <4> QED
        BY <4>1, <4>2, Zenon
    <3> QED
      BY <3>1, <3>2, Zenon
  <2>5. ASSUME NEW c \in Clients, pc'[c] \in {"new"} \cup Busy
        PROVE  pc[c] = "new" /\ jobid[c] = 0
    BY <2>1, <2>2, <2>3, <2>5, Zenon
  <2>6. ASSUME NEW c \in Clients, pc'[c] \in {"new"} \cup Busy
        PROVE  \A job \in Queue' : job[2] # c
    BY <2>1, <2>4, <2>5, <2>6, Zenon DEF NotYet
  <2> QED
    BY <2>1, <2>6, PrintedGrows, Zenon DEF NotYet
<1>3. ASSUME NEW c \in Clients, HeaderFails(c) PROVE NotYet'
  <2>1. pc[c] \in {"new"} \cup Busy
    BY <1>3, Zenon DEF HeaderFails, At, Busy
  <2> QED
    BY <1>3, <2>1, NotYetMove, Zenon DEF HeaderFails, Goto, diskVars, printerVars, histVars
<1>4. ASSUME NEW c \in Clients, get_newjobno(c) PROVE NotYet'
  <2>1. pc[c] \in {"new"} \cup Busy
    BY <1>4, Zenon DEF get_newjobno, At, Busy
  <2> QED
    BY <1>4, <2>1, NotYetMove, Zenon DEF get_newjobno, Goto, diskVars, printerVars, histVars
<1>5. ASSUME NEW c \in Clients, CreateFails(c) PROVE NotYet'
  <2>1. pc[c] \in {"new"} \cup Busy
    BY <1>5, Zenon DEF CreateFails, At, Busy
  <2> QED
    BY <1>5, <2>1, NotYetMove, Zenon DEF CreateFails, Goto, diskVars, printerVars, histVars
<1>6. ASSUME NEW c \in Clients, CreateData(c) PROVE NotYet'
  <2>1. pc[c] \in {"new"} \cup Busy
    BY <1>6, Zenon DEF CreateData, At, Busy
  <2> QED
    BY <1>6, <2>1, NotYetMove, Zenon DEF CreateData, Goto, printerVars, histVars
<1>7. ASSUME NEW c \in Clients, StoreFails(c) PROVE NotYet'
  <2>1. pc[c] \in {"new"} \cup Busy
    BY <1>7, Zenon DEF StoreFails, At, Busy
  <2> QED
    BY <1>7, <2>1, NotYetMove, Zenon DEF StoreFails, Goto, printerVars, histVars
<1>8. ASSUME NEW c \in Clients, TextEnds(c) PROVE NotYet'
  <2>1. pc[c] \in {"new"} \cup Busy
    BY <1>8, Zenon DEF TextEnds, At, Busy
  <2> QED
    BY <1>8, <2>1, NotYetMove, Zenon DEF TextEnds, Goto, diskVars, printerVars, histVars
<1>9. ASSUME NEW c \in Clients, CreateControl(c) PROVE NotYet'
  <2>1. pc[c] \in {"new"} \cup Busy
    BY <1>9, Zenon DEF CreateControl, At, Busy
  <2> QED
    BY <1>9, <2>1, NotYetMove, Zenon DEF CreateControl, Goto, printerVars, histVars
<1>10. ASSUME NEW c \in Clients, WriteControl(c) PROVE NotYet'
  <2>1. pc[c] \in {"new"} \cup Busy
    BY <1>10, Zenon DEF WriteControl, At, Busy
  <2> QED
    BY <1>10, <2>1, NotYetMove, Zenon DEF WriteControl, Goto, printerVars, histVars
<1>11. ASSUME NEW c \in Clients, ControlFails(c) PROVE NotYet'
  <2>1. pc[c] \in {"new"} \cup Busy
    BY <1>11, Zenon DEF ControlFails, At, Busy
  <2> QED
    BY <1>11, <2>1, NotYetMove, Zenon DEF ControlFails, Goto, printerVars, histVars
<1>12. ASSUME NEW c \in Clients, Respond(c) PROVE NotYet'
  <2>1. pc[c] \in {"new"} \cup Busy
    BY <1>12, Zenon DEF Respond, At, Busy
  <2> QED
    BY <1>12, <2>1, NotYetMove, Zenon DEF Respond, Goto, diskVars, printerVars, histVars
<1>13. ASSUME NEW c \in Clients, NotifyPrinter(c) PROVE NotYet'
  <2> DEFINE job == <<jobid[c], c>>
  <2>a. job[2] = c
    OBVIOUS
  <2>1. Queue' = Queue \cup {job}
    BY <1>13, Queued, Zenon
  <2> HIDE DEF job
  <2>2. pc' = [pc EXCEPT ![c] = "done"] /\ UNCHANGED <<jp, printed>>
    BY <1>13, Zenon DEF NotifyPrinter, Goto, printerVars
  <2> QED
    BY <2>a, <2>1, <2>2, Types, PrintedGrows, SMTT(20) DEF NotYet, Busy
<1>14. CASE PickUp
  BY <1>14, Types, QueueStep, PrintedGrows, Zenon
     DEF NotYet, PickUp, PrinterAt, Printer, diskVars, clientVars, histVars
<1>15. CASE OpenFails
  BY <1>15, Types, QueueStep, PrintedGrows, Zenon
     DEF NotYet, OpenFails, PrinterAt, Printer, diskVars, clientVars
<1>16. CASE Defer
  <2>1. UNCHANGED <<pc, printed>> /\ jp' = None /\ jp # None /\ replace_job(jp)
    BY <1>16, Zenon DEF Defer, PrinterAt, Printer, clientVars, histVars
  <2>2. Queue' = Queue \cup {jp}
    BY <2>1, Types, QueueStep, Zenon
  <2> QED
    BY <2>1, <2>2, PrintedGrows, Zenon DEF NotYet
<1>17. CASE Confirmed
  BY <1>17, Types, QueueStep, PrintedGrows, Zenon
     DEF NotYet, Confirmed, PrinterAt, Printer, diskVars, clientVars
<1>18. CASE UnlinkControl
  BY <1>18, Types, QueueStep, PrintedGrows, Zenon DEF NotYet, UnlinkControl, PrinterAt, Printer, clientVars
<1>19. CASE Crash
  BY <1>19, Types, QueueStep, PrintedGrows, SMTT(20) DEF NotYet, Crash, Printer, diskVars
<1> QED
  BY <1>1, <1>2, <1>3, <1>4, <1>5, <1>6, <1>7, <1>8, <1>9, <1>10, <1>11, <1>12, <1>13, <1>14,
     <1>15, <1>16, <1>17, <1>18, <1>19, Writers, Zenon DEF Writes

(* Contents is preserved: only the thread of a request writes to the file  *)
(* of its number, as long as the number is its own, and what is sent is    *)
(* what is in that file.                                                   *)
LEMMA ContentsStep == ASSUME TypeOK, Contents, Threads, Printer, Created, Numbers, NotYet, [Next]_vars
                      PROVE  Contents'
<1> USE SpoolAssumption
<1>1. CASE UNCHANGED <<text, jobid, blocks, sent, jp>>
  BY <1>1, Zenon DEF Contents, Reissued, Stored
<1>2. ASSUME NEW c \in Clients, get_newjobno(c) PROVE Contents'
  <2>1. text[c] = None /\ jobid[c] = 0 /\ jobid' = [jobid EXCEPT ![c] = nextjob]
    BY <1>2, Zenon DEF get_newjobno, At, Threads
  <2>2. UNCHANGED <<text, blocks, sent, jp>>
    BY <1>2, Zenon DEF get_newjobno, diskVars, printerVars
  <2>3. sent # None => jp[2] \in Clients /\ jobid[jp[2]] # 0
    BY Types DEF Printer, Numbers
  <2>4. \A d \in Clients : Stored(d)' = Stored(d)
    BY <2>2, Zenon DEF Stored
  <2> QED
    BY <2>1, <2>2, <2>3, <2>4, Types, NumberStays, SMTT(20) DEF Contents
<1>3. ASSUME NEW c \in Clients, CreateData(c) PROVE Contents'
  BY <1>3, Types, NumberStays, SMTT(20)
     DEF Contents, Reissued, Stored, CreateData, At, Threads, Busy, Created, Numbers,
         printerVars, histVars
<1>4. ASSUME NEW c \in Clients, StoreBlock(c) PROVE Contents'
  BY <1>4, Types, NumberStays, SMTT(20)
     DEF Contents, Reissued, Stored, StoreBlock, At, Threads, Numbers, NotYet, Busy, Printer,
         printerVars, histVars
<1>5. CASE PickUp
  BY <1>5, Types, NumberStays, Zenon
     DEF Contents, Reissued, Stored, PickUp, PrinterAt, Printer, Sending, Numbers, Created,
         diskVars, clientVars, histVars
<1>6. CASE OpenFails
  BY <1>6, Types, NumberStays, Zenon
     DEF Contents, Reissued, Stored, OpenFails, PrinterAt, Printer, Sending, Numbers, Created,
         diskVars, clientVars
<1>7. CASE Send
  BY <1>7, Types, NumberStays, SMTT(20)
     DEF Contents, Reissued, Stored, Send, PrinterAt, Printer, Sending, Numbers, Created,
         diskVars, clientVars, histVars
<1>8. CASE Defer
  BY <1>8, Types, NumberStays, Zenon
     DEF Contents, Reissued, Stored, Defer, PrinterAt, Printer, Sending, Numbers, Created,
         diskVars, clientVars, histVars
<1>9. CASE Confirmed
  BY <1>9, Types, NumberStays, Zenon
     DEF Contents, Reissued, Stored, Confirmed, PrinterAt, Printer, Sending, Numbers, Created,
         diskVars, clientVars
<1>10. CASE UnlinkControl
  BY <1>10, Types, NumberStays, Zenon
     DEF Contents, Reissued, Stored, UnlinkControl, PrinterAt, Printer, Sending, Numbers,
         Created, clientVars
<1>11. CASE Crash
  BY <1>11, Types, NumberStays, Zenon
     DEF Contents, Reissued, Stored, Crash, Printer, Sending, Numbers, Created, diskVars
<1> QED
  BY <1>1, <1>2, <1>3, <1>4, <1>5, <1>6, <1>7, <1>8, <1>9, <1>10, <1>11, Writers, Zenon DEF Writes

-----------------------------------------------------------------------------

(* Only a request that has a number is printed.                            *)
LEMMA PrintedNumberedStep == ASSUME TypeOK, PrintedNumbered, Threads, Printer, Numbers, [Next]_vars
                             PROVE  PrintedNumbered'
<1>1. printed' = printed \/ Confirmed
  BY Writers, Zenon DEF Writes
<1>2. Confirmed => jp[2] \in Clients /\ jobid[jp[2]] # 0
  BY Types DEF Confirmed, PrinterAt, Printer, Numbers
<1> QED
  BY <1>1, <1>2, PrintedGrows, NumberStays, Zenon DEF PrintedNumbered

(* Who shares a number changes only with the numbers.                      *)
LEMMA Shared == /\ jobid' = jobid => \A c \in Clients : Reissued(c)' <=> Reissued(c)
                /\ \A c, d \in Clients : c # d /\ jobid[c] = jobid[d] => Reissued(c)
  BY Zenon DEF Reissued

(* The entries of printed are of printed clients.                          *)
LEMMA PrintedClients == ASSUME TypeOK
                        PROVE  \A k \in 1 .. Len(printed) : /\ printed[k][1] \in Clients
                                                            /\ Printed(printed[k][1])
<1>1. printed \in Seq(Clients \X Texts)
  BY Zenon DEF TypeOK
<1>2. \A k \in 1 .. Len(printed) : printed[k] \in Clients \X Texts
  BY <1>1
<1> QED
  BY <1>2, Zenon DEF Printed

(* A step that gives out no number and prints nothing leaves both as they  *)
(* are.                                                                    *)
LEMMA Steady == ASSUME TypeOK, UNCHANGED <<jobid, printed>>
                PROVE  \A c \in Clients : /\ Reissued(c)' <=> Reissued(c)
                                          /\ Printed(c)' <=> Printed(c)
  BY Shared, PrintedGrows, Zenon

(* A thread that touches the files of its own number only harms no request *)
(* whose number is its own; Kept holds if the thread keeps it for itself.  *)
LEMMA KeptMove ==
  ASSUME TypeOK, Kept, Threads, UNCHANGED <<jobid, printed>>,
         NEW c \in Clients, NEW there, pc' = [pc EXCEPT ![c] = there],
         acked' \subseteq acked \cup {c},
         \A i \in Ids : i # jobid[c] => data'[i] = data[i] /\ reqs'[i] = reqs[i],
         there \in {"store", "control", "request"} => Reissued(c) \/ data'[jobid[c]] = c,
         there = "respond" \/ c \in acked' =>
            Reissued(c) \/ Printed(c) \/ (reqs'[jobid[c]] = c /\ data'[jobid[c]] = c)
  PROVE  Kept'
<1>1. /\ pc'[c] = there
      /\ \A d \in Clients : d # c => pc'[d] = pc[d]
  BY FileTypes, Zenon
<1>2. \A d \in Clients : pc[d] \in Busy \/ d \in acked => jobid[d] \in Ids
  BY FileTypes, Zenon DEF Threads
<1>3. \A d \in Clients : d # c => Reissued(d) \/ jobid[d] # jobid[c]
  BY Shared, Zenon
<1>4. \A d \in Clients : pc[d] \in {"store", "control", "request", "respond"} => pc[d] \in Busy
  BY Zenon DEF Busy
<1>5. ASSUME NEW d \in Clients, d # c
      PROVE  /\ pc'[d] \in {"store", "control", "request"} => Reissued(d) \/ data'[jobid[d]] = d
             /\ pc'[d] = "respond" \/ d \in acked' =>
                   \/ Reissued(d)
                   \/ Printed(d)
                   \/ reqs'[jobid[d]] = d /\ data'[jobid[d]] = d
  <2>1. pc[d] \in Busy \/ d \in acked => Reissued(d) \/ (data'[jobid[d]] = data[jobid[d]] /\ reqs'[jobid[d]] = reqs[jobid[d]])
    BY <1>2, <1>3, <1>5, Zenon
  <2> QED
    BY <1>1, <1>4, <1>5, <2>1, Zenon DEF Kept
<1> QED
  BY <1>1, <1>5, Steady, Zenon DEF Kept

(* Kept is preserved: as long as a number is given to one request only, no *)
(* other thread touches its files, and the printer thread unlinks those of *)
(* a printed request.                                                      *)
LEMMA KeptStep == ASSUME TypeOK, Kept, Threads, Printer, Unread, Numbers, NotYet, [Next]_vars
                  PROVE  Kept'
<1> USE SpoolAssumption
<1>1. CASE UNCHANGED <<data, reqs, pc, jobid, acked, printed>>
  BY <1>1, PrintedGrows, Shared, Zenon DEF Kept
<1>2. ASSUME NEW i \in Ids, QueueOnStart(i) PROVE Kept'
  <2>1. /\ UNCHANGED <<pc, jobid, acked, printed>>
        /\ \/ UNCHANGED <<data, reqs>>
           \/ /\ reqs[i] = Short
              /\ data' = [data EXCEPT ![i] = None]
              /\ reqs' = [reqs EXCEPT ![i] = None]
    BY <1>2, Zenon DEF QueueOnStart, Unlink, clientVars
  <2>2. \A c \in Clients : pc[c] \notin Busy
    BY <1>2, Zenon DEF QueueOnStart, Threads
  <2>3. \A c \in Clients : reqs[i] = Short => reqs[i] # c
    BY SpoolAssumption, Zenon
  <2>4. \A c \in acked : jobid[c] \in Ids /\ c \in Clients
    BY FileTypes, Zenon DEF Threads
  <2>5. \A c \in acked : \/ reqs[jobid[c]] # c
                         \/ data'[jobid[c]] = data[jobid[c]] /\ reqs'[jobid[c]] = reqs[jobid[c]]
    <3>1. \A c \in acked : reqs[i] = Short /\ reqs[jobid[c]] = c => jobid[c] # i
      BY <2>3, <2>4, Zenon
    <3>2. \A k \in Ids : k # i \/ reqs[i] # Short => data'[k] = data[k] /\ reqs'[k] = reqs[k]
      BY <2>1, FileTypes, Zenon
    <3> QED
      BY <2>4, <3>1, <3>2, Zenon
  <2> QED
    BY <2>1, <2>2, <2>5, Steady, Zenon DEF Kept, Busy
<1>3. ASSUME NEW c \in Clients, HeaderFails(c) PROVE Kept'
  <2>1. /\ pc[c] = "new"
        /\ pc' = [pc EXCEPT ![c] = "failed"]
        /\ UNCHANGED <<jobid, printed, acked, data, reqs>>
    BY <1>3, Zenon DEF HeaderFails, At, Goto, diskVars, histVars
  <2>2. c \notin acked
    BY <2>1, Zenon DEF Threads
  <2> QED
    BY <2>1, <2>2, KeptMove, Zenon
<1>4. ASSUME NEW c \in Clients, get_newjobno(c) PROVE Kept'
  <2>1. /\ pc[c] = "new"
        /\ pc' = [pc EXCEPT ![c] = "data"]
        /\ UNCHANGED <<printed, acked, data, reqs>>
    BY <1>4, Zenon DEF get_newjobno, At, Goto, diskVars, histVars
  <2>2. c \notin acked
    BY <2>1, Zenon DEF Threads
  <2>3. \A d \in Clients : /\ Printed(d)' <=> Printed(d)
                           /\ pc'[d] = IF d = c THEN "data" ELSE pc[d]
    BY <2>1, FileTypes, PrintedGrows, Zenon
  <2>4. \A d \in Clients : pc[d] \in Busy \/ d \in acked => jobid[d] # 0
    BY Zenon DEF Threads
  <2>5. \A d \in Clients : pc[d] \in {"store", "control", "request", "respond"} => pc[d] \in Busy
    BY Zenon DEF Busy
  <2>6. \A d \in Clients : pc'[d] \in {"store", "control", "request", "respond"} \/ d \in acked' =>
           /\ pc'[d] = pc[d]
           /\ jobid'[d] = jobid[d]
           /\ Reissued(d) => Reissued(d)'
    BY <2>1, <2>2, <2>3, <2>4, <2>5, NumberStays
  <2> QED
    BY <2>1, <2>3, <2>6, Zenon DEF Kept
<1>5. ASSUME NEW c \in Clients, CreateFails(c) PROVE Kept'
  <2>1. /\ pc[c] = "data"
        /\ pc' = [pc EXCEPT ![c] = "failed"]
        /\ UNCHANGED <<jobid, printed, acked, data, reqs>>
    BY <1>5, Zenon DEF CreateFails, At, Goto, diskVars, histVars
  <2>2. c \notin acked
    BY <2>1, Zenon DEF Threads
  <2> QED
    BY <2>1, <2>2, KeptMove, Zenon
<1>6. ASSUME NEW c \in Clients, CreateData(c) PROVE Kept'
  <2>1. /\ pc[c] = "data"
        /\ pc' = [pc EXCEPT ![c] = "store"]
        /\ data' = [data EXCEPT ![jobid[c]] = IF data[jobid[c]] = None THEN c ELSE data[jobid[c]]]
        /\ UNCHANGED <<jobid, printed, acked, reqs>>
    BY <1>6, Zenon DEF CreateData, At, Goto, Creat, histVars
  <2>2. c \notin acked
    BY <2>1, Zenon DEF Threads
  <2>3. jobid[c] \in Ids
    BY <2>1, FileTypes, Zenon DEF Threads, Busy
  <2>4. \A i \in Ids : i # jobid[c] => data'[i] = data[i] /\ reqs'[i] = reqs[i]
    BY <2>1, FileTypes, Zenon
  <2>5. Reissued(c) \/ data'[jobid[c]] = c
    <3>1. CASE data[jobid[c]] = None
      BY <2>1, <2>3, <3>1, FileTypes, Zenon
    <3>2. CASE data[jobid[c]] # None
      <4>1. data[jobid[c]] \in Clients /\ jobid[data[jobid[c]]] = jobid[c]
        BY <2>3, <3>2, FileTypes DEF Numbers
      <4>2. data'[jobid[c]] = data[jobid[c]]
        BY <2>1, <2>3, <3>2, FileTypes, Zenon
      <4> QED
        BY <4>1, <4>2, Shared, Zenon
    <3> QED
      BY <3>1, <3>2, Zenon
  <2> QED
    BY <2>1, <2>2, <2>3, <2>4, <2>5, KeptMove, Zenon
<1>7. ASSUME NEW c \in Clients, StoreFails(c) PROVE Kept'
  <2>1. /\ pc[c] = "store"
        /\ pc' = [pc EXCEPT ![c] = "failed"]
        /\ data' = [data EXCEPT ![jobid[c]] = None]
        /\ UNCHANGED <<jobid, printed, acked, reqs>>
    BY <1>7, Zenon DEF StoreFails, At, Goto, Unlink, histVars
  <2>2. c \notin acked
    BY <2>1, Zenon DEF Threads
  <2>3. \A i \in Ids : i # jobid[c] => data'[i] = data[i] /\ reqs'[i] = reqs[i]
    BY <2>1, FileTypes, Zenon
  <2> QED
    BY <2>1, <2>2, <2>3, KeptMove, Zenon
<1>8. ASSUME NEW c \in Clients, TextEnds(c) PROVE Kept'
  <2>1. /\ pc[c] = "store"
        /\ pc' = [pc EXCEPT ![c] = "control"]
        /\ UNCHANGED <<jobid, printed, acked, data, reqs>>
    BY <1>8, Zenon DEF TextEnds, At, Goto, diskVars, histVars
  <2>2. c \notin acked
    BY <2>1, Zenon DEF Threads
  <2>3. Reissued(c) \/ data[jobid[c]] = c
    BY <2>1, Zenon DEF Kept
  <2> QED
    BY <2>1, <2>2, <2>3, KeptMove, Zenon
<1>9. ASSUME NEW c \in Clients, CreateControl(c) PROVE Kept'
  <2>1. /\ pc[c] = "control"
        /\ pc' = [pc EXCEPT ![c] = "request"]
        /\ reqs' = [reqs EXCEPT ![jobid[c]] = Short]
        /\ UNCHANGED <<jobid, printed, acked, data>>
    BY <1>9, Zenon DEF CreateControl, At, Goto, Creat, histVars
  <2>2. c \notin acked
    BY <2>1, Zenon DEF Threads
  <2>3. Reissued(c) \/ data[jobid[c]] = c
    BY <2>1, Zenon DEF Kept
  <2>4. \A i \in Ids : i # jobid[c] => data'[i] = data[i] /\ reqs'[i] = reqs[i]
    BY <2>1, FileTypes, Zenon
  <2> QED
    BY <2>1, <2>2, <2>3, <2>4, KeptMove, Zenon
<1>10. ASSUME NEW c \in Clients, WriteControl(c) PROVE Kept'
  <2>1. /\ pc[c] = "request"
        /\ pc' = [pc EXCEPT ![c] = "respond"]
        /\ reqs' = [reqs EXCEPT ![jobid[c]] = c]
        /\ UNCHANGED <<jobid, printed, acked, data>>
    BY <1>10, Zenon DEF WriteControl, At, Goto, Creat, histVars
  <2>2. c \notin acked
    BY <2>1, Zenon DEF Threads
  <2>3. Reissued(c) \/ data[jobid[c]] = c
    BY <2>1, Zenon DEF Kept
  <2>4. \A i \in Ids : i # jobid[c] => data'[i] = data[i] /\ reqs'[i] = reqs[i]
    BY <2>1, FileTypes, Zenon
  <2>5. reqs'[jobid[c]] = c
    BY <2>1, FileTypes, Zenon DEF Threads, Busy
  <2> QED
    BY <2>1, <2>2, <2>3, <2>4, <2>5, KeptMove, Zenon
<1>11. ASSUME NEW c \in Clients, ControlFails(c) PROVE Kept'
  <2>1. /\ pc[c] \in {"control", "request"}
        /\ pc' = [pc EXCEPT ![c] = "failed"]
        /\ data' = [data EXCEPT ![jobid[c]] = None]
        /\ reqs' = reqs \/ reqs' = [reqs EXCEPT ![jobid[c]] = None]
        /\ UNCHANGED <<jobid, printed, acked>>
    BY <1>11, Zenon DEF ControlFails, At, Goto, Unlink, histVars
  <2>2. c \notin acked
    BY <2>1, Zenon DEF Threads
  <2>3. \A i \in Ids : i # jobid[c] => data'[i] = data[i] /\ reqs'[i] = reqs[i]
    BY <2>1, FileTypes, Zenon
  <2> QED
    BY <2>1, <2>2, <2>3, KeptMove, Zenon
<1>12. ASSUME NEW c \in Clients, Respond(c) PROVE Kept'
  <2>1. /\ pc[c] = "respond"
        /\ pc' = [pc EXCEPT ![c] = "add"]
        /\ acked' = acked \cup {c}
        /\ UNCHANGED <<jobid, printed, data, reqs>>
    BY <1>12, Zenon DEF Respond, At, Goto, diskVars, histVars
  <2>2. Reissued(c) \/ Printed(c) \/ (reqs[jobid[c]] = c /\ data[jobid[c]] = c)
    BY <2>1, Zenon DEF Kept
  <2> QED
    BY <2>1, <2>2, KeptMove, Zenon
<1>13. ASSUME NEW c \in Clients, NotifyPrinter(c) PROVE Kept'
  <2>1. /\ pc[c] = "add"
        /\ pc' = [pc EXCEPT ![c] = "done"]
        /\ UNCHANGED <<jobid, printed, acked, data, reqs>>
    BY <1>13, Zenon DEF NotifyPrinter, At, Goto, diskVars
  <2>2. c \in acked => Reissued(c) \/ Printed(c) \/ (reqs[jobid[c]] = c /\ data[jobid[c]] = c)
    BY <2>1, Zenon DEF Kept
  <2> QED
    BY <2>1, <2>2, KeptMove, Zenon
<1>14. CASE Confirmed
  BY <1>14, Types, Shared, PrintedGrows, Zenon
     DEF Kept, Confirmed, PrinterAt, Threads, Busy, Numbers, NotYet, Printer,
         diskVars, clientVars
<1>15. CASE UnlinkData \/ UnlinkControl
  <2>1. /\ ppc \in {"unlink", "unlink2"}
        /\ UNCHANGED <<pc, jobid, acked, printed>>
        /\ data' = data \/ data' = [data EXCEPT ![jp[1]] = None]
        /\ reqs' = reqs \/ reqs' = [reqs EXCEPT ![jp[1]] = None]
    BY <1>15, Zenon DEF UnlinkData, UnlinkControl, PrinterAt, Unlink, clientVars, histVars
  <2>2. /\ jp[2] \in Clients
        /\ jobid[jp[2]] = jp[1]
        /\ Printed(jp[2])
    BY <2>1, Types, Zenon DEF Printer, Numbers
  <2>3. pc[jp[2]] \notin Busy
    BY <2>2, Zenon DEF NotYet
  <2>4. \A d \in Clients : d = jp[2] \/ Reissued(d) \/ jobid[d] # jp[1]
    BY <2>2, Shared, Zenon
  <2>5. \A i \in Ids : i # jp[1] => data'[i] = data[i] /\ reqs'[i] = reqs[i]
    BY <2>1, FileTypes, Zenon
  <2>6. \A d \in Clients : pc[d] \in Busy \/ d \in acked => jobid[d] \in Ids
    BY FileTypes, Zenon DEF Threads
  <2>7. \A d \in Clients : pc[d] \in {"store", "control", "request", "respond"} => pc[d] \in Busy
    BY Zenon DEF Busy
  <2>8. \A d \in Clients : pc[d] \in Busy \/ d \in acked =>
           \/ Reissued(d)
           \/ d = jp[2]
           \/ data'[jobid[d]] = data[jobid[d]] /\ reqs'[jobid[d]] = reqs[jobid[d]]
    BY <2>4, <2>5, <2>6, Zenon
  <2> QED
    BY <2>1, <2>2, <2>3, <2>7, <2>8, Steady, Zenon DEF Kept
<1>16. CASE Crash
  BY <1>16, Types, Shared, PrintedGrows, Zenon
     DEF Kept, Crash, Threads, Busy, Numbers, NotYet, Printer, diskVars
<1> QED
  BY <1>1, <1>2, <1>3, <1>4, <1>5, <1>6, <1>7, <1>8, <1>9, <1>10, <1>11, <1>12, <1>13, <1>14,
     <1>15, <1>16, Writers, Zenon DEF Writes

(* What was printed stays intact: nothing more is stored for a request     *)
(* that was printed.                                                       *)
LEMMA PrintedIntactStep == ASSUME TypeOK, PrintedIntact, PrintedNumbered, Contents, Threads, Printer, Numbers, NotYet, [Next]_vars
                           PROVE  PrintedIntact'
<1> USE SpoolAssumption
<1>1. CASE UNCHANGED <<printed, blocks, jobid>>
  BY <1>1, Zenon DEF PrintedIntact, Stored, Reissued
<1>2. ASSUME NEW c \in Clients, get_newjobno(c) PROVE PrintedIntact'
  <2>1. UNCHANGED <<printed, blocks>>
    BY <1>2, Zenon DEF get_newjobno, histVars
  <2> QED
    BY <2>1, PrintedClients, NumberStays, Zenon DEF PrintedIntact, Stored, PrintedNumbered
<1>3. ASSUME NEW c \in Clients, StoreBlock(c) PROVE PrintedIntact'
  <2>1. UNCHANGED <<printed, jobid>> /\ blocks' = [blocks EXCEPT ![c] = @ + 1]
    BY <1>3, Zenon DEF StoreBlock, histVars
  <2>2. ~Printed(c)
    BY <1>3, Zenon DEF StoreBlock, At, NotYet, Busy
  <2>3. \A d \in Clients : d # c => Stored(d)' = Stored(d)
    BY <2>1, Types, Zenon DEF Stored
  <2> QED
    BY <2>1, <2>2, <2>3, PrintedClients, Shared, Zenon DEF PrintedIntact
<1>4. CASE Confirmed
  <2> DEFINE e == <<jp[2], sent>>
             n == Len(printed)
  <2>1. /\ printed' = Append(printed, e)
        /\ e[1] = jp[2]
        /\ e[2] = sent
        /\ printed \in Seq(Clients \X Texts)
    BY <1>4, Zenon DEF Confirmed, TypeOK
  <2> HIDE DEF e
  <2>2. /\ Len(printed') = n + 1
        /\ \A k \in 1 .. n : printed'[k] = printed[k]
        /\ printed'[n + 1] = e
        /\ \A k \in 1 .. n + 1 : k \in 1 .. n \/ k = n + 1
    BY <2>1
  <2>3. UNCHANGED <<jobid, blocks>>
    BY <1>4, Zenon DEF Confirmed, clientVars
  <2>4. jp[2] \in Clients /\ (Reissued(jp[2]) \/ sent = Stored(jp[2]))
    BY <1>4, Types, Zenon DEF Confirmed, PrinterAt, Printer, Contents
  <2>5. \A d \in Clients : Stored(d)' = Stored(d)
    BY <2>3, Zenon DEF Stored
  <2> QED
    <3>1. ASSUME NEW k \in 1 .. n
          PROVE  (printed[k][2] = Stored(printed[k][1]) \/ Reissued(printed[k][1]))'
      <4>1. printed'[k] = printed[k]
        BY <2>2, Zenon
      <4>2. printed[k][2] = Stored(printed[k][1]) \/ Reissued(printed[k][1])
        BY Zenon DEF PrintedIntact
      <4> QED
        BY <2>3, <4>1, <4>2, Zenon DEF Stored, Reissued
    <3>2. ASSUME NEW k, k = n + 1
          PROVE  (printed[k][2] = Stored(printed[k][1]) \/ Reissued(printed[k][1]))'
      <4>1. printed'[k] = e
        BY <2>2, <3>2, Zenon
      <4> QED
        BY <2>1, <2>3, <2>4, <4>1, Zenon DEF Stored, Reissued
    <3> QED
      BY <2>2, <3>1, <3>2, Zenon DEF PrintedIntact
<1> QED
  BY <1>1, <1>2, <1>3, <1>4, Writers, Zenon DEF Writes

(* Files that go do no harm to Gone.                                       *)
LEMMA GoneMove == ASSUME TypeOK, Gone, Printer, UNCHANGED <<printed, jobid, ppc, jp, unsure>>,
                         \A i \in Ids : data'[i] = data[i] \/ data'[i] = None
                  PROVE  Gone'
<1>1. ppc \in Sending => jp[2] \in Clients
  BY Types, Zenon DEF Printer, Sending
<1>2. \A c \in Clients : jobid[c] # 0 /\ data[jobid[c]] = None => data'[jobid[c]] = None
  BY FileTypes, Zenon
<1> QED
  BY <1>1, <1>2, Steady, Zenon DEF Gone

(* Gone is preserved: the printer thread leaves "unlink" without a data    *)
(* file, and only a thread that was given the number creates one again.    *)
LEMMA GoneStep == ASSUME TypeOK, Gone, PrintedNumbered, Threads, Printer, Numbers, NotYet, [Next]_vars
                  PROVE  Gone'
<1> USE SpoolAssumption
<1>1. CASE UNCHANGED <<printed, jobid, data, ppc, jp, unsure>>
  BY <1>1, PrintedGrows, Shared, Types, Zenon DEF Gone, Printer, Sending
<1>2. ASSUME NEW i \in Ids, QueueOnStart(i) PROVE Gone'
  <2>1. UNCHANGED <<printed, jobid, ppc, jp, unsure>>
    BY <1>2, Zenon DEF QueueOnStart, clientVars, printerVars
  <2>2. \A k \in Ids : data'[k] = data[k] \/ data'[k] = None
    BY <1>2, FileTypes, Zenon DEF QueueOnStart, Unlink
  <2> QED
    BY <2>1, <2>2, GoneMove, Zenon
<1>3. ASSUME NEW c \in Clients, get_newjobno(c) PROVE Gone'
  <2>1. UNCHANGED <<printed, data, ppc, jp, unsure>>
    BY <1>3, Zenon DEF get_newjobno, diskVars, printerVars, histVars
  <2>2. \A d \in Clients : jobid[d] # 0 => jobid'[d] = jobid[d] /\ (Reissued(d) => Reissued(d)')
    BY NumberStays, Zenon
  <2>3. ppc \in Sending => jp[2] \in Clients /\ jobid[jp[2]] # 0
    <3>1. ppc \in Sending => jp \in Jobs /\ jobid[jp[2]] = jp[1]
      BY Types, Zenon DEF Printer, Sending, Numbers
    <3> QED
      BY <3>1, Types
  <2>4. \A d \in Clients : Printed(d)' <=> Printed(d)
    BY <2>1, PrintedGrows, Zenon
  <2> QED
    BY <2>1, <2>2, <2>3, <2>4, Zenon DEF Gone, PrintedNumbered
<1>4. ASSUME NEW c \in Clients, CreateData(c) PROVE Gone'
  <2>1. ~Printed(c)
    BY <1>4 DEF CreateData, At, NotYet, Busy
  <2>2. \A i \in Ids : i # jobid[c] => data'[i] = data[i]
    BY <1>4, FileTypes, Zenon DEF CreateData, Creat
  <2>3. UNCHANGED <<jobid, printed, ppc, jp, unsure>>
    BY <1>4, Zenon DEF CreateData, printerVars, histVars
  <2>4. ppc \in Sending => jp[2] \in Clients
    BY Types, Zenon DEF Printer, Sending
  <2>5. \A d \in Clients : \/ d = c
                           \/ Reissued(d)
                           \/ jobid[d] # 0 /\ data[jobid[d]] = None => data'[jobid[d]] = None
    BY <2>2, FileTypes, Shared, Zenon
  <2> QED
    BY <2>1, <2>3, <2>4, <2>5, Steady, Zenon DEF Gone
<1>5. ASSUME NEW c \in Clients, StoreFails(c) PROVE Gone'
  <2>1. UNCHANGED <<printed, jobid, ppc, jp, unsure>>
    BY <1>5, Zenon DEF StoreFails, printerVars, histVars
  <2>2. \A k \in Ids : data'[k] = data[k] \/ data'[k] = None
    BY <1>5, FileTypes, Zenon DEF StoreFails, Unlink
  <2> QED
    BY <2>1, <2>2, GoneMove, Zenon
<1>6. ASSUME NEW c \in Clients, ControlFails(c) PROVE Gone'
  <2>1. UNCHANGED <<printed, jobid, ppc, jp, unsure>>
    BY <1>6, Zenon DEF ControlFails, printerVars, histVars
  <2>2. \A k \in Ids : data'[k] = data[k] \/ data'[k] = None
    BY <1>6, FileTypes, Zenon DEF ControlFails, Unlink
  <2> QED
    BY <2>1, <2>2, GoneMove, Zenon
<1>7. CASE PickUp
  BY <1>7, Types, Shared, PrintedGrows, Zenon
     DEF Gone, Printer, Sending, PickUp, PrinterAt, Numbers, PrintedNumbered,
         diskVars, clientVars, histVars
<1>8. CASE ReadJobno
  BY <1>8, Types, Shared, PrintedGrows, Zenon
     DEF Gone, Printer, Sending, ReadJobno, PrinterAt, Numbers, PrintedNumbered,
         diskVars, clientVars, histVars
<1>9. CASE update_jobno
  BY <1>9, Types, Shared, PrintedGrows, Zenon
     DEF Gone, Printer, Sending, update_jobno, PrinterAt, Numbers, PrintedNumbered,
         clientVars, histVars
<1>10. CASE OpenData
  <2>1. /\ UNCHANGED <<printed, jobid, data, jp, unsure>>
        /\ ppc = "open"
        /\ ppc' = "send"
        /\ data[jp[1]] # None
    BY <1>10, Zenon DEF OpenData, PrinterAt, diskVars, clientVars, histVars
  <2>2. jp[2] \in Clients /\ jobid[jp[2]] = jp[1]
    BY <2>1, Types, Zenon DEF Printer, Numbers
  <2> QED
    BY <2>1, <2>2, Steady, Zenon DEF Gone
<1>11. CASE OpenFails
  BY <1>11, Types, Shared, PrintedGrows, Zenon
     DEF Gone, Printer, Sending, OpenFails, PrinterAt, Numbers, PrintedNumbered,
         diskVars, clientVars
<1>12. CASE Send
  BY <1>12, Types, Shared, PrintedGrows, Zenon
     DEF Gone, Printer, Sending, Send, PrinterAt, Numbers, PrintedNumbered, diskVars,
         clientVars, histVars
<1>13. CASE Defer
  BY <1>13, Types, Shared, PrintedGrows, Zenon
     DEF Gone, Printer, Sending, Defer, PrinterAt, Numbers, PrintedNumbered, diskVars,
         clientVars, histVars
<1>14. CASE Confirmed
  BY <1>14, Types, Shared, PrintedGrows, Zenon
     DEF Gone, Printer, Sending, Confirmed, PrinterAt, Numbers, PrintedNumbered,
         diskVars, clientVars
<1>15. CASE StatusHangs
  BY <1>15, Types, Shared, PrintedGrows, Zenon
     DEF Gone, Printer, Sending, StatusHangs, PrinterAt, Numbers, PrintedNumbered,
         diskVars, clientVars, histVars
<1>16. CASE UnlinkData
  <2>1. /\ UNCHANGED <<printed, jobid, jp, unsure>>
        /\ ppc = "unlink"
        /\ ppc' = "unlink2"
        /\ data' = [data EXCEPT ![jp[1]] = None]
    BY <1>16, Zenon DEF UnlinkData, PrinterAt, Unlink, clientVars, histVars
  <2>2. jp[2] \in Clients /\ jobid[jp[2]] = jp[1] /\ jp[1] \in Ids
    BY <2>1, Types, Zenon DEF Printer, Numbers
  <2>3. \A k \in Ids : data'[k] = data[k] \/ data'[k] = None
    BY <2>1, FileTypes, Zenon
  <2>4. \A c \in Clients : /\ jobid[c] # 0 /\ data[jobid[c]] = None => data'[jobid[c]] = None
                           /\ c = jp[2] => jobid[c] # 0 /\ data'[jobid[c]] = None
    BY <2>1, <2>2, <2>3, FileTypes, Zenon
  <2> QED
    BY <2>1, <2>2, <2>4, Steady, Zenon DEF Gone, Sending
<1>17. CASE UnlinkControl
  BY <1>17, Types, Shared, PrintedGrows, Zenon
     DEF Gone, Printer, Sending, UnlinkControl, PrinterAt, Unlink, Numbers,
         PrintedNumbered, clientVars
<1>18. CASE Crash
  BY <1>18, Types, Shared, PrintedGrows, Zenon
     DEF Gone, Printer, Sending, Crash, Numbers, PrintedNumbered, diskVars
<1> QED
  BY <1>1, <1>2, <1>3, <1>4, <1>5, <1>6, <1>7, <1>8, <1>9, <1>10, <1>11, <1>12, <1>13, <1>14,
     <1>15, <1>16, <1>17, <1>18, Writers, Zenon DEF Writes

(* PrintedOnce is preserved: what the printer confirms was not printed.    *)
LEMMA PrintedOnceStep == ASSUME TypeOK, PrintedOnce, PrintedNumbered, Gone, Threads, Printer, Numbers, [Next]_vars
                         PROVE  PrintedOnce'
<1> USE SpoolAssumption
<1>1. CASE UNCHANGED <<printed, unsure, jobid>>
  BY <1>1 DEF PrintedOnce, Reissued
<1>2. ASSUME NEW c \in Clients, get_newjobno(c) PROVE PrintedOnce'
  <2>1. UNCHANGED <<printed, unsure>>
    BY <1>2, Zenon DEF get_newjobno, histVars
  <2> QED
    BY <2>1, PrintedClients, NumberStays, Zenon DEF PrintedOnce, PrintedNumbered
<1>3. CASE Confirmed
  <2> DEFINE e == <<jp[2], sent>>
             n == Len(printed)
  <2>1. printed' = Append(printed, e) /\ e[1] = jp[2] /\ printed \in Seq(Clients \X Texts)
    BY <1>3, Zenon DEF Confirmed, TypeOK
  <2> HIDE DEF e
  <2>2. /\ Len(printed') = n + 1
        /\ \A k \in 1 .. n : printed'[k] = printed[k]
        /\ printed'[n + 1] = e
        /\ n \in Nat
    BY <2>1
  <2>3. UNCHANGED <<jobid, unsure>>
    BY <1>3, Zenon DEF Confirmed, clientVars
  <2>4. Reissued(jp[2]) \/ jp[2] \in unsure \/ \A k \in 1 .. n : printed[k][1] # jp[2]
    BY <1>3, Zenon DEF Confirmed, PrinterAt, Gone, Sending, Printed
  <2>5. \A k \in 1 .. Len(printed') : k \in 1 .. n \/ k = n + 1
    BY <2>2
  <2>6. \A c : Reissued(c)' <=> Reissued(c)
    BY <2>3, Zenon DEF Reissued
  <2>7. ASSUME NEW k \in 1 .. n, printed[k][1] = jp[2]
        PROVE  jp[2] \in unsure \/ Reissued(jp[2])
    BY <2>4, <2>7, Zenon
  <2> QED
    <3>1. ASSUME NEW k \in 1 .. n, NEW m \in 1 .. n, k # m, printed[k][1] = printed[m][1]
          PROVE  printed[k][1] \in unsure \/ Reissued(printed[k][1])
      BY <3>1, Zenon DEF PrintedOnce
    <3> QED
      BY <2>1, <2>2, <2>3, <2>5, <2>6, <2>7, <3>1 DEF PrintedOnce
<1>4. CASE Crash
  BY <1>4, Types DEF PrintedOnce, Reissued, Crash, diskVars
<1> QED
  BY <1>1, <1>2, <1>3, <1>4, Writers, Zenon DEF Writes

INSTANCE SequenceTheorems

(* A job done with goes from the hand of the printer thread to the end of  *)
(* the finished ones.                                                      *)
LEMMA FinishJob == ASSUME NEW f \in Seq(Jobs), NEW j \in Seq(Jobs), NEW e \in Jobs
                   PROVE  Append(f, e) \o << >> \o j = f \o <<e>> \o j
<1>1. Append(f, e) \in Seq(Jobs)
  OBVIOUS
<1>2. Append(f, e) \o << >> = Append(f, e)
  BY <1>1, ConcatEmptySeq, Zenon
<1>3. Append(f, e) = f \o <<e>>
  BY AppendIsConcat, Zenon
<1> QED
  BY <1>2, <1>3, Zenon

(* replace_job puts the job in hand back in front of the list.             *)
LEMMA ReplaceJob == ASSUME NEW f \in Seq(Jobs), NEW j \in Seq(Jobs), NEW e \in Jobs
                    PROVE  f \o << >> \o (<<e>> \o j) = f \o <<e>> \o j
<1>1. <<e>> \in Seq(Jobs)
  OBVIOUS
<1>2. f \o << >> = f
  BY ConcatEmptySeq, Zenon
<1>3. (f \o <<e>>) \o j = f \o (<<e>> \o j)
  BY <1>1, ConcatAssociative
<1> QED
  BY <1>2, <1>3, Zenon

(* remove_job takes the first job into the hand.                           *)
LEMMA RemoveJob == ASSUME NEW f \in Seq(Jobs), NEW j \in Seq(Jobs), j # << >>
                   PROVE  f \o <<Head(j)>> \o Tail(j) = f \o << >> \o j
<1>1. Head(j) \in Jobs /\ Tail(j) \in Seq(Jobs) /\ <<Head(j)>> \in Seq(Jobs)
  OBVIOUS
<1>2. <<Head(j)>> \o Tail(j) = j
  BY <1>1
<1>3. (f \o <<Head(j)>>) \o Tail(j) = f \o (<<Head(j)>> \o Tail(j))
  BY <1>1, ConcatAssociative
<1>4. f \o << >> = f
  BY ConcatEmptySeq, Zenon
<1> QED
  BY <1>2, <1>3, <1>4, Zenon

(* add_job appends to the list, and so to the whole.                       *)
LEMMA AddJob == ASSUME NEW f \in Seq(Jobs), NEW h \in Seq(Jobs), NEW j \in Seq(Jobs), NEW e \in Jobs
                PROVE  f \o h \o Append(j, e) = Append(f \o h \o j, e)
<1>1. <<e>> \in Seq(Jobs) /\ Append(j, e) = j \o <<e>>
  BY AppendIsConcat
<1>2. f \o h \in Seq(Jobs)
  BY ConcatProperties, Zenon
<1>3. (f \o h) \o j \in Seq(Jobs)
  BY <1>2, ConcatProperties, Zenon
<1>4. Append(f \o h \o j, e) = (f \o h \o j) \o <<e>>
  BY <1>3, AppendIsConcat, Zenon
<1>5. \A g \in Seq(Jobs) : (g \o j) \o <<e>> = g \o (j \o <<e>>)
  BY <1>1, ConcatAssociative, SMTT(20)
<1> QED
  BY <1>1, <1>2, <1>4, <1>5, Zenon

(* The order is preserved: every operation on the list is an equation of   *)
(* sequences.                                                              *)
LEMMA InOrderStep == ASSUME TypeOK, InOrder, Threads, Printer, Unread, [Next]_vars
                     PROVE  InOrder'
<1>a. finished \in Seq(Jobs) /\ jobs \in Seq(Jobs) /\ jp \in Jobs \cup {None}
  BY Zenon DEF TypeOK
<1>b. None \notin Jobs
  BY SpoolAssumption, Zenon
<1>c. jp \in Jobs => <<jp>> \in Seq(Jobs)
  OBVIOUS
<1>d. InHand \in Seq(Jobs)
  BY <1>a, <1>c DEF InHand
<1>e. ASSUME NEW job \in Jobs,
             jobs' = Append(jobs, job),
             added' = Append(added, job),
             UNCHANGED <<jp, finished>>
      PROVE  InOrder'
  <2>1. finished \o InHand \o Append(jobs, job) = Append(finished \o InHand \o jobs, job)
    BY <1>a, <1>d, AddJob, Zenon
  <2>2. InHand' = InHand
    BY <1>e, Zenon DEF InHand
  <2> QED
    BY <1>e, <2>1, <2>2, Zenon DEF InOrder
<1>1. CASE UNCHANGED <<jp, jobs, added, finished>>
  BY <1>1, Zenon DEF InOrder, InHand
<1>2. ASSUME NEW i \in Ids, QueueOnStart(i) PROVE InOrder'
  <2>1. CASE reqs[i] = Short
    BY <1>2, <2>1, Zenon DEF InOrder, InHand, QueueOnStart, printerVars
  <2>2. CASE reqs[i] # Short
    <3>1. <<i, reqs[i]>> \in Jobs
      BY <1>2, <2>2, Queued, Zenon
    <3>2. /\ jobs' = Append(jobs, <<i, reqs[i]>>)
          /\ added' = Append(added, <<i, reqs[i]>>)
          /\ UNCHANGED <<jp, finished>>
      BY <1>2, <2>2, Zenon DEF QueueOnStart, add_job, printerVars
    <3> QED
      BY <3>1, <3>2, <1>e, Zenon
  <2> QED
    BY <2>1, <2>2, Zenon
<1>3. ASSUME NEW c \in Clients, NotifyPrinter(c) PROVE InOrder'
  <2>1. <<jobid[c], c>> \in Jobs
    BY <1>3, Queued, Zenon
  <2>2. /\ jobs' = Append(jobs, <<jobid[c], c>>)
        /\ added' = Append(added, <<jobid[c], c>>)
        /\ UNCHANGED <<jp, finished>>
    BY <1>3, Zenon DEF NotifyPrinter, add_job, printerVars
  <2> QED
    BY <2>1, <2>2, <1>e, Zenon
<1>4. CASE PickUp
  <2>1. jp = None
    BY <1>4, <1>a, Zenon DEF PickUp, PrinterAt, Printer, Sending
  <2>2. InHand = << >> /\ InHand' = <<Head(jobs)>>
    BY <1>4, <2>1, <1>a, <1>b, QueueStep, Zenon DEF InHand, PickUp
  <2>3. finished \o <<Head(jobs)>> \o Tail(jobs) = finished \o << >> \o jobs
    BY <1>4, <1>a, RemoveJob, Zenon DEF PickUp
  <2> QED
    BY <1>4, <2>2, <2>3, Zenon DEF InOrder, PickUp, histVars
<1>5. CASE OpenFails
  <2>1. jp \in Jobs
    BY <1>5, <1>a, Zenon DEF OpenFails, PrinterAt, Printer, Sending
  <2>2. InHand = <<jp>> /\ InHand' = << >>
    BY <1>5, <2>1, <1>b, Zenon DEF InHand, OpenFails
  <2>3. Append(finished, jp) \o << >> \o jobs = finished \o <<jp>> \o jobs
    BY <1>a, <2>1, FinishJob, Zenon
  <2> QED
    BY <1>5, <2>2, <2>3, Zenon DEF InOrder, OpenFails
<1>6. CASE Defer
  <2>1. jp \in Jobs
    BY <1>6, <1>a, Zenon DEF Defer, PrinterAt, Printer, Sending
  <2>2. InHand = <<jp>> /\ InHand' = << >>
    BY <1>6, <2>1, <1>b, Zenon DEF InHand, Defer
  <2>3. finished \o << >> \o (<<jp>> \o jobs) = finished \o <<jp>> \o jobs
    BY <1>a, <2>1, ReplaceJob, Zenon
  <2> QED
    BY <1>6, <2>2, <2>3, Zenon DEF InOrder, Defer, replace_job, histVars
<1>7. CASE UnlinkControl
  <2>1. jp \in Jobs
    BY <1>7, <1>a, Zenon DEF UnlinkControl, PrinterAt, Printer, Sending
  <2>2. InHand = <<jp>> /\ InHand' = << >>
    BY <1>7, <2>1, <1>b, Zenon DEF InHand, UnlinkControl
  <2>3. Append(finished, jp) \o << >> \o jobs = finished \o <<jp>> \o jobs
    BY <1>a, <2>1, FinishJob
  <2> QED
    BY <1>7, <2>2, <2>3, Zenon DEF InOrder, UnlinkControl
<1>8. CASE Crash
  BY <1>8 DEF InOrder, InHand, Crash
<1> QED
  BY <1>1, <1>2, <1>3, <1>4, <1>5, <1>6, <1>7, <1>8, Writers, Zenon DEF Writes

(* The inductive invariant holds before printd is first started.           *)
LEMMA SpoolInit == ASSUME Init
                   PROVE  SpoolInv
<1>1. TypeOK
  BY SpoolAssumption DEF Init, TypeOK, Ids
<1>2. Queue = {} /\ \A c \in Clients : ~Printed(c)
  BY DEF Init, Queue, Printed
<1>3. Numbers /\ Created /\ Threads /\ Unread
  BY <1>2, SpoolAssumption, Zenon DEF Init, Numbers, Created, Threads, Unread, Busy
<1>4. Printer /\ NotYet /\ Contents /\ Kept /\ PrintedNumbered /\ Gone
  BY <1>2, Zenon DEF Init, Printer, NotYet, Contents, Kept, PrintedNumbered, Gone, Sending
<1>5. PrintedIntact /\ PrintedOnce /\ InOrder
  BY DEF Init, PrintedIntact, PrintedOnce, InOrder, InHand
<1> QED
  BY <1>1, <1>3, <1>4, <1>5, Zenon DEF SpoolInv

(* Every step of a thread, and every crash, preserves it.                  *)
LEMMA SpoolStep == ASSUME SpoolInv, [Next]_vars
                   PROVE  SpoolInv'
  BY TypeStep, NumbersStep, CreatedStep, ThreadsStep, PrinterStepKept, UnreadStep, NotYetStep,
     ContentsStep, KeptStep, PrintedNumberedStep, PrintedIntactStep, GoneStep, PrintedOnceStep,
     InOrderStep, Zenon DEF SpoolInv

(* SpoolKept follows: the files Kept speaks of hold what Contents says.    *)
LEMMA InvKeeps == ASSUME SpoolInv
                  PROVE  SpoolKept
<1>1. ASSUME NEW c \in acked, ~Reissued(c), ~Printed(c)
      PROVE  reqs[jobid[c]] = c /\ data[jobid[c]] = c /\ text[c] = Stored(c) /\ c # None
  <2>1. c \in Clients /\ jobid[c] \in Ids /\ jobid[c] # 0 /\ c # None
    BY Types, SpoolAssumption DEF SpoolInv, Threads
  <2>2. reqs[jobid[c]] = c /\ data[jobid[c]] = c
    BY <1>1, <2>1, Zenon DEF SpoolInv, Kept
  <2> QED
    BY <1>1, <2>1, <2>2, Zenon DEF SpoolInv, Created, Contents
<1> QED
  BY <1>1, Zenon DEF SpoolKept

(* The inductive invariant holds in every reachable state.                 *)
LEMMA SpoolSafe == Spec => []SpoolInv
  BY SpoolInit, SpoolStep, PTL DEF Spec

(* Whatever printd dies of and whenever, a client that was sent a job      *)
(* number finds its job printed or complete in the spool directory, unless *)
(* the number was given out again (client_thread, build_qonstart).         *)
THEOREM JobsKept == Spec => []SpoolKept
  BY InvKeeps, SpoolSafe, PTL

(* What was printed is what was stored, unless the number was given out    *)
(* again (client_thread, printer_thread).                                  *)
THEOREM PrintsIntact == Spec => []PrintedIntact
<1>1. SpoolInv => PrintedIntact
  BY Zenon DEF SpoolInv
<1> QED
  BY <1>1, SpoolSafe, PTL

(* A job the printer confirmed is not printed again, but for the reissued  *)
(* numbers and the unlink that a crash prevented (printer_thread).         *)
THEOREM PrintsOnce == Spec => []PrintedOnce
<1>1. SpoolInv => PrintedOnce
  BY Zenon DEF SpoolInv
<1> QED
  BY <1>1, SpoolSafe, PTL

(* The job list is a queue: add_job, remove_job and replace_job neither    *)
(* lose nor double a job nor change the order.                             *)
THEOREM ListInOrder == Spec => []InOrder
<1>1. SpoolInv => InOrder
  BY Zenon DEF SpoolInv
<1> QED
  BY <1>1, SpoolSafe, PTL

(* The types are kept for all bounds (all actions).                        *)
THEOREM SpoolTyped == Spec => []TypeOK
<1>1. SpoolInv => TypeOK
  BY Zenon DEF SpoolInv
<1> QED
  BY <1>1, SpoolSafe, PTL
=============================================================================
