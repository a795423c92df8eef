----------------------------- MODULE PrintSpool -----------------------------
(***************************************************************************)
(* The print server daemon printd: threads that take requests from clients *)
(* and store them in the spool directory, one thread that sends the jobs   *)
(* to the printer, the job ID file, and the start-up that queues again     *)
(* what an earlier daemon left in the spool directory.  The daemon may die *)
(* at any point (a signal, an error that ends it) and be started again;    *)
(* the files stay.                                                         *)
(*                                                                         *)
(* A request is named by its client.  The text of a request is a number of *)
(* blocks; a file is named by the client whose creat made it, so that a    *)
(* file can be open, unlinked and still written.  Full disks and lack of   *)
(* descriptors are modelled, read errors of the disk are not.              *)
(***************************************************************************)
EXTENDS Naturals, Sequences

CONSTANTS Clients,
          MaxJob,      \* bound: the last job number given out
          Blocks,      \* bound: blocks of text in a request
          MaxCrashes,  \* bound: how often the daemon dies
          None,
          Short        \* a control file the request was not written to

Ids == 1 .. MaxJob
Texts == Clients \X (0 .. Blocks)
Jobs == Ids \X Clients

ASSUME SpoolAssumption == /\ MaxJob \in Nat
                          /\ Blocks \in Nat
                          /\ MaxCrashes \in Nat
                          /\ None \notin Clients \cup Texts \cup Jobs
                          /\ Short \notin Clients \cup {None}

VARIABLES
    daemon,    \* "down", "build" (in build_qonstart) or "up"
    crashes,   \* how often it died
    jobno,     \* the number in the job ID file, 0 when it is empty
    data,      \* DATADIR: job number -> file, or None
    text,      \* file -> what is in it: a request and how many blocks of it
    reqs,      \* REQDIR: job number -> request, Short or None
    nextjob,
    jobs,      \* the list of pending jobs, as <<job number, request>>
    todo,      \* job numbers build_qonstart has still to read
    pc,        \* client -> where its thread is
    jobid,     \* client -> its job number, 0 before it has one
    fd,        \* client -> its open data file
    blocks,    \* client -> how many blocks of its text were stored
    acked,     \* clients that were sent a job number
    ppc,       \* where the printer thread is
    jp,        \* its job, or None
    buf,       \* its local variable: the number update_jobno writes
    file,      \* its open data file
    sent,      \* the text it has sent, or None
    printed,   \* history: <<request, text>> the printer has confirmed, in order
    unsure,    \* history: requests confirmed and not unlinked when printd died
    skipped,   \* history: requests this daemon could not open the files of
    added,     \* history: the jobs given to add_job by this daemon, in order
    finished   \* history: the jobs this daemon has done with, in order

diskVars == <<jobno, data, text, reqs>>
clientVars == <<pc, jobid, fd, blocks, acked>>
printerVars == <<ppc, jp, buf, file, sent>>
histVars == <<printed, unsure, skipped, added, finished>>
vars == <<daemon, crashes, diskVars, nextjob, jobs, todo, clientVars, printerVars, histVars>>

Init == /\ daemon = "down"
        /\ crashes = 0
        /\ jobno = 0
        /\ data = [i \in Ids |-> None]
        /\ text = [c \in Clients |-> None]
        /\ reqs = [i \in Ids |-> None]
        /\ nextjob = 0
        /\ jobs = << >>
        /\ todo = {}
        /\ pc = [c \in Clients |-> "new"]
        /\ jobid = [c \in Clients |-> 0]
        /\ fd = [c \in Clients |-> None]
        /\ blocks = [c \in Clients |-> 0]
        /\ acked = {}
        /\ ppc = "wait"
        /\ jp = None
        /\ buf = 0
        /\ file = None
        /\ sent = None
        /\ printed = << >>
        /\ unsure = {}
        /\ skipped = {}
        /\ added = << >>
        /\ finished = << >>

Creat(dir, i, f) == dir' = [dir EXCEPT ![i] = f]
Unlink(dir, i) == dir' = [dir EXCEPT ![i] = None]

add_job(job) == /\ jobs' = Append(jobs, job)
                /\ added' = Append(added, job)

(* Mutant: back at the tail.                                               *)
replace_at_tail(job) == jobs' = Append(jobs, job)


replace_job(job) == jobs' = <<job>> \o jobs

(* Mutant: build_qonstart is not called.                                   *)
no_build_qonstart == /\ daemon = "down"
                     /\ daemon' = "build"
                     /\ nextjob' = IF jobno = 0 THEN 1 ELSE jobno
                     /\ todo' = {}
                     /\ UNCHANGED <<crashes, diskVars, jobs, clientVars, printerVars, histVars>>

(* main: init_request reads the job ID file, the printer thread starts.    *)
init_request == /\ daemon = "down"
                /\ daemon' = "build"
                /\ nextjob' = IF jobno = 0 THEN 1 ELSE jobno
                /\ todo' = {i \in Ids : reqs[i] # None}
                /\ UNCHANGED <<crashes, diskVars, jobs, clientVars, printerVars, histVars>>

(* Mutant: the length of the control file is not looked at.                *)
QueueShort(i) == /\ i \in todo
                 /\ todo' = todo \ {i}
                 /\ add_job(<<i, reqs[i]>>)
                 /\ UNCHANGED <<daemon, crashes, diskVars, nextjob, clientVars, printerVars>>
                 /\ UNCHANGED <<printed, unsure, skipped, finished>>

(* build_qonstart reads an entry of REQDIR.                                *)
QueueOnStart(i) == /\ i \in todo
                   /\ todo' = todo \ {i}
                   /\ IF reqs[i] = Short
                        THEN /\ Unlink(reqs, i)
                             /\ Unlink(data, i)
                             /\ UNCHANGED <<jobs, added>>
                        ELSE /\ add_job(<<i, reqs[i]>>)
                             /\ UNCHANGED <<reqs, data>>
                   /\ UNCHANGED <<daemon, crashes, jobno, text, nextjob, clientVars, printerVars>>
                   /\ UNCHANGED <<printed, unsure, skipped, finished>>

(* It cannot open the control file and goes on to the next.                *)
SkipOnStart(i) == /\ i \in todo
                  /\ todo' = todo \ {i}
                  /\ skipped' = skipped \cup {reqs[i]}
                  /\ UNCHANGED <<daemon, crashes, diskVars, nextjob, jobs, clientVars, printerVars>>
                  /\ UNCHANGED <<printed, unsure, added, finished>>

StartAccepting == /\ daemon = "build"
                  /\ todo = {}
                  /\ daemon' = "up"
                  /\ UNCHANGED <<crashes, diskVars, nextjob, jobs, todo, clientVars, printerVars, histVars>>

----------------------------------------------------------------------------
(* client_thread.                                                          *)
At(c, label) == pc[c] = label

Goto(c, label) == pc' = [pc EXCEPT ![c] = label]

(* The request header does not come in time.                               *)
HeaderFails(c) == /\ daemon = "up"
                  /\ At(c, "new")
                  /\ Goto(c, "failed")
                  /\ UNCHANGED <<daemon, crashes, diskVars, nextjob, jobs, todo, printerVars, histVars>>
                  /\ UNCHANGED <<jobid, fd, blocks, acked>>

get_newjobno(c) == /\ daemon = "up"
                   /\ At(c, "new")
                   /\ nextjob <= MaxJob
                   /\ jobid' = [jobid EXCEPT ![c] = nextjob]
                   /\ nextjob' = nextjob + 1
                   /\ Goto(c, "data")
                   /\ UNCHANGED <<daemon, crashes, diskVars, jobs, todo, printerVars, histVars>>
                   /\ UNCHANGED <<fd, blocks, acked>>

CreateFails(c) == /\ At(c, "data")
                  /\ Goto(c, "failed")
                  /\ UNCHANGED <<daemon, crashes, diskVars, nextjob, jobs, todo, printerVars, histVars>>
                  /\ UNCHANGED <<jobid, fd, blocks, acked>>

(* creat truncates the file of that name when there is one.                *)
CreateData(c) == /\ At(c, "data")
                 /\ LET f == IF data[jobid[c]] = None THEN c ELSE data[jobid[c]]
                    IN  /\ Creat(data, jobid[c], f)
                        /\ text' = [text EXCEPT ![f] = <<c, 0>>]
                        /\ fd' = [fd EXCEPT ![c] = f]
                 /\ Goto(c, "store")
                 /\ UNCHANGED <<daemon, crashes, jobno, reqs, nextjob, jobs, todo, printerVars, histVars>>
                 /\ UNCHANGED <<jobid, blocks, acked>>

(* Mutant: a write that fails goes unnoticed.                              *)
LoseBlock(c) == /\ At(c, "store")
                /\ blocks[c] < Blocks
                /\ blocks' = [blocks EXCEPT ![c] = @ + 1]
                /\ UNCHANGED <<daemon, crashes, diskVars, nextjob, jobs, todo, printerVars, histVars>>
                /\ UNCHANGED <<pc, jobid, fd, acked>>


StoreBlock(c) == /\ At(c, "store")
                 /\ blocks[c] < Blocks
                 /\ blocks' = [blocks EXCEPT ![c] = @ + 1]
                 /\ text' = [text EXCEPT ![fd[c]] = <<c, blocks[c] + 1>>]
                 /\ UNCHANGED <<daemon, crashes, jobno, data, reqs, nextjob, jobs, todo, printerVars, histVars>>
                 /\ UNCHANGED <<pc, jobid, fd, acked>>

StoreFails(c) == /\ At(c, "store")
                 /\ Unlink(data, jobid[c])
                 /\ Goto(c, "failed")
                 /\ UNCHANGED <<daemon, crashes, jobno, text, reqs, nextjob, jobs, todo, printerVars, histVars>>
                 /\ UNCHANGED <<jobid, fd, blocks, acked>>

(* tread returns 0 or -1, at the end of the text or where the client has   *)
(* paused for too long: what has come so far is the job.                   *)
TextEnds(c) == /\ At(c, "store")
               /\ Goto(c, "control")
               /\ UNCHANGED <<daemon, crashes, diskVars, nextjob, jobs, todo, printerVars, histVars>>
               /\ UNCHANGED <<jobid, fd, blocks, acked>>

CreateControl(c) == /\ At(c, "control")
                    /\ Creat(reqs, jobid[c], Short)
                    /\ Goto(c, "request")
                    /\ UNCHANGED <<daemon, crashes, jobno, data, text, nextjob, jobs, todo, printerVars, histVars>>
                    /\ UNCHANGED <<jobid, fd, blocks, acked>>

WriteControl(c) == /\ At(c, "request")
                   /\ Creat(reqs, jobid[c], c)
                   /\ Goto(c, "respond")
                   /\ UNCHANGED <<daemon, crashes, jobno, data, text, nextjob, jobs, todo, printerVars, histVars>>
                   /\ UNCHANGED <<jobid, fd, blocks, acked>>

(* The control file cannot be created, or not written.                     *)
ControlFails(c) == /\ \/ At(c, "control") /\ UNCHANGED reqs
                      \/ At(c, "request") /\ Unlink(reqs, jobid[c])
                   /\ Unlink(data, jobid[c])
                   /\ Goto(c, "failed")
                   /\ UNCHANGED <<daemon, crashes, jobno, text, nextjob, jobs, todo, printerVars, histVars>>
                   /\ UNCHANGED <<jobid, fd, blocks, acked>>

Respond(c) == /\ At(c, "respond")
              /\ acked' = acked \cup {c}
              /\ Goto(c, "add")
              /\ UNCHANGED <<daemon, crashes, diskVars, nextjob, jobs, todo, printerVars, histVars>>
              /\ UNCHANGED <<jobid, fd, blocks>>

NotifyPrinter(c) == /\ At(c, "add")
                    /\ add_job(<<jobid[c], c>>)
                    /\ Goto(c, "done")
                    /\ UNCHANGED <<daemon, crashes, diskVars, nextjob, todo, printerVars>>
                    /\ UNCHANGED <<jobid, fd, blocks, acked, printed, unsure, skipped, finished>>

----------------------------------------------------------------------------
(* printer_thread.                                                         *)
PrinterAt(label) == /\ ppc = label
                    /\ daemon # "down"

(* Under joblock: wait for a job and remove it from the list.              *)
PickUp == /\ PrinterAt("wait")
          /\ jobs # << >>
          /\ jp' = Head(jobs)
          /\ jobs' = Tail(jobs)
          /\ ppc' = "jobno"
          /\ UNCHANGED <<daemon, crashes, diskVars, nextjob, todo, clientVars, buf, file, sent, histVars>>

(* update_jobno reads nextjob without joblock, then writes the file.       *)
ReadJobno == /\ PrinterAt("jobno")
             /\ buf' = nextjob
             /\ ppc' = "update"
             /\ UNCHANGED <<daemon, crashes, diskVars, nextjob, jobs, todo, clientVars, jp, file, sent, histVars>>

update_jobno == /\ PrinterAt("update")
                /\ jobno' = buf
                /\ buf' = 0
                /\ ppc' = "open"
                /\ UNCHANGED <<daemon, crashes, data, text, reqs, nextjob, jobs, todo, clientVars, jp, file, sent, histVars>>

OpenData == /\ PrinterAt("open")
            /\ data[jp[1]] # None
            /\ file' = data[jp[1]]
            /\ ppc' = "send"
            /\ UNCHANGED <<daemon, crashes, diskVars, nextjob, jobs, todo, clientVars, jp, buf, sent, histVars>>

(* "job canceled - can't open": it is dropped, its files stay.             *)
OpenFails == /\ PrinterAt("open")
             /\ skipped' = skipped \cup {jp[2]}
             /\ finished' = Append(finished, jp)
             /\ jp' = None
             /\ ppc' = "wait"
             /\ UNCHANGED <<daemon, crashes, diskVars, nextjob, jobs, todo, clientVars, buf, file, sent>>
             /\ UNCHANGED <<printed, unsure, added>>

Send == /\ PrinterAt("send")
        /\ sent' = text[file]
        /\ ppc' = "status"
        /\ UNCHANGED <<daemon, crashes, diskVars, nextjob, jobs, todo, clientVars, jp, buf, file, histVars>>

(* Mutant: the data file unlinked all the same.                            *)
DeferUnlinked == /\ PrinterAt("send") \/ PrinterAt("status")
                 /\ replace_job(jp)
                 /\ Unlink(data, jp[1])
                 /\ jp' = None
                 /\ file' = None
                 /\ sent' = None
                 /\ ppc' = "wait"
                 /\ UNCHANGED <<daemon, crashes, jobno, text, reqs, nextjob, todo, clientVars, buf, histVars>>

(* No connection, a short write, or no good answer from printer_status:    *)
(* back to the head of the list, to be sent again after a minute.          *)
Defer == /\ PrinterAt("send") \/ PrinterAt("status")
         /\ replace_job(jp)
         /\ jp' = None
         /\ file' = None
         /\ sent' = None
         /\ ppc' = "wait"
         /\ UNCHANGED <<daemon, crashes, diskVars, nextjob, todo, clientVars, buf, histVars>>

(* printer_status returns 1.                                               *)
Confirmed == /\ PrinterAt("status")
             /\ printed' = Append(printed, <<jp[2], sent>>)
             /\ sent' = None
             /\ ppc' = "unlink"
             /\ UNCHANGED <<daemon, crashes, diskVars, nextjob, jobs, todo, clientVars, jp, buf, file>>
             /\ UNCHANGED <<unsure, skipped, added, finished>>

(* printer_status does not return: its loop that looks for the end of the  *)
(* HTTP header reads no more when that is not in what it has read.         *)
StatusHangs == /\ PrinterAt("status")
               /\ ppc' = "hung"
               /\ UNCHANGED <<daemon, crashes, diskVars, nextjob, jobs, todo, clientVars, jp, buf, file, sent, histVars>>

(* Mutant: only the control file is unlinked.                              *)
KeepData == /\ PrinterAt("unlink")
            /\ file' = None
            /\ ppc' = "unlink2"
            /\ UNCHANGED <<daemon, crashes, diskVars, nextjob, jobs, todo, clientVars, jp, buf, sent, histVars>>


UnlinkData == /\ PrinterAt("unlink")
              /\ Unlink(data, jp[1])
              /\ file' = None
              /\ ppc' = "unlink2"
              /\ UNCHANGED <<daemon, crashes, jobno, text, reqs, nextjob, jobs, todo, clientVars, jp, buf, sent, histVars>>

UnlinkControl == /\ PrinterAt("unlink2")
                 /\ Unlink(reqs, jp[1])
                 /\ finished' = Append(finished, jp)
                 /\ jp' = None
                 /\ ppc' = "wait"
                 /\ UNCHANGED <<daemon, crashes, jobno, data, text, nextjob, jobs, todo, clientVars, buf, file, sent>>
                 /\ UNCHANGED <<printed, unsure, skipped, added>>

----------------------------------------------------------------------------
(* The daemon ends: SIGTERM, any other signal, an error it exits on.       *)
Crash == /\ daemon # "down"
         /\ crashes < MaxCrashes
         /\ daemon' = "down"
         /\ crashes' = crashes + 1
         /\ nextjob' = 0
         /\ jobs' = << >>
         /\ todo' = {}
         /\ pc' = [c \in Clients |-> IF pc[c] \in {"new", "done"} THEN pc[c] ELSE "failed"]
         /\ fd' = [c \in Clients |-> None]
         /\ ppc' = "wait"
         /\ jp' = None
         /\ buf' = 0
         /\ file' = None
         /\ sent' = None
         /\ unsure' = IF ppc = "unlink" THEN unsure \cup {jp[2]} ELSE unsure
         /\ skipped' = {}
         /\ added' = << >>
         /\ finished' = << >>
         /\ UNCHANGED <<diskVars, jobid, blocks, acked, printed>>

Startup == init_request \/ StartAccepting \/ \E i \in Ids : QueueOnStart(i) \/ SkipOnStart(i)

(* What a client thread does next, whatever its client does.               *)
Proceed(c) == \/ CreateData(c)
              \/ TextEnds(c)
              \/ CreateControl(c)
              \/ WriteControl(c)
              \/ Respond(c)
              \/ NotifyPrinter(c)

ClientThread(c) == \/ Proceed(c)
                   \/ get_newjobno(c)
                   \/ StoreBlock(c)
                   \/ HeaderFails(c)
                   \/ CreateFails(c)
                   \/ StoreFails(c)
                   \/ ControlFails(c)

PrinterStep == PickUp \/ ReadJobno \/ update_jobno \/ OpenData \/ Send \/ UnlinkData \/ UnlinkControl

Next == \/ Startup
        \/ \E c \in Clients : ClientThread(c)
        \/ PrinterStep
        \/ OpenFails
        \/ Defer
        \/ Confirmed
        \/ StatusHangs
        \/ Crash

Spec == Init /\ [][Next]_vars

(* The threads are scheduled, and the printer, asked for a job again and   *)
(* again, takes it and confirms it some time.  Nothing makes anybody start *)
(* the daemon.                                                             *)
FairSpec == /\ Spec
            /\ WF_vars(PrinterStep \/ OpenFails)
            /\ SF_vars(Send)
            /\ SF_vars(Confirmed)
            /\ \A c \in Clients : WF_vars(Proceed(c))
            /\ WF_vars(StartAccepting \/ \E i \in Ids : QueueOnStart(i))

----------------------------------------------------------------------------
TypeOK == /\ daemon \in {"down", "build", "up"}
          /\ crashes \in 0 .. MaxCrashes
          /\ jobno \in 0 .. MaxJob + 1
          /\ data \in [Ids -> Clients \cup {None}]
          /\ text \in [Clients -> Texts \cup {None}]
          /\ reqs \in [Ids -> Clients \cup {Short, None}]
          /\ nextjob \in 0 .. MaxJob + 1
          /\ jobs \in Seq(Jobs)
          /\ todo \subseteq Ids
          /\ pc \in [Clients -> {"new", "data", "store", "control", "request", "respond", "add", "done", "failed"}]
          /\ jobid \in [Clients -> Ids \cup {0}]
          /\ fd \in [Clients -> Clients \cup {None}]
          /\ blocks \in [Clients -> 0 .. Blocks]
          /\ acked \subseteq Clients
          /\ ppc \in {"wait", "jobno", "update", "open", "send", "status", "hung", "unlink", "unlink2"}
          /\ jp \in Jobs \cup {None}
          /\ buf \in 0 .. MaxJob + 1
          /\ file \in Clients \cup {None}
          /\ sent \in Texts \cup {None}
          /\ printed \in Seq(Clients \X Texts)
          /\ unsure \subseteq Clients
          /\ skipped \subseteq Clients \cup {Short}
          /\ added \in Seq(Jobs)
          /\ finished \in Seq(Jobs)

(* The text the client thread stored for a request.                        *)
Stored(c) == <<c, blocks[c]>>

Printed(c) == \E k \in 1 .. Len(printed) : printed[k][1] = c

(* Another request was given the same number, before or after, and however *)
(* far it got: also one that failed before it wrote its control file.      *)
Reissued(c) == \E d \in Clients \ {c} : jobid[d] = jobid[c]

(* The spool directory keeps its promise to a client that was sent a job   *)
(* number: until the printer has confirmed the job, its control file and   *)
(* its text are there, whatever the daemon dies of and whenever.  The      *)
(* exception is the one the code has: the job ID file is written when a    *)
(* job is picked up and not when its number is given out, so that a daemon *)
(* started again can give the number of a pending job to a new client,     *)
(* whose creat truncates it (client_thread, update_jobno, init_request).   *)
(* Nothing is said of either of two requests that share a number.          *)
SpoolKept == \A c \in acked :
                \/ Printed(c)
                \/ Reissued(c)
                \/ /\ reqs[jobid[c]] = c
                   /\ data[jobid[c]] # None
                   /\ text[data[jobid[c]]] = Stored(c)

(* What the printer confirmed for a request is the text that was stored    *)
(* for it, with the same exception (printer_thread).                       *)
PrintedIntact == \A k \in 1 .. Len(printed) :
                    \/ printed[k][2] = Stored(printed[k][1])
                    \/ Reissued(printed[k][1])

(* A job is confirmed once: one that the printer confirmed is not sent     *)
(* again, except when the daemon died between the answer and the unlink of *)
(* the data file (printer_thread, build_qonstart).  It says nothing of a   *)
(* job that was sent whole and whose answer was lost or late: replace_job  *)
(* puts it back, it is sent again, and the paper may come out twice.       *)
PrintedOnce == \A k, m \in 1 .. Len(printed) :
                  /\ k # m
                  /\ printed[k][1] = printed[m][1]
                  => printed[k][1] \in unsure \/ Reissued(printed[k][1])

InHand == IF jp = None THEN << >> ELSE <<jp>>

(* The printer thread is done with jobs in the order of add_job: none is   *)
(* overtaken, none is in the list twice or disappears from it, although    *)
(* threads append while the printer thread takes jobs out and puts one it  *)
(* could not print back at the head (add_job, remove_job, replace_job).    *)
InOrder == finished \o InHand \o jobs = added

(* A job a client was told the number of is printed, once a daemon stays   *)
(* up: on the first attempt or a later one, by this daemon or by a         *)
(* successor that finds it in the spool directory.  Not if its number was  *)
(* given out again, its files could not be opened, or printer_status hangs.*)
AckedPrinted ==
    <>[](daemon # "down") =>
        \A c \in Clients : c \in acked ~> \/ Printed(c)
                                          \/ Reissued(c)
                                          \/ c \in skipped
                                          \/ ppc = "hung"
=============================================================================
