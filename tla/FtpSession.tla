----------------------------- MODULE FtpSession -----------------------------
(***************************************************************************)
(* The ftp application: it asks for a data connection, waits for the event  *)
(* that reports it, tests the connection and transfers one file with curl.  *)
(* The handler runs in the event loop: what the data connection service     *)
(* reports meanwhile waits, and may be out of date when it is handled.      *)
(***************************************************************************)
EXTENDS Naturals, Sequences

CONSTANTS
    FdLimit,    \* sockets the process may open
    MaxEvents   \* bound: changes of the data connection

VARIABLES
    at,
    enough,                 \* all six arguments are there
    download, onRequest,    \* arguments: the direction, and FtpDataConnect
    registered,             \* the connection state handler is registered
    events,                 \* reported and not yet handled
    link, changes,          \* the data connection
    sockets,                \* left open by tests that failed
    local, remote,          \* the copies of the file
    res,                    \* what curl_easy_perform has returned
    code                    \* the exit status

args == <<enough, download, onRequest>>
net == <<link, changes>>
files == <<local, remote>>
vars == <<at, args, registered, events, net, sockets, files, res, code>>

Copies == {"absent", "old", "partial", "whole"}

TypeOK ==
    /\ at \in {"start", "register", "idle", "test", "get", "perform", "performed", "exited"}
    /\ enough \in BOOLEAN /\ download \in BOOLEAN /\ onRequest \in BOOLEAN /\ registered \in BOOLEAN
    /\ events \in Seq(BOOLEAN)
    /\ link \in BOOLEAN /\ changes \in 0..MaxEvents
    /\ sockets \in 0..FdLimit
    /\ local \in Copies /\ remote \in Copies
    /\ res \in {"none", "ok", "error"}
    /\ code \in {"none", "success", "failure"}

\* The source has the whole file or none; the destination nothing or an old file.
Init ==
    /\ at = "start"
    /\ enough \in BOOLEAN /\ download \in BOOLEAN /\ onRequest \in BOOLEAN
    /\ registered = FALSE /\ events = <<>> /\ link \in BOOLEAN /\ changes = 0
    /\ sockets = 0 /\ res = "none" /\ code = "none"
    /\ \E source \in {"absent", "whole"}, target \in {"absent", "old"} :
         /\ local = IF download THEN target ELSE source
         /\ remote = IF download THEN source ELSE target

Exit(status) == at' = "exited" /\ code' = status

TooFew ==
    /\ at = "start" /\ ~enough /\ Exit("failure")
    /\ UNCHANGED <<args, registered, events, net, sockets, files, res>>

\* COMPONENT_INIT: the connection is requested before the handler is there.
Request ==
    /\ at = "start" /\ enough
    /\ at' = IF onRequest THEN "register" ELSE "get"
    /\ UNCHANGED <<args, registered, events, net, sockets, files, res, code>>

Register ==
    /\ at = "register" /\ at' = "idle" /\ registered' = TRUE
    /\ UNCHANGED <<args, events, net, sockets, files, res, code>>

\* The service reports a change to those who have registered.
Change ==
    /\ changes < MaxEvents /\ changes' = changes + 1
    /\ link' = ~link
    /\ events' = IF registered THEN Append(events, link') ELSE events
    /\ UNCHANGED <<at, args, registered, sockets, files, res, code>>

\* ConnectionStateHandler, up to its sleep.
Handle ==
    /\ at = "idle" /\ events # <<>>
    /\ events' = Tail(events)
    /\ at' = IF Head(events) THEN "test" ELSE "idle"
    /\ UNCHANGED <<args, registered, net, sockets, files, res, code>>

\* TestDataConnectionV4.  A socket that does not get through is not closed.
Test ==
    /\ at = "test"
    /\ \/ link /\ sockets < FdLimit /\ at' = "get" /\ UNCHANGED sockets
       \/ at' = "idle" /\ sockets' = IF sockets < FdLimit THEN sockets + 1 ELSE sockets
    /\ UNCHANGED <<args, registered, events, net, files, res, code>>

\* FtpGet before the transfer: a file to send that is not there, or cannot be
\* opened, is an error; a curl that cannot be set up is none.
Get ==
    /\ at = "get"
    /\ \/ ~download /\ Exit("failure")
       \/ (download \/ local # "absent") /\ at' = "perform" /\ UNCHANGED code
       \/ at' = "performed" /\ UNCHANGED code
    /\ UNCHANGED <<args, registered, events, net, sockets, files, res>>

\* The destination gets what has arrived; the local one is cut when the first
\* bytes are there (FileWrite).
Arrive(copy) ==
    IF download THEN local' = copy /\ UNCHANGED remote ELSE remote' = copy /\ UNCHANGED local

Perform ==
    /\ at = "perform" /\ link /\ (IF download THEN remote ELSE local) = "whole"
    /\ \/ Arrive("partial") /\ UNCHANGED <<at, res>>
       \/ Arrive("whole") /\ at' = "performed" /\ res' = "ok"
    /\ UNCHANGED <<args, registered, events, net, sockets, code>>

\* curl_easy_perform returns an error, whatever has arrived: no file, no
\* connection, nowhere to write, 1000 seconds.
PerformFails ==
    /\ at = "perform" /\ at' = "performed" /\ res' = "error"
    /\ UNCHANGED <<args, registered, events, net, sockets, files, code>>

\* An error is logged; FtpGet returns 0 in any case.
Finish ==
    /\ at = "performed" /\ Exit("success")
    /\ UNCHANGED <<args, registered, events, net, sockets, files, res>>

Next ==
    \/ TooFew \/ Request \/ Register \/ Change \/ Handle \/ Test
    \/ Get \/ Perform \/ PerformFails \/ Finish

Spec == Init /\ [][Next]_vars

\* "We failed" (FtpGet, of an error of curl_easy_perform): the application whose
\* transfer has failed does not exit with EXIT_SUCCESS.  The code breaks this.
FailureReported == res = "error" => code # "success"
=============================================================================
