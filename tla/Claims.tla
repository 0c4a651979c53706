------------------------------- MODULE Claims -------------------------------
(***************************************************************************)
(* What the repository's README and comments say of the program and the    *)
(* code does not do.  Each claim is refuted by a run of its own.           *)
(***************************************************************************)
EXTENDS System, TLC

\* "AllocateIP attempts to atomically allocate an available IP address": no
\* two live servers carry the same address.  (AllocateIP only reads the row;
\* two requests read the same one.)
LiveAddressesDistinct ==
  \A s, t \in Servers :
    /\ s # t
    /\ servers[s].status \in Live
    /\ servers[t].status \in Live
    => servers[s].address # servers[t].address

\* "Enforces valid state machine (FSM) transitions": a terminated server
\* stays terminated, while the program serves.  (The check is made on a row
\* read before, and the UPDATE does not repeat it.)
TerminatedIsFinal ==
  [][\A s \in Servers : servers[s].status = "terminated"
                          => servers'[s].status = "terminated"]_vars

\* "TerminateServer changes server status to terminated and deallocates IP":
\* the address it frees is the one of the server it terminates.  (The UPDATE
\* finds the row by its id alone: of two requests that terminate a server the
\* slower one frees the address after another server has got it.)
FreesOwnAddress ==
  [][\A r \in Slots :
       At(r, "dealloc") /\ ips'[req[r].ip] # ips[req[r].ip] /\ req'[r] # req[r]
         => ips[req[r].ip].server = req[r].id]_vars

\* "TerminateServer changes server status to terminated and deallocates IP":
\* a request that has written the status and then answers in the middle of the
\* work leaves the server without an address.  (When GetIPAddressByServerID or
\* DeallocateIPAddress fails the address stays taken, and the next request to
\* terminate the server is refused.)
TerminatedOwnNothing ==
  [][\A r \in Slots :
       req[r].pc \in {"getIP", "dealloc"} /\ req'[r].pc = "idle" /\ Serving'
         => \A a \in Addrs : ips'[a].server # req[r].id]_vars

\* "Automatically terminates servers that have been in a `stopped` state for
\* more than 30 minutes."  (The reaper looks at running servers.)
ReapsStoppedServers ==
  [][\A s \in Servers :
       /\ daemon.pc = "reap" /\ daemon'.pc # "reap"
       /\ servers[s].status # "terminated" /\ servers'[s].status = "terminated"
       => servers[s].status = "stopped"]_vars
=============================================================================
