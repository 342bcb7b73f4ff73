------------------------------ MODULE ModelSetup ------------------------------
(***************************************************************************)
(* The model file on disk.  `ut setup` downloads it under a temporary name   *)
(* and renames it (src/translator-cli/src/commands/setup.rs); a server that  *)
(* starts loads what it finds under the final name                           *)
(* (src/translator-api/src/main.rs, src/translator-core/src/model.rs).       *)
(*                                                                          *)
(* Any number of setups use the same two names, and each may be killed       *)
(* between any two steps.  A file is an inode: whoever has it open goes on   *)
(* writing to it under whatever name it has by then.                         *)
(***************************************************************************)
EXTENDS Integers, FiniteSets

CONSTANTS
  Setups,     \* the runs of `ut setup` with one output path
  Servers,    \* the processes that load the model
  Urls,       \* what may be downloaded
  Size,       \* the number of chunks of the file behind each URL
  Sized,      \* the URLs whose response tells a whole body from a cut one
  Installed,  \* a model file from before, whole
  None        \* no file, no URL, a chunk that was not written

ASSUME SizesPositive == Size \in [Urls -> Nat \ {0}] /\ Sized \subseteq Urls
ASSUME NamesDiffer ==
  /\ None \notin Setups \cup Urls /\ Installed \notin Setups /\ Installed # None

VARIABLES
  output,   \* the file under the final name
  tmp,      \* the file under the temporary name
  data,     \* the chunks of each file, by the URL that each came from
  pc,       \* where each setup is
  url,      \* what each setup downloads
  file,     \* the file that each setup has opened
  pos,      \* how many chunks each setup has written
  status,   \* the servers
  loaded,   \* the file that each server has mapped into memory
  by,       \* history: who gave each file its final name
  company   \* history: the setups that were not alone between open and rename

diskVars == <<output, tmp, data>>
setupVars == <<pc, url, file, pos>>
serverVars == <<status, loaded>>
vars == <<diskVars, setupVars, serverVars, by, company>>

\* A file is called after the setup that created it.
Files == Setups \cup {Installed}
Places == UNION {1 .. Size[u] : u \in Urls}

\* The first k chunks of the file behind u, and nothing else.
Prefix(u, k) == [i \in Places |-> IF i <= k THEN u ELSE None]
Whole(f) == f # None /\ \E u \in Urls : data[f] = Prefix(u, Size[u])

Init ==
  /\ output \in {None, Installed} /\ tmp = None
  /\ \E u \in Urls :
       data = [f \in Files |-> Prefix(u, IF f = Installed THEN Size[u] ELSE 0)]
  /\ pc = [p \in Setups |-> "start"] /\ url = [p \in Setups |-> None]
  /\ file = [p \in Setups |-> None] /\ pos = [p \in Setups |-> 0]
  /\ status = [s \in Servers |-> "down"] /\ loaded = [s \in Servers |-> None]
  /\ by = [f \in Files |-> IF f = Installed THEN Installed ELSE None]
  /\ company = {}

Goto(p, l) == pc' = [pc EXCEPT ![p] = l]

-----------------------------------------------------------------------------
(* ut setup *)

\* The file is there, and that is enough; or --force; or it is not there.
Begin(p) ==
  /\ pc[p] = "start"
  /\ \E u \in Urls, force \in BOOLEAN :
       /\ url' = [url EXCEPT ![p] = u]
       /\ Goto(p, IF output # None /\ ~force THEN "exists" ELSE "checked")
  /\ UNCHANGED <<diskVars, file, pos, serverVars, by, company>>

\* No connection, an error status, or no permission to create the file.
RequestFails(p) ==
  /\ pc[p] = "checked" /\ Goto(p, "failed")
  /\ UNCHANGED <<diskVars, url, file, pos, serverVars, by, company>>

Busy(p) == pc[p] \in {"writing", "closed"}

OpenInPlace(p) == IF output # None THEN output ELSE p  \* mutant
\* File::create takes the file that has the temporary name, or makes one.
Opened(p) == IF tmp # None THEN tmp ELSE p

KeepOldBytes(f) == data[f]  \* mutant
Truncated(f) == [i \in Places |-> None]

Create(p) ==
  /\ pc[p] = "checked" /\ Goto(p, "writing")
  /\ tmp' = Opened(p)
  /\ file' = [file EXCEPT ![p] = tmp']
  /\ data' = [data EXCEPT ![tmp'] = Truncated(tmp')]
  /\ LET others == {q \in Setups : Busy(q)}
     IN  company' = company \cup others \cup (IF others = {} THEN {} ELSE {p})
  /\ UNCHANGED <<output, url, pos, serverVars, by>>

\* write_all puts the next chunk at the setup's own offset.
Write(p) ==
  /\ pc[p] = "writing" /\ pos[p] < Size[url[p]]
  /\ pos' = [pos EXCEPT ![p] = @ + 1]
  /\ data' = [data EXCEPT ![file[p]][pos[p] + 1] = url[p]]
  /\ UNCHANGED <<output, tmp, pc, url, file, serverVars, by, company>>

\* The connection or the disk fails; the temporary file stays.
StreamFails(p) ==
  /\ pc[p] = "writing" /\ Goto(p, "failed")
  /\ UNCHANGED <<diskVars, url, file, pos, serverVars, by, company>>

EndAnywhere(p) == TRUE  \* mutant
\* A body of a stated length that ends early is an error; the end of any other
\* is the end of the connection, whatever was missing.
AtEnd(p) == pos[p] = Size[url[p]] \/ url[p] \notin Sized

StreamEnds(p) ==
  /\ pc[p] = "writing" /\ AtEnd(p) /\ Goto(p, "closed")
  /\ UNCHANGED <<diskVars, url, file, pos, serverVars, by, company>>

\* The temporary name, whatever file has it now, becomes the final one; it is an
\* error if no file has it.
Rename(p) ==
  /\ pc[p] = "closed"
  /\ IF tmp = None
     THEN Goto(p, "lost") /\ UNCHANGED <<output, tmp, by>>
     ELSE /\ output' = tmp /\ tmp' = None
          /\ by' = [by EXCEPT ![tmp] = p]
          /\ Goto(p, "saved")
  /\ UNCHANGED <<data, url, file, pos, serverVars, company>>

Kill(p) ==
  /\ pc[p] \in {"checked", "writing", "closed"} /\ Goto(p, "killed")
  /\ UNCHANGED <<diskVars, url, file, pos, serverVars, by, company>>

Download(p) ==
  RequestFails(p) \/ Create(p) \/ Write(p) \/ StreamFails(p) \/ StreamEnds(p)
  \/ Rename(p)

-----------------------------------------------------------------------------
(* A server *)

\* llama.cpp needs the header, and a file as long as the header says; it does
\* not look at the bytes between, which it maps into memory.
Loadable(f) ==
  LET u == data[f][1] IN
    u # None /\ \E k \in Places : k >= Size[u] /\ data[f][k] # None

\* The engine loads the model; ModelNotFound and a model that does not load end
\* the process.
Start(s) ==
  /\ status[s] # "up"
  /\ \/ /\ output = None
        /\ status' = [status EXCEPT ![s] = "no_model"]
        /\ UNCHANGED loaded
     \/ /\ output # None /\ ~Loadable(output)
        /\ status' = [status EXCEPT ![s] = "bad_model"]
        /\ UNCHANGED loaded
     \/ /\ output # None /\ Loadable(output)
        /\ status' = [status EXCEPT ![s] = "up"]
        /\ loaded' = [loaded EXCEPT ![s] = output]
  /\ UNCHANGED <<diskVars, setupVars, by, company>>

Stop(s) ==
  /\ status[s] = "up"
  /\ status' = [status EXCEPT ![s] = "down"]
  /\ loaded' = [loaded EXCEPT ![s] = None]
  /\ UNCHANGED <<diskVars, setupVars, by, company>>

-----------------------------------------------------------------------------

Next ==
  \/ \E p \in Setups : Begin(p) \/ Download(p) \/ Kill(p)
  \/ \E s \in Servers : Start(s) \/ Stop(s)

Spec == Init /\ [][Next]_vars

\* A setup goes on when it can; the bytes keep coming, as there is no time limit
\* to make up for it if they do not.
FairSpec == Spec /\ \A p \in Setups : WF_vars(Download(p))

-----------------------------------------------------------------------------

\* The types, and that names are names of files.
TypeOK ==
  /\ output \in Files \cup {None} /\ tmp \in Files \cup {None}
  /\ data \in [Files -> [Places -> Urls \cup {None}]]
  /\ pc \in [Setups -> {"start", "exists", "checked", "writing", "closed", "saved",
                        "failed", "lost", "killed"}]
  /\ url \in [Setups -> Urls \cup {None}]
  /\ file \in [Setups -> Files \cup {None}]
  /\ pos \in [Setups -> Nat]
  /\ status \in [Servers -> {"down", "up", "no_model", "bad_model"}]
  /\ loaded \in [Servers -> Files \cup {None}]
  /\ by \in [Files -> Files \cup {None}] /\ company \subseteq Setups

\* The download of p ended before the file did.
Cut(p) == p \in Setups /\ pos[p] < Size[url[p]]

\* What a setup saved that was alone is the whole model, whatever setups before
\* it left under the temporary name; only a download without a stated length may
\* be cut.  `ut setup` takes the file's existence for that (setup.rs:31).
InstalledIsWhole ==
  output # None /\ by[output] \notin company =>
    Whole(output) \/ (Cut(by[output]) /\ url[by[output]] \notin Sized)

\* The file that a server has mapped is a whole model as long as the server runs:
\* no setup, forced, failed or killed, touches it, unless two shared the temporary
\* file (setup.rs:88-102).  A cut model is refused when it is loaded.
LoadedIsWhole ==
  \A s \in Servers :
    status[s] = "up" /\ by[loaded[s]] \notin company => Whole(loaded[s])

\* Nothing but time goes wrong: every setup downloads the same, to its end.
Calm ==
  \A p, q \in Setups :
    /\ pc[p] \notin {"failed", "killed"}
    /\ url[p] \in Sized \cup {None}
    /\ url[p] # None /\ url[q] # None => url[p] = url[q]

\* Setups that share the temporary file repair each other: each one truncates it
\* and then writes all of it, so that the last one leaves a whole model, though
\* it may report an error (setup.rs:102).
SetupsHeal ==
  []Calm => ((\E p \in Setups : Busy(p)) ~>
               (Whole(output) /\ \A p \in Setups : ~Busy(p)))

=============================================================================
