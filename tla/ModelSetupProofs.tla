--------------------------- MODULE ModelSetupProofs ---------------------------
(***************************************************************************)
(* Theorems about ModelSetup, for any number of setups and servers, any URLs *)
(* and any sizes of their files.                                             *)
(***************************************************************************)
EXTENDS ModelSetup, TLAPS

\* What each place in a setup's code implies of its own variables.
Locals ==
  \A p \in Setups :
    /\ pc[p] \in {"start", "exists", "checked"} => pos[p] = 0
    /\ pc[p] \in {"checked", "writing", "closed", "saved"} => url[p] \in Urls
    /\ pc[p] \in {"writing", "closed", "saved"} => pos[p] <= Size[url[p]]
    /\ pc[p] \in {"closed", "saved"} =>
         pos[p] = Size[url[p]] \/ url[p] \notin Sized
    /\ Busy(p) => file[p] \in Files

\* The file of a setup that has not created it is nobody's.
Unused(f) ==
  /\ tmp # f /\ output # f /\ by[f] = None
  /\ \A q \in Setups : file[q] # f

\* A file has its temporary name or has had its final one, not both.
Names ==
  /\ \A p \in Setups : pc[p] \in {"start", "exists", "checked"} => Unused(p)
  /\ tmp # None => by[tmp] = None
  /\ output # None => by[output] # None
  /\ \A f \in Files : by[f] = Installed <=> f = Installed
  /\ \A s \in Servers :
       status[s] = "up" => loaded[s] \in Files /\ by[loaded[s]] # None

\* A setup that is alone owns the temporary file, which has what it wrote.
AloneOwns ==
  \A p \in Setups : Busy(p) /\ p \notin company =>
    /\ tmp # None /\ file[p] = tmp
    /\ data[tmp] = Prefix(url[p], pos[p])
    /\ \A q \in Setups : Busy(q) => q = p

\* A file that was saved by a setup that was alone is as that setup left it, and
\* nobody writes to it.
Kept(f) ==
  /\ \A q \in Setups : Busy(q) => file[q] # f
  /\ \/ f = Installed /\ Whole(f)
     \/ /\ by[f] \in Setups /\ pc[by[f]] = "saved"
        /\ data[f] = Prefix(url[by[f]], pos[by[f]])

SavedIsKept == \A f \in Files : by[f] # None /\ by[f] \notin company => Kept(f)

Inv == TypeOK /\ Locals /\ Names /\ AloneOwns /\ SavedIsKept /\ LoadedIsWhole

-----------------------------------------------------------------------------
(* Contents of files *)

LEMMA PlacesPositive ==
  /\ \A u \in Urls : Size[u] \in Nat /\ Size[u] >= 1 /\ 1 .. Size[u] \subseteq Places
  /\ \A i \in Places : i \in Nat /\ i >= 1
BY SizesPositive DEF Places

LEMMA EmptyPrefix ==
  ASSUME NEW u \in Urls
  PROVE  [i \in Places |-> None] = Prefix(u, 0)
BY PlacesPositive DEF Prefix

LEMMA LongerPrefix ==
  ASSUME NEW u \in Urls, NEW k \in Nat, k < Size[u]
  PROVE  /\ [Prefix(u, k) EXCEPT ![k + 1] = u] = Prefix(u, k + 1)
         /\ k + 1 \in Places
<1>1. k + 1 \in Places
  BY PlacesPositive
<1>2. \A i \in Places : i <= k + 1 <=> i <= k \/ i = k + 1
  BY PlacesPositive
<1> QED  BY <1>1, <1>2 DEF Prefix

LEMMA PrefixTypes ==
  ASSUME NEW u \in Urls, NEW k
  PROVE  Prefix(u, k) \in [Places -> Urls \cup {None}]
BY DEF Prefix

\* What llama.cpp accepts of one download is all of it.
LEMMA LoadablePrefix ==
  ASSUME NEW f \in Files, NEW u \in Urls, NEW k \in Nat, k <= Size[u],
         data[f] = Prefix(u, k), Loadable(f)
  PROVE  k = Size[u]
<1>1. /\ data[f][1] # None
      /\ \E j \in Places : j >= Size[data[f][1]] /\ data[f][j] # None
  BY DEF Loadable
<1>2. 1 \in Places /\ \A j \in Places : data[f][j] # None => j <= k /\ data[f][j] = u
  BY PlacesPositive, NamesDiffer DEF Prefix
<1>3. PICK j \in Places : j >= Size[u] /\ j <= k
  BY <1>1, <1>2
<1> QED  BY <1>3, PlacesPositive

-----------------------------------------------------------------------------
(* The invariant is inductive *)

LEMMA InitInv == Init => Inv
<1> SUFFICES ASSUME Init  PROVE Inv
  OBVIOUS
<1> USE DEF Init, Files
<1>1. PICK u \in Urls :
        data = [f \in Files |-> Prefix(u, IF f = Installed THEN Size[u] ELSE 0)]
  OBVIOUS
<1>2. \A f \in Files : data[f] \in [Places -> Urls \cup {None}]
  BY <1>1, PrefixTypes
<1>3. data \in [Files -> [Places -> Urls \cup {None}]]
  BY <1>1, <1>2
<1>4. Whole(Installed)
  BY <1>1, NamesDiffer DEF Whole
<1>5. TypeOK
  BY <1>3 DEF TypeOK
<1>6. Locals
  BY DEF Locals, Busy
<1>7. Names
  BY NamesDiffer DEF Names, Unused
<1>8. AloneOwns
  BY DEF AloneOwns, Busy
<1>9. SavedIsKept
  BY <1>4, NamesDiffer DEF SavedIsKept, Kept, Busy
<1>10. LoadedIsWhole
  BY DEF LoadedIsWhole
<1> QED  BY <1>5, <1>6, <1>7, <1>8, <1>9, <1>10 DEF Inv

\* What a step that leaves the files and their names alone has to keep.
LEMMA PcStep ==
  ASSUME Inv, NEW p \in Setups, NEW l,
         Goto(p, l), UNCHANGED <<diskVars, file, pos, serverVars, by, company>>,
         url' = url \/ (pc[p] = "start" /\ \E u \in Urls : url' = [url EXCEPT ![p] = u]),
         pc[p] \in {"start", "checked", "writing", "closed"},
         \/ pc[p] = "start" /\ l \in {"exists", "checked"} /\ url'[p] \in Urls
         \/ l \in {"failed", "killed"}
         \/ pc[p] = "writing" /\ l = "closed" /\ AtEnd(p)
         \/ pc[p] = "closed" /\ l = "lost"
  PROVE  Inv'
<1> USE DEF Inv, diskVars, serverVars, Goto
<1>1. TypeOK'
  BY DEF TypeOK
<1>2. Locals'
  BY DEF Locals, TypeOK, Busy, AtEnd
<1>3. Names'
  BY DEF Names, Unused, TypeOK
<1>4. \A q \in Setups : Busy(q)' => Busy(q) /\ url'[q] = url[q]
  BY DEF Busy, TypeOK
<1>5. AloneOwns'
  BY <1>4 DEF AloneOwns, Prefix
<1>6. ASSUME NEW f \in Files, Kept(f), by[f] # None
      PROVE  Kept(f)'
  <2>1. CASE f = Installed /\ Whole(f)
    BY <1>4, <1>6, <2>1 DEF Kept, Whole, Prefix
  <2>2. CASE /\ by[f] \in Setups /\ pc[by[f]] = "saved"
             /\ data[f] = Prefix(url[by[f]], pos[by[f]])
    <3>1. by[f] # p /\ pc'[by[f]] = "saved" /\ url'[by[f]] = url[by[f]]
      BY <2>2 DEF TypeOK
    <3> QED  BY <1>4, <1>6, <2>2, <3>1 DEF Kept, Prefix
  <2> QED  BY <1>6, <2>1, <2>2 DEF Kept
<1>7. SavedIsKept'
  BY <1>6 DEF SavedIsKept
<1>8. LoadedIsWhole'
  BY DEF LoadedIsWhole, Whole, Prefix
<1> QED  BY <1>1, <1>2, <1>3, <1>5, <1>7, <1>8

LEMMA CreateStep ==
  ASSUME Inv, NEW p \in Setups, Create(p)
  PROVE  Inv'
<1> USE DEF Inv, Create, Goto, serverVars
<1>1. /\ tmp' \in Files /\ by[tmp'] = None /\ tmp' # output
      /\ file' = [file EXCEPT ![p] = tmp'] /\ pos[p] = 0 /\ url[p] \in Urls
  BY DEF Opened, Names, Unused, Files, TypeOK, Locals
<1>2. /\ data' \in [Files -> [Places -> Urls \cup {None}]]
      /\ data'[tmp'] = Prefix(url[p], 0)
      /\ \A f \in Files \ {tmp'} : data'[f] = data[f]
  BY <1>1, EmptyPrefix, PrefixTypes DEF Truncated, TypeOK
<1>3. /\ \A q \in Setups : q # p => pc'[q] = pc[q] /\ file'[q] = file[q]
      /\ pc'[p] = "writing" /\ file'[p] = tmp'
      /\ \A q \in Setups : Busy(q)' <=> Busy(q) \/ q = p
      /\ ~Busy(p)
  BY DEF TypeOK, Busy
<1>4. /\ company \subseteq company'
      /\ p \notin company' => \A q \in Setups : ~Busy(q)
      /\ \A q \in Setups : Busy(q) => q \in company'
  OBVIOUS
<1>5. TypeOK'
  BY <1>1, <1>2 DEF TypeOK
<1>6. Locals'
  BY <1>1, <1>3, PlacesPositive DEF Locals, TypeOK, Busy
<1>7. Names'
  <2>1. ASSUME NEW q \in Setups, pc'[q] \in {"start", "exists", "checked"}
        PROVE  Unused(q)'
    <3>1. q # p /\ Unused(q) /\ tmp' # q
      BY <1>3, <2>1 DEF Names, Opened, Unused
    <3> QED  BY <1>3, <3>1 DEF Unused
  <2> QED  BY <1>1, <2>1 DEF Names
<1>8. AloneOwns'
  <2> SUFFICES ASSUME NEW q \in Setups, Busy(q)', q \notin company'
               PROVE  /\ tmp' # None /\ file'[q] = tmp'
                      /\ data'[tmp'] = Prefix(url[q], pos[q])
                      /\ \A r \in Setups : Busy(r)' => r = q
    BY DEF AloneOwns, Prefix
  <2>1. q = p
    BY <1>3, <1>4
  <2>2. tmp' # None
    BY <1>1, NamesDiffer DEF Files
  <2> QED  BY <1>1, <1>2, <1>3, <1>4, <2>1, <2>2
<1>9. ASSUME NEW f \in Files, by[f] # None, by[f] \notin company'
      PROVE  Kept(f) /\ Kept(f)'
  <2>1. f # tmp' /\ data'[f] = data[f] /\ Kept(f)
    BY <1>1, <1>2, <1>4, <1>9 DEF SavedIsKept
  <2>2. \A q \in Setups : Busy(q)' => file'[q] # f
    BY <1>3, <2>1 DEF Kept
  <2>3. CASE f = Installed /\ Whole(f)
    BY <2>1, <2>2, <2>3 DEF Kept, Whole, Prefix
  <2>4. CASE /\ by[f] \in Setups /\ pc[by[f]] = "saved"
             /\ data[f] = Prefix(url[by[f]], pos[by[f]])
    BY <1>3, <2>1, <2>2, <2>4 DEF Kept, Prefix
  <2> QED  BY <2>1, <2>3, <2>4 DEF Kept
<1>10. SavedIsKept'
  BY <1>9 DEF SavedIsKept
<1>11. LoadedIsWhole'
  <2> SUFFICES ASSUME NEW s \in Servers, status[s] = "up", by[loaded[s]] \notin company'
               PROVE  Whole(loaded[s])'
    BY DEF LoadedIsWhole
  <2>1. loaded[s] \in Files /\ loaded[s] # tmp' /\ Whole(loaded[s])
    BY <1>1, <1>4 DEF Names, LoadedIsWhole
  <2> QED  BY <1>2, <2>1 DEF Whole, Prefix
<1> QED  BY <1>5, <1>6, <1>7, <1>8, <1>10, <1>11

LEMMA WriteStep ==
  ASSUME Inv, NEW p \in Setups, Write(p)
  PROVE  Inv'
<1> USE DEF Inv, Write, serverVars
<1>1. /\ Busy(p) /\ file[p] \in Files /\ url[p] \in Urls
      /\ pos[p] \in Nat /\ pos[p] < Size[url[p]] /\ pos[p] + 1 \in Places
      /\ pos' = [pos EXCEPT ![p] = pos[p] + 1]
  BY LongerPrefix DEF Busy, Locals, TypeOK
<1>2. /\ data' = [data EXCEPT ![file[p]] = [data[file[p]] EXCEPT ![pos[p] + 1] = url[p]]]
      /\ data'[file[p]] = [data[file[p]] EXCEPT ![pos[p] + 1] = url[p]]
      /\ \A f \in Files \ {file[p]} : data'[f] = data[f]
  BY <1>1 DEF TypeOK
<1>3. data[file[p]] \in [Places -> Urls \cup {None}]
  BY <1>1 DEF TypeOK
<1>4. TypeOK'
  <2>1. data'[file[p]] \in [Places -> Urls \cup {None}]
    BY <1>1, <1>2, <1>3
  <2>2. data' \in [Files -> [Places -> Urls \cup {None}]]
    BY <1>1, <1>2, <2>1 DEF TypeOK
  <2> QED  BY <1>1, <2>2 DEF TypeOK
<1>5. Locals'
  BY <1>1, PlacesPositive DEF Locals, TypeOK, Busy
<1>6. Names'
  BY DEF Names, Unused
<1>7. AloneOwns'
  <2> SUFFICES ASSUME NEW q \in Setups, Busy(q), q \notin company
               PROVE  /\ tmp # None /\ file[q] = tmp
                      /\ data'[tmp] = Prefix(url[q], pos'[q])
                      /\ \A r \in Setups : Busy(r) => r = q
    BY DEF AloneOwns, Busy, Prefix
  <2>1. /\ q = p /\ tmp # None /\ file[p] = tmp /\ data[tmp] = Prefix(url[p], pos[p])
        /\ \A r \in Setups : Busy(r) => r = q
    BY <1>1 DEF AloneOwns
  <2>2. data'[tmp] = [Prefix(url[p], pos[p]) EXCEPT ![pos[p] + 1] = url[p]]
    BY <1>2, <2>1
  <2>3. data'[tmp] = Prefix(url[p], pos[p] + 1)
    BY <1>1, <2>2, LongerPrefix
  <2>4. pos'[p] = pos[p] + 1
    BY <1>1 DEF TypeOK
  <2> QED  BY <2>1, <2>3, <2>4
<1>8. ASSUME NEW f \in Files, by[f] # None, by[f] \notin company
      PROVE  f # file[p] /\ Kept(f)'
  <2>1. Kept(f) /\ f # file[p] /\ data'[f] = data[f]
    BY <1>1, <1>2, <1>8 DEF SavedIsKept, Kept
  <2>2. CASE f = Installed /\ Whole(f)
    BY <2>1, <2>2 DEF Kept, Whole, Prefix, Busy
  <2>3. CASE /\ by[f] \in Setups /\ pc[by[f]] = "saved"
             /\ data[f] = Prefix(url[by[f]], pos[by[f]])
    <3>1. pos'[by[f]] = pos[by[f]]
      BY <1>1, <2>3 DEF TypeOK
    <3> QED  BY <2>1, <2>3, <3>1 DEF Kept, Prefix, Busy
  <2> QED  BY <2>1, <2>2, <2>3 DEF Kept
<1>9. SavedIsKept'
  BY <1>8 DEF SavedIsKept
<1>10. LoadedIsWhole'
  <2> SUFFICES ASSUME NEW s \in Servers, status[s] = "up", by[loaded[s]] \notin company
               PROVE  Whole(loaded[s])'
    BY DEF LoadedIsWhole
  <2>1. loaded[s] \in Files /\ by[loaded[s]] # None /\ Whole(loaded[s])
    BY DEF Names, LoadedIsWhole
  <2>2. loaded[s] # file[p]
    BY <1>8, <2>1
  <2> QED  BY <1>2, <2>1, <2>2 DEF Whole, Prefix
<1> QED  BY <1>4, <1>5, <1>6, <1>7, <1>9, <1>10

LEMMA RenameStep ==
  ASSUME Inv, NEW p \in Setups, Rename(p), tmp # None
  PROVE  Inv'
<1> USE DEF Inv, Rename, Goto, serverVars
<1>1. /\ tmp \in Files /\ by[tmp] = None /\ Busy(p)
      /\ by'[tmp] = p /\ \A f \in Files \ {tmp} : by'[f] = by[f]
  BY DEF TypeOK, Names, Busy
<1>2. /\ pc'[p] = "saved" /\ \A q \in Setups : q # p => pc'[q] = pc[q]
      /\ \A q \in Setups : Busy(q)' <=> Busy(q) /\ q # p
  BY DEF TypeOK, Busy
<1>3. TypeOK'
  BY <1>1 DEF TypeOK, Files
<1>4. Locals'
  BY <1>2 DEF Locals, Busy, TypeOK
<1>5. Names'
  <2>1. \A f \in Files : by'[f] = Installed <=> f = Installed
    BY <1>1, NamesDiffer DEF Names, Files
  <2>2. by'[tmp] # None
    BY <1>1, NamesDiffer
  <2>3. ASSUME NEW q \in Setups, pc'[q] \in {"start", "exists", "checked"}
        PROVE  Unused(q)'
    <3>1. Unused(q) /\ q # tmp /\ q \in Files /\ q # None
      BY <1>1, <1>2, <2>3, NamesDiffer DEF Names, Unused, Files
    <3> QED  BY <1>1, <3>1 DEF Unused
  <2>4. \A s \in Servers :
          status'[s] = "up" => loaded'[s] \in Files /\ by'[loaded'[s]] # None
    BY <1>1, <2>2 DEF Names
  <2> QED  BY <1>1, <2>1, <2>2, <2>3, <2>4 DEF Names
<1>6. AloneOwns'
  BY <1>1, <1>2 DEF AloneOwns
<1>7. ASSUME NEW f \in Files, by'[f] # None, by'[f] \notin company
      PROVE  Kept(f)'
  <2>1. CASE f = tmp
    <3>1. /\ data[tmp] = Prefix(url[p], pos[p]) /\ \A q \in Setups : Busy(q) => q = p
          /\ by'[f] = p
      BY <1>1, <1>7, <2>1 DEF AloneOwns
    <3> QED  BY <1>2, <2>1, <3>1 DEF Kept, Prefix
  <2>2. CASE f # tmp
    <3>1. Kept(f) /\ by'[f] = by[f]
      BY <1>1, <1>7, <2>2 DEF SavedIsKept
    <3>2. \A q \in Setups : Busy(q)' => file[q] # f
      BY <1>2, <3>1 DEF Kept
    <3>3. CASE f = Installed /\ Whole(f)
      BY <3>2, <3>3 DEF Kept, Whole, Prefix
    <3>4. CASE /\ by[f] \in Setups /\ pc[by[f]] = "saved"
               /\ data[f] = Prefix(url[by[f]], pos[by[f]])
      BY <1>2, <3>1, <3>2, <3>4 DEF Kept, Prefix
    <3> QED  BY <3>1, <3>3, <3>4 DEF Kept
  <2> QED  BY <2>1, <2>2
<1>8. SavedIsKept'
  BY <1>7 DEF SavedIsKept
<1>9. LoadedIsWhole'
  <2> SUFFICES ASSUME NEW s \in Servers, status[s] = "up", by'[loaded[s]] \notin company
               PROVE  Whole(loaded[s])'
    BY DEF LoadedIsWhole
  <2>1. loaded[s] \in Files \ {tmp}
    BY <1>1 DEF Names
  <2>2. Whole(loaded[s])
    BY <1>1, <2>1 DEF LoadedIsWhole
  <2> QED  BY <2>2 DEF Whole, Prefix
<1> QED  BY <1>3, <1>4, <1>5, <1>6, <1>8, <1>9

\* What was saved by a setup that was alone, and loads, is whole.
LEMMA LoadableIsWhole ==
  ASSUME Inv, NEW f \in Files, by[f] # None, by[f] \notin company, Loadable(f)
  PROVE  Whole(f)
<1> USE DEF Inv
<1>1. Kept(f) /\ f # None
  BY NamesDiffer DEF SavedIsKept, Files
<1>2. CASE /\ by[f] \in Setups /\ pc[by[f]] = "saved"
           /\ data[f] = Prefix(url[by[f]], pos[by[f]])
  <2>1. /\ url[by[f]] \in Urls /\ pos[by[f]] \in Nat
        /\ pos[by[f]] <= Size[url[by[f]]]
    BY <1>2 DEF Locals, TypeOK
  <2>2. pos[by[f]] = Size[url[by[f]]]
    BY <1>2, <2>1, LoadablePrefix
  <2> QED  BY <1>1, <1>2, <2>1, <2>2 DEF Whole
<1> QED  BY <1>1, <1>2 DEF Kept

LEMMA ServerStep ==
  ASSUME Inv, NEW s \in Servers, Start(s) \/ Stop(s)
  PROVE  Inv'
<1> USE DEF Inv, Start, Stop, diskVars, setupVars
<1>1. UNCHANGED <<diskVars, setupVars, by, company>>
  OBVIOUS
<1>2. TypeOK'
  BY DEF TypeOK
<1>3. Locals' /\ AloneOwns' /\ SavedIsKept'
  BY <1>1 DEF Locals, AloneOwns, SavedIsKept, Kept, Whole, Prefix, Busy
<1>4. Names'
  BY <1>1 DEF Names, Unused, TypeOK
<1>5. LoadedIsWhole'
  <2> SUFFICES ASSUME NEW t \in Servers, status'[t] = "up", by[loaded'[t]] \notin company
               PROVE  Whole(loaded'[t])
    BY <1>1 DEF LoadedIsWhole, Whole, Prefix
  <2>1. CASE status[t] = "up" /\ loaded'[t] = loaded[t]
    BY <2>1 DEF LoadedIsWhole
  <2>2. CASE loaded'[t] = output /\ output # None /\ Loadable(output)
    <3>1. output \in Files /\ by[output] # None
      BY <2>2 DEF TypeOK, Names
    <3> QED  BY <2>2, <3>1, LoadableIsWhole
  <2> QED  BY <2>1, <2>2 DEF TypeOK
<1> QED  BY <1>2, <1>3, <1>4, <1>5

LEMMA Stutter == ASSUME Inv, UNCHANGED vars  PROVE Inv'
<1> USE DEF vars, diskVars, setupVars, serverVars
<1>1. TypeOK' /\ Locals' /\ Names' /\ AloneOwns'
  BY DEF Inv, TypeOK, Locals, Names, Unused, AloneOwns, Busy, Prefix
<1>2. SavedIsKept' /\ LoadedIsWhole'
  BY DEF Inv, SavedIsKept, Kept, LoadedIsWhole, Whole, Prefix, Busy
<1> QED  BY <1>1, <1>2 DEF Inv

LEMMA NextInv == Inv /\ [Next]_vars => Inv'
<1> SUFFICES ASSUME Inv, [Next]_vars  PROVE Inv'
  OBVIOUS
<1> USE DEF diskVars, setupVars, serverVars
<1>1. ASSUME NEW p \in Setups, Begin(p) \/ Kill(p) \/ RequestFails(p)
                                \/ StreamFails(p) \/ StreamEnds(p)
      PROVE  Inv'
  <2>1. CASE Begin(p)
    <3> DEFINE l == IF output # None /\ pc'[p] = "exists" THEN "exists" ELSE "checked"
    <3>1. Goto(p, l) /\ l \in {"exists", "checked"} /\ url'[p] \in Urls
      BY <2>1 DEF Begin, Goto, Inv, TypeOK
    <3> HIDE DEF l
    <3> QED  BY <2>1, <3>1, PcStep DEF Begin
  <2>2. CASE Kill(p)
    BY <2>2, PcStep DEF Kill
  <2>3. CASE RequestFails(p)
    BY <2>3, PcStep DEF RequestFails
  <2>4. CASE StreamFails(p)
    BY <2>4, PcStep DEF StreamFails
  <2>5. CASE StreamEnds(p)
    BY <2>5, PcStep DEF StreamEnds
  <2> QED  BY <1>1, <2>1, <2>2, <2>3, <2>4, <2>5
<1>2. ASSUME NEW p \in Setups, Rename(p)  PROVE Inv'
  <2>1. CASE tmp = None
    BY <1>2, <2>1, PcStep DEF Rename
  <2> QED  BY <1>2, <2>1, RenameStep
<1>3. ASSUME NEW p \in Setups, Create(p) \/ Write(p)  PROVE Inv'
  BY <1>3, CreateStep, WriteStep
<1>4. ASSUME NEW s \in Servers, Start(s) \/ Stop(s)  PROVE Inv'
  BY <1>4, ServerStep
<1>5. CASE UNCHANGED vars
  BY <1>5, Stutter
<1> QED  BY <1>1, <1>2, <1>3, <1>4, <1>5 DEF Next, Download

LEMMA Invariance == Spec => []Inv
BY InitInv, NextInv, PTL DEF Spec

-----------------------------------------------------------------------------

\* The variables keep their types.
THEOREM SetupTyping == Spec => []TypeOK
BY Invariance, PTL DEF Inv

\* What a setup saved that had no company is whole, or was cut without the stream
\* telling (setup.rs:92-102), whatever earlier setups left behind.
THEOREM InstalledWhole == Spec => []InstalledIsWhole
<1>1. ASSUME Inv, output # None, by[output] \notin company
      PROVE  Whole(output) \/ (Cut(by[output]) /\ url[by[output]] \notin Sized)
  <2>1. output \in Files /\ Kept(output)
    BY <1>1 DEF Inv, TypeOK, Names, SavedIsKept
  <2>2. CASE /\ by[output] \in Setups /\ pc[by[output]] = "saved"
             /\ data[output] = Prefix(url[by[output]], pos[by[output]])
    <3> DEFINE p == by[output]
    <3>1. /\ url[p] \in Urls /\ pos[p] \in Nat /\ pos[p] <= Size[url[p]]
          /\ pos[p] = Size[url[p]] \/ url[p] \notin Sized
      BY <1>1, <2>2 DEF Inv, Locals, TypeOK
    <3>2. CASE pos[p] = Size[url[p]]
      BY <1>1, <2>2, <3>1, <3>2 DEF Whole
    <3>3. CASE pos[p] # Size[url[p]]
      BY <2>2, <3>1, <3>3, PlacesPositive DEF Cut
    <3> QED  BY <3>2, <3>3
  <2> QED  BY <2>1, <2>2 DEF Kept
<1>2. Inv => InstalledIsWhole
  BY <1>1 DEF InstalledIsWhole
<1> QED  BY <1>2, Invariance, PTL

\* No setup, forced, failed or killed, disturbs a server that has the model mapped,
\* unless two setups shared the temporary file (setup.rs:88-102, model.rs:59).
THEOREM LoadedWhole == Spec => []LoadedIsWhole
BY Invariance, PTL DEF Inv

=============================================================================
