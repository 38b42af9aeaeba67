------------------------------ MODULE Desktop ------------------------------
(***************************************************************************)
(* The desktop client: App of vlyness-gui/main.rs with its settings file   *)
(* and its list of profiles, the Controller it starts and stops, the task  *)
(* that runs under the Controller, and the Reporter between that task and  *)
(* the window (vlyness-cli/client.rs).                                     *)
(*                                                                         *)
(* The window's thread handles one event at a time; the task and the file  *)
(* system move in between.  A file's content is the name of a profile of   *)
(* the library.  The task is told in full by ClientSupervisor; here it is  *)
(* what the window can see of it.  Log lines are numbers.                  *)
(***************************************************************************)
EXTENDS Profiles, SequencesExt

CONSTANTS
    Names,        \* the contents a profile file may have
    Library,      \* the profile each of them describes
    Paths,        \* files the user may choose
    PastePath,    \* the file of the profiles directory that pasted profiles go to: their
                  \* ids are equal after sanitize
    NoFile,       \* the file is missing or cannot be parsed
    LogCap,       \* LOG_CAP of client.rs and the 500 of main.rs
    MaxLines      \* bound: lines a task logs

ASSUME DesktopAssumption ==
    /\ NoFile \notin Names /\ PastePath \in Paths
    /\ LogCap \in Nat \ {0} /\ MaxLines \in Nat
    /\ DOMAIN Library = Names

VARIABLES
    files,        \* content of each file
    stored,       \* Settings.profile_paths on disk, <<>> for a file load_settings cannot read
    open,         \* the window is open
    list,         \* App.profiles: path and content as loaded
    task,         \* the Controller's task: "none" (no Controller), "running" or "ended"
    using,        \* the profiles it was started with
    link,         \* StatusInner.state
    dialed,       \* how the task dialed last, and from which profile
    next_seq,     \* LogBuf.next_seq
    shown,        \* App.status.state
    log,          \* App.log
    log_since,    \* App.log_since
    wanted,       \* history: the paths the user has added and not removed; OpenApp and
                  \* Save say when the program forgets some
    missing,      \* history: stored paths that did not load when the window was opened
    unsaved       \* history: the last save did not go through

NoDial == [from |-> NoFile, mode |-> "none", ech |-> "none"]

app  == <<open, list>>
run  == <<task, using, link, dialed, next_seq>>
view == <<shown, log, log_since>>
history == <<wanted, missing, unsaved>>
vars == <<files, stored, app, run, view, history>>

Entries    == [path : Paths, name : Names]
LinkStates == {"idle", "connecting", "up", "frozen", "switching", "stopped", "error"}

TypeOK ==
    /\ files \in [Paths -> Names \cup {NoFile}]
    /\ stored \in Seq(Paths) /\ IsInjective(stored)
    /\ open \in BOOLEAN /\ list \in Seq(Entries)
    /\ task \in {"none", "running", "ended"} /\ using \subseteq Names
    /\ link \in LinkStates /\ shown \in LinkStates
    /\ dialed.from \in Names \cup {NoFile} /\ dialed.ech \in {"none", "grease", "real"}
    /\ next_seq \in 0..MaxLines /\ log_since \in 0..MaxLines /\ Len(log) <= LogCap
    /\ wanted \subseteq Paths /\ missing \subseteq Paths /\ unsaved \in BOOLEAN

-----------------------------------------------------------------------------
Init ==
    /\ files \in [Paths -> Names \cup {NoFile}]
    /\ stored = <<>> /\ open = FALSE /\ list = <<>>
    /\ task = "none" /\ using = {} /\ link = "idle" /\ dialed = NoDial /\ next_seq = 0
    /\ shown = "idle" /\ log = <<>> /\ log_since = 0
    /\ wanted = {} /\ missing = {} /\ unsaved = FALSE

\* load_profile: the file parses and its profile passes validate.
Loads(path) == files[path] # NoFile /\ Coherent(Library[files[path]])

Loaded(path) == [path |-> path, name |-> files[path]]

PathsOf(entries) == [i \in DOMAIN entries |-> entries[i].path]

Listed(path) == path \in ToSet(PathsOf(list))

\* persist and save_settings: the settings file gets the paths of the list, and no others.
\* Every error is ignored: the file stays as it is if it cannot be opened, and is left
\* truncated if it cannot be written, as it is if the program dies in between.
Persist(entries) ==
    \/ stored' = PathsOf(entries) /\ unsaved' = FALSE
    \/ stored' \in {stored, <<>>} /\ unsaved' = TRUE

\* persist, and its history: want is what the user wants from now on, gone what of it did not
\* load, which a save that goes through forgets.
Save(entries, want, gone) ==
    /\ Persist(entries)
    /\ wanted' = (IF unsaved' THEN want ELSE want \ gone)
    /\ missing' = (IF unsaved' THEN gone ELSE {})

\* Files come, go and change under the running program.
FileChanges(path, content) ==
    /\ files[path] # content
    /\ files' = [files EXCEPT ![path] = content]
    /\ UNCHANGED <<stored, app, run, view, history>>

-----------------------------------------------------------------------------
(* The window *)

\* A new Reporter and a new task; the log starts afresh.
StartTask(entries) ==
    /\ task' = "running" /\ using' = {entries[i].name : i \in DOMAIN entries}
    /\ link' = "idle" /\ dialed' = NoDial /\ next_seq' = 0
    /\ log' = <<>> /\ log_since' = 0

\* The stored paths whose profiles load_profile still accepts.
Loadable == {i \in DOMAIN stored : Loads(stored[i])}

\* App::new: the stored profiles, in their order, but for those that do not load, which are
\* reported and left out of the list.  After a save that did not go through the user starts
\* over from what the file holds.
OpenApp(autostart) ==
    \E pick \in [1..Cardinality(Loadable) -> Loadable] :
        LET entries == [j \in DOMAIN pick |-> Loaded(stored[pick[j]])]
            want == IF unsaved THEN ToSet(stored) ELSE wanted
            gone == {stored[i] : i \in DOMAIN stored \ Loadable}
        IN
        /\ \A j, k \in DOMAIN pick : j < k => pick[j] < pick[k]
        /\ ~open /\ open' = TRUE
        /\ list' = entries
        /\ IF autostart /\ entries # <<>>
           THEN StartTask(entries) /\ Save(entries, want, gone) /\ UNCHANGED shown
           ELSE /\ wanted' = want /\ missing' = gone /\ unsaved' = FALSE
                /\ UNCHANGED <<stored, run, view>>
        /\ UNCHANGED files

\* The process ends, the Controller's runtime with it.
CloseApp ==
    /\ open /\ open' = FALSE
    /\ list' = <<>> /\ task' = "none" /\ using' = {} /\ link' = "idle" /\ dialed' = NoDial
    /\ next_seq' = 0 /\ shown' = "idle" /\ log' = <<>> /\ log_since' = 0
    /\ missing' = {}
    /\ UNCHANGED <<files, stored, wanted, unsaved>>

\* Mutant: the list on disk waits for the next change.
AddUnsaved(path) ==
    /\ open /\ ~Listed(path) /\ Loads(path)
    /\ list' = Append(list, Loaded(path))
    /\ wanted' = wanted \cup {path} /\ missing' = missing \ {path}
    /\ UNCHANGED <<files, stored, open, run, view, unsaved>>

\* try_add_path, from the dialog or by drag and drop, which works while connected too.
AddPath(path) ==
    /\ open /\ ~Listed(path) /\ Loads(path)
    /\ list' = Append(list, Loaded(path))
    /\ Save(list', wanted \cup {path}, missing \ {path})
    /\ UNCHANGED <<files, open, run, view>>

\* add_from_paste: the text goes to a file named after its id; a profile that is already
\* listed under that file stays as it was loaded.  Where the file cannot be written nothing
\* else happens, and FileChanges tells it.
Paste(name) ==
    /\ open /\ task = "none" /\ Coherent(Library[name])
    /\ files' = [files EXCEPT ![PastePath] = name]
    /\ IF Listed(PastePath)
       THEN UNCHANGED <<stored, list, history>>
       ELSE /\ list' = Append(list, [path |-> PastePath, name |-> name])
            /\ Save(list', wanted \cup {PastePath}, missing \ {PastePath})
    /\ UNCHANGED <<open, run, view>>

RemoveEntry(i) ==
    /\ open /\ task = "none"
    /\ list' = RemoveAt(list, i)
    /\ Save(list', wanted \ {list[i].path}, missing)
    /\ UNCHANGED <<files, open, run, view>>

Clear ==
    /\ open /\ task = "none" /\ list # <<>>
    /\ list' = <<>> /\ Save(<<>>, {}, missing)
    /\ UNCHANGED <<files, open, run, view>>

\* The reference host or the autostart box: the settings are saved, the list with them.
EditSettings ==
    /\ open /\ task = "none"
    /\ Save(list, wanted, missing)
    /\ UNCHANGED <<files, app, run, view>>

\* Mutant: the log is cleared and the cursor stays.
ConnectKeepsCursor ==
    /\ open /\ task = "none" /\ list # <<>>
    /\ task' = "running" /\ using' = {list[i].name : i \in DOMAIN list}
    /\ link' = "idle" /\ dialed' = NoDial /\ next_seq' = 0
    /\ log' = <<>>
    /\ Save(list, wanted, missing)
    /\ UNCHANGED <<files, app, shown, log_since>>

Connect ==
    /\ open /\ task = "none" /\ list # <<>>
    /\ StartTask(list)
    /\ Save(list, wanted, missing)
    /\ UNCHANGED <<files, app, shown>>

\* The runtime cannot be built.
ConnectFails ==
    /\ open /\ task = "none" /\ list # <<>>
    /\ log' = <<>> /\ log_since' = 0
    /\ Save(list, wanted, missing)
    /\ UNCHANGED <<files, app, run, shown>>

\* stop waits for the task, and takes the runtime down whether it came or not.
Disconnect ==
    /\ open /\ task # "none"
    /\ task' = "none" /\ using' = {}
    /\ shown' = "idle"
    /\ UNCHANGED <<files, stored, app, link, dialed, next_seq, log, log_since, history>>

\* logs_since: the lines of the ring from a number on.
LogsSince(since) ==
    LET first == IF next_seq - LogCap > since THEN next_seq - LogCap ELSE since
    IN  [i \in 1..(next_seq - first) |-> first + i - 1]

\* The window keeps the last LogCap lines.
Newest(lines) == SubSeq(lines, 1 + (IF Len(lines) > LogCap THEN Len(lines) - LogCap ELSE 0), Len(lines))

\* poll, at every repaint.  The Controller of a task that has ended is kept.
Poll ==
    /\ open /\ task # "none"
    /\ shown' = link
    /\ log' = Newest(log \o LogsSince(log_since)) /\ log_since' = next_seq
    /\ UNCHANGED <<files, stored, app, run, history>>

-----------------------------------------------------------------------------
(* The task, as far as the Reporter shows it *)

Logs(n) == next_seq' = (IF next_seq + n < MaxLines THEN next_seq + n ELSE MaxLines)

Background == UNCHANGED <<files, stored, app, using, view, history>>

\* CarrierPool::new and resolve_from_profile let every profile through.
Usable == \A name \in using : Library[name].endpoint.given

\* The pool is built, a carrier resolved and dialed: the first time, after a drop, after a
\* silence or after a rotation; establish answers, or not.
Dial(name, dns) ==
    /\ task = "running" /\ Usable /\ name \in using
    /\ link # "idle" \/ \A other \in using : Cost(Library[name]) <= Cost(Library[other])
    /\ dialed' = [from |-> name, mode |-> Dialed(Library[name], dns).mode,
                  ech |-> Dialed(Library[name], dns).ech]
    /\ link' \in {"connecting", "up"}
    /\ Logs(1)
    /\ UNCHANGED task /\ Background

\* The tunnel breaks: a line is logged and the state stays as it was, or a silence, or a
\* change of carrier, is shown.
LinkLost ==
    /\ task = "running" /\ link \in {"connecting", "up", "frozen"}
    /\ link' \in {link, "frozen", "switching"}
    /\ Logs(1)
    /\ UNCHANGED <<task, dialed>> /\ Background

\* run returns an error: at its start for a profile without endpoint, a carrier that does
\* not resolve or an address that is taken, later for the carrier a rotation comes to.
Fatal ==
    /\ task = "running" /\ link \in {"idle", "switching"}
    /\ task' = "ended" /\ link' = "error"
    /\ Logs(1)
    /\ UNCHANGED dialed /\ Background

Next ==
    \/ \E path \in Paths : \/ AddPath(path)
                           \/ \E content \in Names \cup {NoFile} : FileChanges(path, content)
    \/ \E autostart \in BOOLEAN : OpenApp(autostart)
    \/ CloseApp \/ Clear \/ EditSettings \/ Connect \/ ConnectFails \/ Disconnect \/ Poll
    \/ \E i \in 1..Len(list) : RemoveEntry(i)
    \/ \E name \in Names : Paste(name) \/ \E dns \in BOOLEAN : Dial(name, dns)
    \/ LinkLost \/ Fatal

Spec == Init /\ [][Next]_vars

-----------------------------------------------------------------------------
(* Properties *)

\* What the user added and did not remove is listed, except what did not load at the start
\* of this window, whatever became of the saves in between; and it is stored whenever the
\* last save went through, although earlier ones had failed or torn the file.
KeptUnlessRemoved ==
    /\ open => ToSet(PathsOf(list)) = wanted \ missing
    /\ ~unsaved => ToSet(stored) = wanted

\* The window shows the newest lines of the log, all of them and in order, however many the
\* ring lost between two polls and however often the user reconnects.
NewestLinesShown ==
    LET first == IF log_since > LogCap THEN log_since - LogCap ELSE 0
    IN  task # "none" => log = [i \in 1..(log_since - first) |-> first + i - 1]

\* Where a profile that passed validate says that the name on the wire decides, a stream
\* carrier is never dialed in the clear: validate, the resolver's fallbacks and the choice
\* of the TLS configuration agree.
NameHidden ==
    dialed # NoDial /\ NeedsEch(Library[dialed.from]) /\ dialed.mode # "datagram"
        => dialed.ech = "real"
=============================================================================
