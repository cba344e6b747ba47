-------------------------------- MODULE Notify --------------------------------
(***************************************************************************)
(* How a game's identity reaches the game and its message reaches the      *)
(* screen, through two files in the work folder:                           *)
(*                                                                         *)
(*   GAME_INFO_PATH              written by the hook in the VSH when a     *)
(*                               game is launched, read by the game        *)
(*   GAME_PATCH_NOTIFY_MSG_FILE  created by the hook with one CHECK_BYTE,  *)
(*                               overwritten or deleted by the game, shown *)
(*                               and deleted by notify_thread in the VSH   *)
(*                                                                         *)
(* The VSH plugin (game_patch_vsh_data/prx.cpp) starts two threads at the  *)
(* same time: run_patch, which deletes both files and installs the hook,   *)
(* and notify_thread. Threads, hook and game interleave freely; the sleeps *)
(* order nothing. Files survive a restart of the VSH, threads do not.      *)
(***************************************************************************)
EXTENDS Naturals

CONSTANTS
    MaxBoots,    \* bound on the starts of the VSH
    MaxLaunches, \* bound on the launches of a game
    HookFaults   \* the hook may find no game interface, or fail on its files

ASSUME NotifyAssumption ==
    MaxBoots \in Nat /\ MaxLaunches \in Nat /\ HookFaults \in BOOLEAN

VARIABLES
    boot,     \* starts of the VSH so far
    launch,   \* launches so far; a launch is named by its number
    notify,   \* contents of GAME_PATCH_NOTIFY_MSG_FILE
    info,     \* contents of GAME_INFO_PATH: "absent", "empty" or a launch
    startPc,  \* run_patch: "folders", "info", "hook", "done"
    hookPc,   \* load_plugin_main: "idle", "info", "infoWrite", "note", "noteWrite", "call"
    gamePc,   \* the game: "none", "load", "patch", "playing"
    gameInfo, \* the launch whose info the running game took, 0 if none
    pollPc,   \* notify_thread: "poll", "read", "show", "unlink"
    pollSize, \* the size it took
    pollMsg,  \* the text in its buffer, NoText if none
    orphan,   \* the message file it has open, if that was deleted since
    viaHook,  \* history: the hook wrote the info of the last launch
    made,     \* history: launches before which the hook truncated the message file
    written,  \* history: [text, boot] of the messages games wrote
    shown,    \* history: [text, boot] of the messages shown
    early,    \* history: notify_thread found a file before DeleteNotify in this boot
    again     \* history: some message was shown twice in one boot

files == <<notify, info>>
hook == <<hookPc, viaHook, made>>
game == <<gamePc, gameInfo>>
poller == <<pollPc, pollSize, pollMsg, orphan, early>>
screen == <<shown, again>>
vars == <<boot, launch, files, startPc, hook, game, poller, written, screen>>

\* The message file: missing, truncated, one CHECK_BYTE, or a text.
Absent == [kind |-> "absent", head |-> 0, tail |-> 0]
Empty == [kind |-> "empty", head |-> 0, tail |-> 0]
Check == [kind |-> "check", head |-> 0, tail |-> 0]

\* "Applied %ld patch%s": the bytes that every text has, printed for launch n, and
\* those behind them, printed for launch m; m is 0 when there are none.
Text(n, m) == [kind |-> "text", head |-> n, tail |-> m]
NoText == Text(0, 0)

\* The size of a file, in units that tell apart what is compared.
SizeOf(f) ==
    IF f.kind = "text" THEN IF f.tail = 0 THEN 2 ELSE 3
    ELSE IF f.kind = "check" THEN 1 ELSE 0

NoInfo == 0      \* the info file is missing or empty; else it holds a launch

Init ==
    /\ boot = 1 /\ launch = 0
    /\ notify = Absent /\ info = NoInfo
    /\ startPc = "folders"
    /\ hookPc = "idle" /\ viaHook = FALSE /\ made = {}
    /\ gamePc = "none" /\ gameInfo = NoInfo
    /\ pollPc = "poll" /\ pollSize = 0 /\ pollMsg = NoText /\ orphan = Absent
    /\ early = FALSE
    /\ written = {} /\ shown = {} /\ again = FALSE

-----------------------------------------------------------------------------
\* unlink: who has the file open goes on reading what it held.
Delete ==
    /\ notify' = Absent
    /\ orphan' = IF pollPc = "read" /\ orphan = Absent THEN notify ELSE orphan

\* Mutant: make_folders leaves the message file alone.
DeleteNotifyNot ==
    /\ startPc = "folders"
    /\ startPc' = "info"
    /\ UNCHANGED <<boot, launch, files, hook, game, poller, written, screen>>

\* run_patch of the VSH plugin. make_folders deletes the two files in turn, then
\* patch_call installs the hook.
DeleteNotify ==
    /\ startPc = "folders"
    /\ startPc' = "info"
    /\ Delete
    /\ UNCHANGED <<boot, launch, info, hook, game, pollPc, pollSize, pollMsg, early, written,
                   screen>>

DeleteInfo ==
    /\ startPc = "info"
    /\ startPc' = "hook"
    /\ info' = NoInfo
    /\ UNCHANGED <<boot, launch, notify, hook, game, poller, written, screen>>

InstallHook ==
    /\ startPc = "hook"
    /\ startPc' = "done"
    /\ UNCHANGED <<boot, launch, files, hook, game, poller, written, screen>>

Startup == DeleteNotify \/ DeleteInfo \/ InstallHook

-----------------------------------------------------------------------------
\* Mutant: the hook is in place before the start-up deletions are over.
LaunchEarly ==
    /\ launch < MaxLaunches
    /\ hookPc = "idle" /\ gamePc = "none"
    /\ launch' = launch + 1
    /\ viaHook' = FALSE
    /\ hookPc' = "info"
    /\ UNCHANGED <<boot, files, startPc, made, game, poller, written, screen>>

\* The user launches a game: through the hook once it is installed.
Launch ==
    /\ launch < MaxLaunches
    /\ hookPc = "idle" /\ gamePc = "none"
    /\ launch' = launch + 1
    /\ viaHook' = FALSE
    /\ hookPc' \in IF startPc = "done"
                   THEN {"info"} \cup IF HookFaults THEN {"call"} ELSE {}
                   ELSE {"call"}
    /\ UNCHANGED <<boot, files, startPc, made, game, poller, written, screen>>

\* fopen(GAME_INFO_PATH, "wb") truncates; when it fails the old file stays.
HookOpenInfo ==
    /\ hookPc = "info"
    /\ \/ hookPc' = "infoWrite" /\ info' = NoInfo
       \/ HookFaults /\ hookPc' = "note" /\ UNCHANGED info
    /\ UNCHANGED <<boot, launch, notify, startPc, viaHook, made, game, poller, written, screen>>

HookWriteInfo ==
    /\ hookPc = "infoWrite"
    /\ hookPc' = "note"
    /\ \/ info' = launch /\ viaHook' = TRUE
       \/ HookFaults /\ UNCHANGED <<info, viaHook>>
    /\ UNCHANGED <<boot, launch, notify, startPc, made, game, poller, written, screen>>

\* Mutant: the file is opened without truncating it.
HookOpenNoteKeeping ==
    /\ hookPc = "note"
    /\ hookPc' = "noteWrite"
    /\ notify' = [notify EXCEPT !.kind = IF @ = "absent" THEN "empty" ELSE @]
    /\ made' = made \cup {launch}
    /\ UNCHANGED <<boot, launch, info, startPc, viaHook, game, poller, written, screen>>

\* The message file is made by the VSH because the game cannot create it.
HookOpenNote ==
    /\ hookPc = "note"
    /\ \/ hookPc' = "noteWrite" /\ notify' = Empty /\ made' = made \cup {launch}
       \/ HookFaults /\ hookPc' = "call" /\ UNCHANGED <<notify, made>>
    /\ UNCHANGED <<boot, launch, info, startPc, viaHook, game, poller, written, screen>>

HookWriteNote ==
    /\ hookPc = "noteWrite"
    /\ hookPc' = "call"
    /\ \/ notify' = IF notify = Absent THEN Absent ELSE Check
       \/ HookFaults /\ UNCHANGED notify
    /\ UNCHANGED <<boot, launch, info, startPc, viaHook, made, game, poller, written, screen>>

\* The original function runs: the game starts.
HookCall ==
    /\ hookPc = "call"
    /\ hookPc' = "idle"
    /\ gamePc' = "load"
    /\ UNCHANGED <<boot, launch, files, startPc, viaHook, made, gameInfo, poller, written,
                   screen>>

Hook == HookOpenInfo \/ HookWriteInfo \/ HookOpenNote \/ HookWriteNote \/ HookCall

-----------------------------------------------------------------------------
\* load_game_info: a file of another size is refused, and nothing is patched.
GameLoadsInfo ==
    /\ gamePc = "load"
    /\ gameInfo' = info
    /\ gamePc' = IF info = NoInfo THEN "playing" ELSE "patch"
    /\ UNCHANGED <<boot, launch, files, startPc, hook, poller, written, screen>>

\* run_patch with matches: fileWrite2 over the existing file, which is not truncated,
\* so that behind a shorter text the older one's last bytes stay; its status is
\* ignored. Opening for creation when there is none leaves at most an empty file, for
\* that handle cannot be written.
GameWritesMessage ==
    /\ gamePc = "patch"
    /\ gamePc' = "playing"
    /\ \/ notify # Absent
          /\ \E tail \in {0, launch} :
                /\ notify' = Text(launch, IF tail = 0 THEN notify.tail ELSE tail)
                /\ written' = written \cup {[text |-> Text(launch, tail), boot |-> boot]}
       \/ notify = Absent /\ notify' = Empty /\ UNCHANGED written
       \/ UNCHANGED <<notify, written>>
    /\ UNCHANGED <<boot, launch, info, startPc, hook, gameInfo, poller, screen>>

\* run_patch without matches: fileDelete.
GameDeletesMessage ==
    /\ gamePc = "patch"
    /\ gamePc' = "playing"
    /\ Delete
    /\ UNCHANGED <<boot, launch, info, startPc, hook, gameInfo, pollPc, pollSize, pollMsg, early,
                   written, screen>>

GameStart == GameLoadsInfo \/ GameWritesMessage \/ GameDeletesMessage

GameExits ==
    /\ gamePc = "playing"
    /\ gamePc' = "none"
    /\ gameInfo' = NoInfo
    /\ UNCHANGED <<boot, launch, files, startPc, hook, poller, written, screen>>

-----------------------------------------------------------------------------
\* Mutant: the size is compared the wrong way round.
PollOpensSmall ==
    /\ pollPc = "poll"
    /\ notify # Absent
    /\ pollPc' = "read"
    /\ pollSize' = 0
    /\ early' = (early \/ startPc = "folders")
    /\ UNCHANGED <<boot, launch, files, startPc, hook, game, pollMsg, orphan, written, screen>>

\* notify_thread. It sees the file, opens it and takes its size; with no file it
\* sleeps and looks again.
PollOpens ==
    /\ pollPc = "poll"
    /\ notify # Absent
    /\ pollPc' = "read"
    /\ pollSize' = SizeOf(notify)
    /\ early' = (early \/ startPc = "folders")
    /\ UNCHANGED <<boot, launch, files, startPc, hook, game, pollMsg, orphan, written, screen>>

Opened == IF orphan # Absent THEN orphan ELSE notify

\* The first bytes of a file, as many as pollSize says; a text may be cut.
Taken == IF pollSize = 2 THEN Text(Opened.head, 0) ELSE Text(Opened.head, Opened.tail)

\* fread must return as many bytes as the size said, the first one must not be
\* CHECK_BYTE, and there must be more than one. Otherwise it sleeps. A message that
\* replaced the sized one may be shorter or longer.
PollReads ==
    /\ pollPc = "read"
    /\ IF pollSize > 1 /\ SizeOf(Opened) >= pollSize
       THEN pollPc' = "show" /\ pollMsg' = Taken
       ELSE pollPc' = "poll" /\ pollMsg' = NoText
    /\ pollSize' = 0 /\ orphan' = Absent
    /\ UNCHANGED <<boot, launch, files, startPc, hook, game, early, written, screen>>

\* After two seconds, the notification.
PollShows ==
    /\ pollPc = "show"
    /\ pollPc' = "unlink"
    /\ shown' = shown \cup {[text |-> pollMsg, boot |-> boot]}
    /\ again' = (again \/ \E s \in shown : s.text.head = pollMsg.head /\ s.boot = boot)
    /\ UNCHANGED <<boot, launch, files, startPc, hook, game, pollSize, pollMsg, orphan, early,
                   written>>

\* Mutant: the file is not deleted.
PollKeepsFile ==
    /\ pollPc = "unlink"
    /\ pollPc' = "poll"
    /\ pollMsg' = NoText
    /\ UNCHANGED <<boot, launch, files, startPc, hook, game, pollSize, orphan, early, written,
                   screen>>

\* The file is deleted, whatever it holds by now.
PollUnlinks ==
    /\ pollPc = "unlink"
    /\ pollPc' = "poll"
    /\ pollMsg' = NoText
    /\ notify' = Absent
    /\ UNCHANGED <<boot, launch, info, startPc, hook, game, pollSize, orphan, early, written,
                   screen>>

Poll == PollOpens \/ PollReads \/ PollShows \/ PollUnlinks

-----------------------------------------------------------------------------
\* The console restarts, or the VSH does, at any moment.
Reboot ==
    /\ boot < MaxBoots
    /\ boot' = boot + 1
    /\ startPc' = "folders"
    /\ hookPc' = "idle" /\ viaHook' = FALSE
    /\ gamePc' = "none" /\ gameInfo' = NoInfo
    /\ pollPc' = "poll" /\ pollSize' = 0 /\ pollMsg' = NoText /\ orphan' = Absent
    /\ early' = FALSE
    /\ UNCHANGED <<launch, files, made, written, screen>>

Next == Startup \/ Launch \/ Hook \/ GameStart \/ GameExits \/ Poll \/ Reboot

\* The threads of the VSH are scheduled, a hooked call returns, and a game that
\* was started runs its plugin.
Fairness == WF_vars(Startup) /\ WF_vars(Hook) /\ WF_vars(GameStart) /\ WF_vars(Poll)

Spec == Init /\ [][Next]_vars /\ Fairness

-----------------------------------------------------------------------------
File == [kind : {"absent", "empty", "check", "text"}, head : Nat, tail : Nat]

TypeOK ==
    /\ boot \in Nat /\ launch \in Nat
    /\ notify \in File /\ orphan \in File
    /\ info \in Nat
    /\ startPc \in {"folders", "info", "hook", "done"}
    /\ hookPc \in {"idle", "info", "infoWrite", "note", "noteWrite", "call"}
    /\ gamePc \in {"none", "load", "patch", "playing"}
    /\ gameInfo \in Nat
    /\ pollPc \in {"poll", "read", "show", "unlink"}
    /\ pollSize \in 0 .. 3 /\ pollMsg \in File
    /\ made \subseteq Nat
    /\ written \subseteq [text : File, boot : Nat]
    /\ shown \subseteq [text : File, boot : Nat]
    /\ viaHook \in BOOLEAN /\ early \in BOOLEAN /\ again \in BOOLEAN

\* The text t was written as it is; or its last bytes are those of an older message;
\* or it is as long as an older one and cut.
Explained(t) ==
    /\ \E w \in written : w.text.head = t.head
    /\ \/ \E w \in written : w.text = t
       \/ /\ t.tail # 0 /\ t.head \notin made
          /\ \E w \in written : w.text.head < t.head /\ w.text.tail = t.tail
       \/ /\ t.tail = 0
          /\ \E w \in written : w.text.head < t.head /\ w.text.tail = 0

\* What is shown is what a game has written, never the check byte or a truncated
\* file, with two exceptions: the last bytes of an older, longer message show
\* behind one whose launch went past the hook, which would have truncated the file;
\* and a message is cut if it took the place of a shorter one between notify_thread's
\* size and its read.
ShownWasWritten == \A s \in shown : Explained(s.text)

\* One message is shown once in a run of the VSH.
ShownOnce == ~again

\* A game whose identity the hook wrote finds it: not that of an older launch,
\* and not a file that the start-up deletions took away in between.
HookedReadsOwn ==
    gamePc \in {"patch", "playing"} /\ viaHook => gameInfo = launch

\* The message that lies in the file once start-up is over, while notify_thread
\* is not busy with an older one, is shown, unless another game is launched or
\* the VSH restarts first.
Pending(n) ==
    /\ notify.head = n /\ launch = n /\ startPc = "done"
    /\ pollMsg.head \in {0, n} /\ orphan.head = 0

EventuallyShown ==
    \A n \in 1 .. MaxLaunches :
        Pending(n) ~> (launch > n \/ startPc # "done" \/ \E s \in shown : s.text.head = n)

\* What an earlier run of the VSH left in the message file is shown by this one only
\* if notify_thread found the file before make_folders came to delete it.
StaleNeedsOvertaking ==
    \A s \in shown : s.boot = boot /\ ~early =>
        \A n \in {s.text.head, s.text.tail} \ {0} :
            \E w \in written : w.text.head = n /\ w.boot = boot
=============================================================================
