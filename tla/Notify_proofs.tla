---------------------------- MODULE Notify_proofs ----------------------------
(***************************************************************************)
(* The safety properties of the hand-over, for any number of boots and     *)
(* launches, with and without failures of the hook.                        *)
(***************************************************************************)
EXTENDS Notify, TLAPS

USE DEF files, hook, game, poller, screen, Absent, Empty, Check, Text, NoText, NoInfo

\* Every action, for the case analysis of a step.
LEMMA Steps ==
    Next => \/ DeleteNotify \/ DeleteInfo \/ InstallHook \/ Launch
            \/ HookOpenInfo \/ HookWriteInfo \/ HookOpenNote \/ HookWriteNote
            \/ HookCall \/ GameLoadsInfo \/ GameWritesMessage
            \/ GameDeletesMessage \/ GameExits \/ PollOpens \/ PollReads
            \/ PollShows \/ PollUnlinks \/ Reboot
BY DEF Next, Startup, Hook, GameStart, Poll

-----------------------------------------------------------------------------
\* TypeOK, and a game runs only when no other one is being launched.
Shape == TypeOK /\ (gamePc # "none" => hookPc = "idle")

LEMMA InitShape == Init => Shape
<1> SUFFICES ASSUME Init PROVE Shape
    OBVIOUS
<1>1. viaHook \in BOOLEAN /\ early \in BOOLEAN /\ again \in BOOLEAN
    BY DEF Init
<1>2. written \subseteq [text : File, boot : Nat] /\ shown \subseteq [text : File, boot : Nat]
    BY DEF Init
<1> QED BY <1>1, <1>2 DEF Init, Shape, TypeOK, File

LEMMA NextShape == Shape /\ [Next]_vars => Shape'
<1> SUFFICES ASSUME Shape, [Next]_vars PROVE Shape'
    OBVIOUS
<1> USE DEF Shape, TypeOK, File
<1>1. CASE DeleteNotify BY <1>1 DEF DeleteNotify, Delete
<1>2. CASE DeleteInfo BY <1>2 DEF DeleteInfo
<1>3. CASE InstallHook BY <1>3 DEF InstallHook
<1>4. CASE Launch
    <2>1. viaHook' \in BOOLEAN /\ early' \in BOOLEAN /\ again' \in BOOLEAN
        BY <1>4, Zenon DEF Launch
    <2> QED BY <1>4, <2>1 DEF Launch
<1>5. CASE HookOpenInfo BY <1>5 DEF HookOpenInfo
<1>6. CASE HookWriteInfo
    <2>1. viaHook' \in BOOLEAN /\ early' \in BOOLEAN /\ again' \in BOOLEAN
        BY <1>6, Zenon DEF HookWriteInfo
    <2> QED BY <1>6, <2>1 DEF HookWriteInfo
<1>7. CASE HookOpenNote
    <2>1. viaHook' \in BOOLEAN /\ early' \in BOOLEAN /\ again' \in BOOLEAN
        BY <1>7, Zenon DEF HookOpenNote
    <2>2. notify' = Empty \/ notify' = notify
        BY <1>7 DEF HookOpenNote
    <2>3. made' = made \cup {launch} \/ made' = made
        BY <1>7 DEF HookOpenNote
    <2>4. /\ hookPc' \in {"noteWrite", "call"} /\ gamePc = "none"
          /\ UNCHANGED <<boot, launch, info, startPc, game, poller, written, screen>>
        BY <1>7 DEF HookOpenNote
    <2>5. notify' \in File BY <2>2
    <2>6. made' \subseteq Nat BY <2>3
    <2>7. UNCHANGED <<boot, launch, info, gameInfo, pollSize, pollMsg, orphan, written, shown>>
        BY <2>4
    <2>8. UNCHANGED <<startPc, gamePc, pollPc>> BY <2>4
    <2> QED BY <2>1, <2>4, <2>5, <2>6, <2>7, <2>8
<1>8. CASE HookWriteNote BY <1>8 DEF HookWriteNote
<1>9. CASE HookCall BY <1>9 DEF HookCall
<1>10. CASE GameLoadsInfo BY <1>10 DEF GameLoadsInfo
<1>11. CASE GameWritesMessage BY <1>11 DEF GameWritesMessage
<1>12. CASE GameDeletesMessage BY <1>12 DEF GameDeletesMessage, Delete
<1>13. CASE GameExits BY <1>13 DEF GameExits
<1>14. CASE PollOpens BY <1>14 DEF PollOpens, SizeOf
<1>15. CASE PollReads BY <1>15 DEF PollReads, Taken, Opened, SizeOf
<1>16. CASE PollShows BY <1>16 DEF PollShows
<1>17. CASE PollUnlinks BY <1>17 DEF PollUnlinks
<1>18. CASE Reboot
    <2>1. viaHook' \in BOOLEAN /\ early' \in BOOLEAN /\ again' \in BOOLEAN
        BY <1>18, Zenon DEF Reboot
    <2> QED BY <1>18, <2>1 DEF Reboot
<1>19. CASE UNCHANGED vars BY <1>19 DEF vars
<1> QED BY <1>1, <1>2, <1>3, <1>4, <1>5, <1>6, <1>7, <1>8, <1>9, <1>10, <1>11,
           <1>12, <1>13, <1>14, <1>15, <1>16, <1>17, <1>18, <1>19, Steps

\* The variables keep their types, for every number of restarts and launches.
THEOREM TypeCorrect == Spec => []TypeOK
<1>1. Shape => TypeOK BY DEF Shape
<1> QED BY <1>1, InitShape, NextShape, PTL DEF Spec

-----------------------------------------------------------------------------
\* The launch under way may still write its message.
Unwritten == hookPc # "idle" \/ gamePc \in {"load", "patch"}

\* Only launches so far are named anywhere. One that may still write has left no
\* trace in the message file, in notify_thread or on the screen, and if the hook
\* has truncated the file for it, no older text is left there either.
Silent ==
    /\ notify.head <= launch /\ orphan.head <= launch /\ pollMsg.head <= launch
    /\ \A s \in shown \cup written : s.text.head <= launch /\ s.boot <= boot
    /\ \A n \in made : n <= launch
    /\ Unwritten => /\ notify.head < launch /\ orphan.head < launch
                    /\ pollMsg.head < launch
                    /\ \A s \in shown \cup written : s.text.head < launch
    /\ hookPc \in {"info", "infoWrite", "note"} => launch \notin made
    /\ Unwritten /\ launch \in made => notify.tail = 0
    /\ pollPc \in {"poll", "read"} => pollMsg.head = 0
    /\ orphan # Absent => pollPc = "read"

LEMMA InitSilent == Init => Silent
BY DEF Init, Silent, Unwritten

LEMMA NextSilent == Shape /\ Silent /\ [Next]_vars => Silent'
<1> SUFFICES ASSUME Shape, Silent, [Next]_vars PROVE Silent'
    OBVIOUS
<1> USE DEF Shape, TypeOK, File, Silent, Unwritten
<1>1. CASE DeleteNotify BY <1>1 DEF DeleteNotify, Delete
<1>2. CASE DeleteInfo BY <1>2 DEF DeleteInfo
<1>3. CASE InstallHook BY <1>3 DEF InstallHook
<1>4. CASE Launch BY <1>4 DEF Launch
<1>5. CASE HookOpenInfo BY <1>5 DEF HookOpenInfo
<1>6. CASE HookWriteInfo BY <1>6 DEF HookWriteInfo
<1>7. CASE HookOpenNote
    <2>1. /\ hookPc = "note" /\ hookPc' \in {"noteWrite", "call"}
          /\ UNCHANGED <<boot, launch, pollMsg, orphan, written, shown, gamePc, pollPc>>
        BY <1>7 DEF HookOpenNote
    <2>2. \/ notify' = Empty /\ made' = made \cup {launch}
          \/ notify' = notify /\ made' = made
        BY <1>7 DEF HookOpenNote
    <2>3. CASE notify' = Empty /\ made' = made \cup {launch} BY <2>1, <2>3
    <2>4. CASE notify' = notify /\ made' = made BY <2>1, <2>4
    <2> QED BY <2>2, <2>3, <2>4
<1>8. CASE HookWriteNote BY <1>8 DEF HookWriteNote
<1>9. CASE HookCall BY <1>9 DEF HookCall
<1>10. CASE GameLoadsInfo BY <1>10 DEF GameLoadsInfo
<1>11. CASE GameWritesMessage BY <1>11 DEF GameWritesMessage
<1>12. CASE GameDeletesMessage BY <1>12 DEF GameDeletesMessage, Delete
<1>13. CASE GameExits BY <1>13 DEF GameExits
<1>14. CASE PollOpens BY <1>14 DEF PollOpens, SizeOf
<1>15. CASE PollReads BY <1>15 DEF PollReads, Taken, Opened, SizeOf
<1>16. CASE PollShows BY <1>16 DEF PollShows
<1>17. CASE PollUnlinks BY <1>17 DEF PollUnlinks
<1>18. CASE Reboot BY <1>18 DEF Reboot
<1>19. CASE UNCHANGED vars BY <1>19 DEF vars
<1> QED BY <1>1, <1>2, <1>3, <1>4, <1>5, <1>6, <1>7, <1>8, <1>9, <1>10, <1>11,
           <1>12, <1>13, <1>14, <1>15, <1>16, <1>17, <1>18, <1>19, Steps

-----------------------------------------------------------------------------
\* A text in the file was written as it is, or in two parts.
Whole(f) ==
    IF f.kind # "text" THEN f.tail = 0
    ELSE \/ \E w \in written : w.text = f
         \/ /\ f.tail # 0 /\ f.head \notin made
            /\ \E w \in written : w.text.head = f.head
            /\ \E w \in written : w.text.head < f.head /\ w.text.tail = f.tail

\* What notify_thread sized as a short text was one, and the file it has open holds a
\* short text still, or a later launch's.
Sized ==
    pollPc = "read" /\ pollSize = 2 =>
        \E w \in written :
            /\ w.text.tail = 0
            /\ Opened.kind = "text" => Opened.tail = 0 \/ w.text.head < Opened.head

Sourced ==
    /\ Whole(notify) /\ Whole(orphan)
    /\ Sized
    /\ pollPc = "show" => Explained(pollMsg)
    /\ ShownWasWritten

LEMMA NextSourced == Shape /\ Silent /\ Sourced /\ [Next]_vars => Sourced'
<1> SUFFICES ASSUME Shape, Silent, Sourced, [Next]_vars PROVE Sourced'
    OBVIOUS
<1> USE DEF Shape, TypeOK, File, Silent, Unwritten, Sourced, Whole, Sized, Opened,
            ShownWasWritten, Explained
<1>1. CASE DeleteNotify BY <1>1 DEF DeleteNotify, Delete
<1>2. CASE DeleteInfo BY <1>2 DEF DeleteInfo
<1>3. CASE InstallHook BY <1>3 DEF InstallHook
<1>4. CASE Launch BY <1>4 DEF Launch
<1>5. CASE HookOpenInfo BY <1>5 DEF HookOpenInfo
<1>6. CASE HookWriteInfo BY <1>6 DEF HookWriteInfo
<1>7. CASE HookOpenNote BY <1>7 DEF HookOpenNote
<1>8. CASE HookWriteNote BY <1>8 DEF HookWriteNote
<1>9. CASE HookCall BY <1>9 DEF HookCall
<1>10. CASE GameLoadsInfo BY <1>10 DEF GameLoadsInfo
<1>11. CASE GameWritesMessage
    <2>1. /\ gamePc = "patch"
          /\ UNCHANGED <<launch, orphan, made, pollPc, pollSize, pollMsg, shown>>
          /\ written \subseteq written'
        BY <1>11 DEF GameWritesMessage
    <2>2. \/ UNCHANGED <<notify, written>>
          \/ notify' = Empty /\ written' = written
          \/ \E tail \in {0, launch} :
                /\ notify' = Text(launch, IF tail = 0 THEN notify.tail ELSE tail)
                /\ written' = written \cup {[text |-> Text(launch, tail), boot |-> boot]}
        BY <1>11 DEF GameWritesMessage
    <2>3. (pollPc = "show" => Explained(pollMsg))' BY <2>1
    <2>4. ShownWasWritten' BY <2>1
    <2>5. Whole(orphan)' BY <2>1
    <2>6. Whole(notify)'
        <3>1. CASE UNCHANGED <<notify, written>> BY <2>1, <3>1
        <3>2. CASE notify' = Empty BY <3>2
        <3>3. ASSUME NEW tail \in {0, launch},
                     notify' = Text(launch, IF tail = 0 THEN notify.tail ELSE tail),
                     written' = written \cup {[text |-> Text(launch, tail), boot |-> boot]}
              PROVE  Whole(notify)'
            <4>1. [text |-> Text(launch, tail), boot |-> boot] \in written' BY <3>3
            <4>2. \E w \in written' : w.text = Text(launch, tail) BY <4>1
            <4>3. CASE tail # 0 \/ notify.tail = 0 BY <3>3, <4>2, <4>3
            <4>4. CASE tail = 0 /\ notify.tail # 0
                <5>1. launch \notin made /\ notify.head < launch BY <2>1, <4>4
                <5>2. \E w \in written : w.text.tail = notify.tail /\ w.text.head < launch
                    BY <2>1, <4>4
                <5>3. notify'.kind = "text" /\ notify'.head = launch /\ notify'.tail = notify.tail
                    BY <3>3, <4>4
                <5>4. \E w \in written' : w.text.head = launch BY <4>2
                <5>5. \E w \in written' : w.text.tail = notify.tail /\ w.text.head < launch
                    BY <2>1, <5>2
                <5>6. notify'.head \notin made' /\ notify'.tail # 0
                    BY <2>1, <4>4, <5>1, <5>3
                <5> QED BY <5>3, <5>4, <5>5, <5>6
            <4> QED BY <4>3, <4>4
        <3> QED BY <2>2, <3>1, <3>2, <3>3
    <2>7. Sized'
        <3> SUFFICES ASSUME pollPc = "read", pollSize = 2 PROVE Sized'
            BY <2>1
        <3>1. PICK w \in written : /\ w.text.tail = 0
                                   /\ Opened.kind = "text" =>
                                        Opened.tail = 0 \/ w.text.head < Opened.head
            OBVIOUS
        <3>2. w \in written' /\ w.text.head < launch BY <2>1, <3>1
        <3>3. Opened'.kind = "text" => Opened' = Opened \/ Opened'.head = launch
            BY <2>1, <2>2
        <3> QED BY <3>1, <3>2, <3>3
    <2> QED BY <2>3, <2>4, <2>5, <2>6, <2>7
<1>12. CASE GameDeletesMessage BY <1>12 DEF GameDeletesMessage, Delete
<1>13. CASE GameExits BY <1>13 DEF GameExits
<1>14. CASE PollOpens BY <1>14 DEF PollOpens, SizeOf
<1>15. CASE PollReads BY <1>15 DEF PollReads, Taken, Opened, SizeOf
<1>16. CASE PollShows BY <1>16 DEF PollShows
<1>17. CASE PollUnlinks BY <1>17 DEF PollUnlinks
<1>18. CASE Reboot BY <1>18 DEF Reboot
<1>19. CASE UNCHANGED vars BY <1>19 DEF vars
<1> QED BY <1>1, <1>2, <1>3, <1>4, <1>5, <1>6, <1>7, <1>8, <1>9, <1>10, <1>11,
           <1>12, <1>13, <1>14, <1>15, <1>16, <1>17, <1>18, <1>19, Steps

\* Only what games have written is ever shown (ShownWasWritten): the size taken
\* before the read and the check byte together keep everything else off the screen,
\* whatever happens to the file between the two.
THEOREM ShownMessagesAreReal == Spec => []ShownWasWritten
<1>1. Init => Shape /\ Silent /\ Sourced
    <2>1. Init => Sourced
        BY DEF Init, Sourced, Whole, Sized, ShownWasWritten
    <2> QED BY <2>1, InitShape, InitSilent
<1>2. (Shape /\ Silent /\ Sourced) /\ [Next]_vars => (Shape /\ Silent /\ Sourced)'
    BY NextShape, NextSilent, NextSourced
<1>3. Sourced => ShownWasWritten
    BY DEF Sourced
<1> QED BY <1>1, <1>2, <1>3, PTL DEF Spec

-----------------------------------------------------------------------------
\* The hook works only after start-up, and what it wrote stays for its game.
Identity ==
    /\ hookPc \in {"info", "infoWrite", "note", "noteWrite"} => startPc = "done"
    /\ viaHook => /\ startPc = "done" /\ info = launch
                  /\ hookPc \notin {"info", "infoWrite"}
    /\ gamePc # "none" => hookPc = "idle"
    /\ HookedReadsOwn

\* A game whose identity the hook wrote reads it back (HookedReadsOwn): the
\* start-up deletions come before the hook is there, and no other launch begins
\* while the game runs.
THEOREM HookedGamesKnowThemselves == Spec => []HookedReadsOwn
<1>1. Init => Identity
    BY DEF Init, Identity, HookedReadsOwn
<1>2. Identity /\ [Next]_vars => Identity'
    <2> SUFFICES ASSUME Identity, [Next]_vars PROVE Identity'
        OBVIOUS
    <2> USE DEF Identity, HookedReadsOwn
    <2>1. CASE DeleteNotify BY <2>1 DEF DeleteNotify, Delete
    <2>2. CASE DeleteInfo BY <2>2 DEF DeleteInfo
    <2>3. CASE InstallHook BY <2>3 DEF InstallHook
    <2>4. CASE Launch BY <2>4 DEF Launch
    <2>5. CASE HookOpenInfo BY <2>5 DEF HookOpenInfo
    <2>6. CASE HookWriteInfo BY <2>6 DEF HookWriteInfo
    <2>7. CASE HookOpenNote BY <2>7 DEF HookOpenNote
    <2>8. CASE HookWriteNote BY <2>8 DEF HookWriteNote
    <2>9. CASE HookCall BY <2>9 DEF HookCall
    <2>10. CASE GameLoadsInfo BY <2>10 DEF GameLoadsInfo
    <2>11. CASE GameWritesMessage BY <2>11 DEF GameWritesMessage
    <2>12. CASE GameDeletesMessage BY <2>12 DEF GameDeletesMessage, Delete
    <2>13. CASE GameExits BY <2>13 DEF GameExits
    <2>14. CASE PollOpens BY <2>14 DEF PollOpens, SizeOf
    <2>15. CASE PollReads BY <2>15 DEF PollReads, Taken, Opened, SizeOf
    <2>16. CASE PollShows BY <2>16 DEF PollShows
    <2>17. CASE PollUnlinks BY <2>17 DEF PollUnlinks
    <2>18. CASE Reboot BY <2>18 DEF Reboot
    <2>19. CASE UNCHANGED vars BY <2>19 DEF vars
    <2> QED BY <2>1, <2>2, <2>3, <2>4, <2>5, <2>6, <2>7, <2>8, <2>9, <2>10, <2>11,
               <2>12, <2>13, <2>14, <2>15, <2>16, <2>17, <2>18, <2>19, Steps
<1>3. Identity => HookedReadsOwn
    BY DEF Identity
<1> QED BY <1>1, <1>2, <1>3, PTL DEF Spec

-----------------------------------------------------------------------------
\* Launch n has had no message on the screen in this boot.
Unshown(n) == \A s \in shown : s.boot = boot => s.text.head # n

\* A text in the file, or in notify_thread's hands before it shows it, has not been
\* shown, unless notify_thread is about to delete it.
Once ==
    /\ pollPc = "show" => Unshown(pollMsg.head)
    /\ notify.kind = "text" =>
        Unshown(notify.head) \/ (pollPc = "unlink" /\ notify.head = pollMsg.head)
    /\ orphan.kind = "text" => Unshown(orphan.head)
    /\ ShownOnce

LEMMA NextOnce == Shape /\ Silent /\ Once /\ [Next]_vars => Once'
<1> SUFFICES ASSUME Shape, Silent, Once, [Next]_vars PROVE Once'
    OBVIOUS
<1> USE DEF Shape, TypeOK, File, Silent, Unwritten, Once, Unshown, ShownOnce
<1>1. CASE DeleteNotify BY <1>1 DEF DeleteNotify, Delete
<1>2. CASE DeleteInfo BY <1>2 DEF DeleteInfo
<1>3. CASE InstallHook BY <1>3 DEF InstallHook
<1>4. CASE Launch BY <1>4 DEF Launch
<1>5. CASE HookOpenInfo BY <1>5 DEF HookOpenInfo
<1>6. CASE HookWriteInfo BY <1>6 DEF HookWriteInfo
<1>7. CASE HookOpenNote BY <1>7 DEF HookOpenNote
<1>8. CASE HookWriteNote BY <1>8 DEF HookWriteNote
<1>9. CASE HookCall BY <1>9 DEF HookCall
<1>10. CASE GameLoadsInfo BY <1>10 DEF GameLoadsInfo
<1>11. CASE GameWritesMessage BY <1>11 DEF GameWritesMessage
<1>12. CASE GameDeletesMessage BY <1>12 DEF GameDeletesMessage, Delete
<1>13. CASE GameExits BY <1>13 DEF GameExits
<1>14. CASE PollOpens BY <1>14 DEF PollOpens, SizeOf
<1>15. CASE PollReads BY <1>15 DEF PollReads, Taken, Opened, SizeOf
<1>16. CASE PollShows BY <1>16 DEF PollShows
<1>17. CASE PollUnlinks BY <1>17 DEF PollUnlinks
<1>18. CASE Reboot BY <1>18 DEF Reboot
<1>19. CASE UNCHANGED vars BY <1>19 DEF vars
<1> QED BY <1>1, <1>2, <1>3, <1>4, <1>5, <1>6, <1>7, <1>8, <1>9, <1>10, <1>11,
           <1>12, <1>13, <1>14, <1>15, <1>16, <1>17, <1>18, <1>19, Steps

\* One message is shown once in a run of the VSH (ShownOnce), although the file
\* stays in place from the read to the deletion two seconds later.
THEOREM MessagesAreShownOnce == Spec => []ShownOnce
<1>1. Init => Shape /\ Silent /\ Once
    <2>1. Init => Once
        BY DEF Init, Once, Unshown, ShownOnce
    <2> QED BY <2>1, InitShape, InitSilent
<1>2. (Shape /\ Silent /\ Once) /\ [Next]_vars => (Shape /\ Silent /\ Once)'
    BY NextShape, NextSilent, NextOnce
<1>3. Once => ShownOnce
    BY DEF Once
<1> QED BY <1>1, <1>2, <1>3, PTL DEF Spec

-----------------------------------------------------------------------------
\* Both parts of the text t were written in this boot.
Current(t) ==
    \A n \in {t.head, t.tail} \ {0} :
        \E w \in written : w.text.head = n /\ w.boot = boot

\* Once make_folders has deleted the file, what is in it, and what notify_thread has
\* of it, was written in this boot, unless notify_thread was early.
Fresh ==
    /\ startPc # "folders" => Current(notify)
    /\ pollPc = "read" /\ startPc = "folders" => early
    /\ early \/ Current(orphan)
    /\ pollPc = "show" => early \/ Current(pollMsg)
    /\ StaleNeedsOvertaking

LEMMA NextFresh == Shape /\ Silent /\ Fresh /\ [Next]_vars => Fresh'
<1> SUFFICES ASSUME Shape, Silent, Fresh, [Next]_vars PROVE Fresh'
    OBVIOUS
<1> USE DEF Shape, TypeOK, File, Silent, Fresh, Current, StaleNeedsOvertaking
<1>1. CASE DeleteNotify BY <1>1 DEF DeleteNotify, Delete
<1>2. CASE DeleteInfo BY <1>2 DEF DeleteInfo
<1>3. CASE InstallHook BY <1>3 DEF InstallHook
<1>4. CASE Launch BY <1>4 DEF Launch
<1>5. CASE HookOpenInfo BY <1>5 DEF HookOpenInfo
<1>6. CASE HookWriteInfo BY <1>6 DEF HookWriteInfo
<1>7. CASE HookOpenNote BY <1>7 DEF HookOpenNote
<1>8. CASE HookWriteNote BY <1>8 DEF HookWriteNote
<1>9. CASE HookCall BY <1>9 DEF HookCall
<1>10. CASE GameLoadsInfo BY <1>10 DEF GameLoadsInfo
<1>11. CASE GameWritesMessage
    <2>1. /\ written \subseteq written'
          /\ UNCHANGED <<boot, startPc, orphan, pollPc, pollMsg, shown>>
          /\ early' <=> early
        BY <1>11 DEF GameWritesMessage
    <2>2. \/ UNCHANGED <<notify, written>>
          \/ notify' = Empty
          \/ \E tail \in {0, launch} :
                /\ notify' = Text(launch, IF tail = 0 THEN notify.tail ELSE tail)
                /\ written' = written \cup {[text |-> Text(launch, tail), boot |-> boot]}
        BY <1>11 DEF GameWritesMessage
    <2>3. startPc # "folders" => Current(notify)'
        <3>1. CASE UNCHANGED <<notify, written>> BY <2>1, <3>1
        <3>2. CASE notify' = Empty BY <3>2
        <3>3. ASSUME NEW tail \in {0, launch}, startPc # "folders",
                     notify' = Text(launch, IF tail = 0 THEN notify.tail ELSE tail),
                     written' = written \cup {[text |-> Text(launch, tail), boot |-> boot]}
              PROVE  Current(notify)'
            <4>1. [text |-> Text(launch, tail), boot |-> boot] \in written' BY <3>3
            <4>2. \E w \in written' : w.text.head = launch /\ w.boot = boot' BY <2>1, <4>1
            <4>3. notify'.head = launch /\ notify'.tail \in {launch, notify.tail, 0}
                BY <3>3
            <4>4. notify.tail # 0 =>
                      \E w \in written' : w.text.head = notify.tail /\ w.boot = boot'
                BY <2>1, <3>3
            <4> QED BY <4>2, <4>3, <4>4
        <3> QED BY <2>2, <3>1, <3>2, <3>3
    <2>4. (early \/ Current(orphan))' /\ (pollPc = "show" => early \/ Current(pollMsg))'
        BY <2>1
    <2>5. StaleNeedsOvertaking' BY <2>1
    <2> QED BY <2>1, <2>3, <2>4, <2>5
<1>12. CASE GameDeletesMessage BY <1>12 DEF GameDeletesMessage, Delete
<1>13. CASE GameExits BY <1>13 DEF GameExits
<1>14. CASE PollOpens
    <2>1. early' <=> early \/ startPc = "folders" BY <1>14 DEF PollOpens
    <2>2. /\ pollPc' = "read"
          /\ UNCHANGED <<boot, startPc, notify, orphan, pollMsg, written, shown>>
        BY <1>14 DEF PollOpens
    <2>3. UNCHANGED <<Current(notify), Current(orphan)>> BY <2>2
    <2>4. StaleNeedsOvertaking' BY <2>1, <2>2
    <2> QED BY <2>1, <2>2, <2>3, <2>4
<1>15. CASE PollReads BY <1>15 DEF PollReads, Taken, Opened, SizeOf
<1>16. CASE PollShows BY <1>16 DEF PollShows
<1>17. CASE PollUnlinks BY <1>17 DEF PollUnlinks
<1>18. CASE Reboot BY <1>18 DEF Reboot
<1>19. CASE UNCHANGED vars BY <1>19 DEF vars
<1> QED BY <1>1, <1>2, <1>3, <1>4, <1>5, <1>6, <1>7, <1>8, <1>9, <1>10, <1>11,
           <1>12, <1>13, <1>14, <1>15, <1>16, <1>17, <1>18, <1>19, Steps

\* A message of an earlier run of the VSH is shown only if notify_thread overtook the
\* deletion (StaleNeedsOvertaking): starting it after run_patch would be enough.
THEOREM StaleOnlyIfOvertaken == Spec => []StaleNeedsOvertaking
<1>1. Init => Shape /\ Silent /\ Fresh
    <2>1. Init => Fresh
        BY DEF Init, Fresh, Current, StaleNeedsOvertaking
    <2> QED BY <2>1, InitShape, InitSilent
<1>2. (Shape /\ Silent /\ Fresh) /\ [Next]_vars => (Shape /\ Silent /\ Fresh)'
    BY NextShape, NextSilent, NextFresh
<1>3. Fresh => StaleNeedsOvertaking
    BY DEF Fresh
<1> QED BY <1>1, <1>2, <1>3, PTL DEF Spec
=============================================================================
