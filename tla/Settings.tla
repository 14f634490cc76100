----------------------------- MODULE Settings -----------------------------
(***************************************************************************)
(* The settings of sound and video, and what is made of them: the test of  *)
(* the settings view (ui/settings.rs), the capture, playback and voice     *)
(* detection of a call (ui/main_view.rs, media/audio.rs, media/vad.rs) and *)
(* the file they are kept in (state/settings.rs, ui/app.rs).               *)
(*                                                                         *)
(* A setting is copied when something starts: into the capture of a test   *)
(* or of a call, into the detector, into the file when the view is closed. *)
(* The copies are brought up to date by the line that changes the setting, *)
(* or not at all.                                                          *)
(*                                                                         *)
(* A setting of sound is the name of a device, or none for the default     *)
(* one.  A camera is chosen by its number in the list, and opened by that  *)
(* number; which camera has it, then and later, is up to the system.  The  *)
(* threshold of the noise gate stands for the gain and the gate's switch   *)
(* too, which are set in the same way (a call takes the threshold only).   *)
(***************************************************************************)
CONSTANTS
    Devices,    \* sound devices, by name
    Cameras,    \* the numbers of cameras
    None        \* no name, no number: the default device

VARIABLES
    view,       \* "Main" or "Settings"; the program may also end: "off"
    set,        \* the settings: [input, output, loopback, threshold, camera]
    file,       \* the settings in settings.json; the defaults if it cannot be read
    plugged,    \* the sound devices that are there
    listed,     \* the sound devices in the lists of the view
    test,       \* the sound test: [on, input, output, loopback, threshold], as it was started
                \* and has been changed since
    preview,    \* the video test: [on, camera], as it was started
    joined,     \* in_voice
    was,        \* was_in_voice
    call,       \* the threshold of the call's capture, or "none"
    detector,   \* the threshold of the voice detector, or "none"
    apart       \* history: the file could not be written, or read, the last time

vars == <<view, set, file, plugged, listed, test, preview, joined, was, call, detector, apart>>

Names   == Devices \cup {None}
Levels  == {"low", "high"}
Setting == [input : Names, output : Names, loopback : BOOLEAN, threshold : Levels,
            camera : Cameras \cup {None}]

\* AppState::new, and PersistentSettings::load without a file.
Defaults == [input |-> None, output |-> None, loopback |-> FALSE, threshold |-> "low",
             camera |-> None]

NoTest    == [on |-> FALSE, input |-> None, output |-> None, loopback |-> FALSE,
              threshold |-> "low"]
NoPreview == [on |-> FALSE, camera |-> None]

TypeOK ==
    /\ view \in {"Main", "Settings", "off"}
    /\ {set, file} \subseteq Setting
    /\ {plugged, listed} \subseteq SUBSET Devices
    /\ test \in [on : BOOLEAN, input : Names, output : Names, loopback : BOOLEAN,
                 threshold : Levels]
    /\ preview \in [on : BOOLEAN, camera : Cameras \cup {None}]
    /\ {joined, was, apart} \subseteq BOOLEAN
    /\ {call, detector} \subseteq Levels \cup {"none"}

Init ==
    /\ view = "Main" /\ set = Defaults /\ file = Defaults
    /\ plugged = Devices /\ listed = {}
    /\ test = NoTest /\ preview = NoPreview
    /\ joined = FALSE /\ was = FALSE /\ call = "none" /\ detector = "none"
    /\ apart = FALSE

voice == <<joined, was, call, detector>>

-----------------------------------------------------------------------------
\* Devices come and go.
Replug ==
    /\ plugged' \in SUBSET Devices
    /\ UNCHANGED <<view, set, file, listed, test, preview, voice, apart>>

\* refresh_audio_devices: the devices that are there.  The
\* list marks the default one with a suffix, which start_audio_test takes off again.
Refresh ==
    /\ view = "Settings"
    /\ listed' = plugged
    /\ UNCHANGED <<view, set, file, plugged, test, preview, voice, apart>>

\* The devices found by a name: that one, or any as the default.
Found(name) == IF name = None THEN plugged # {} ELSE name \in plugged

(* start_audio_test, from the settings as they are: capture first, and     *)
(* playback if there is loopback.  A device that is not found, or does not *)
(* start, leaves no test.                                                  *)
Test(s) ==
    {NoTest} \cup
    IF ~Found(s.input) \/ (s.loopback /\ ~Found(s.output)) THEN {}
    ELSE {[on |-> TRUE, input |-> s.input, output |-> IF s.loopback THEN s.output ELSE None,
           loopback |-> s.loopback, threshold |-> s.threshold]}

\* start_video_test, which may find nothing at that number.
Preview(s) == {NoPreview, [on |-> TRUE, camera |-> s.camera]}

\* Mutant of Restarted: a test without loopback is thought to need no restart.
RestartedIfHeard(s) == IF test.on /\ test.loopback THEN Test(s) ELSE {test}

\* restart_test: a test that runs is stopped and started with the new settings.
Restarted(s) == IF test.on THEN Test(s) ELSE {test}

Chosen == listed \cup {None}

ChooseInput ==
    /\ view = "Settings"
    /\ \E d \in Chosen : set' = [set EXCEPT !.input = d]
    /\ test' \in Restarted(set')
    /\ UNCHANGED <<view, file, plugged, listed, preview, voice, apart>>

\* The output matters to a test with loopback only.
ChooseOutput ==
    /\ view = "Settings"
    /\ \E d \in Chosen : set' = [set EXCEPT !.output = d]
    /\ test' \in IF set.loopback THEN Restarted(set') ELSE {test}
    /\ UNCHANGED <<view, file, plugged, listed, preview, voice, apart>>

ToggleLoopback ==
    /\ view = "Settings"
    /\ set' = [set EXCEPT !.loopback = ~@]
    /\ test' \in Restarted(set')
    /\ UNCHANGED <<view, file, plugged, listed, preview, voice, apart>>

\* The capture of a test takes the new value as it runs; the call's does not.
MoveThreshold ==
    /\ view = "Settings"
    /\ \E l \in Levels :
           /\ set' = [set EXCEPT !.threshold = l]
           /\ test' = IF test.on THEN [test EXCEPT !.threshold = l] ELSE test
    /\ UNCHANGED <<view, file, plugged, listed, preview, voice, apart>>

\* Any number that the list has had.
ChooseCamera ==
    /\ view = "Settings"
    /\ \E c \in Cameras \cup {None} : set' = [set EXCEPT !.camera = c]
    /\ preview' \in IF preview.on THEN Preview(set') ELSE {preview}
    /\ UNCHANGED <<view, file, plugged, listed, test, voice, apart>>

ToggleTest ==
    /\ view = "Settings"
    /\ test' \in IF test.on THEN {NoTest} ELSE Test(set)
    /\ UNCHANGED <<view, set, file, plugged, listed, preview, voice, apart>>

TogglePreview ==
    /\ view = "Settings"
    /\ preview' \in IF preview.on THEN {NoPreview} ELSE Preview(set)
    /\ UNCHANGED <<view, set, file, plugged, listed, test, voice, apart>>

-----------------------------------------------------------------------------
\* The view is opened from the main view, and lists the devices if it has none.
OpenSettings ==
    /\ view = "Main" /\ view' = "Settings"
    /\ listed' = IF listed = {} THEN plugged ELSE listed
    /\ UNCHANGED <<set, file, plugged, test, preview, voice, apart>>

(* Closed: both tests stop, whichever section is shown, and the settings   *)
(* are saved.  A save that fails leaves the file as it was, or cut short   *)
(* so that it cannot be read, and is only logged.                          *)
CloseSettings ==
    /\ view = "Settings" /\ view' = "Main"
    /\ test' = NoTest /\ preview' = NoPreview
    /\ \/ file' = set /\ apart' = FALSE
       \/ file' \in {file, Defaults} /\ apart' = TRUE
    /\ UNCHANGED <<set, plugged, listed, voice>>

\* The program ends, from whichever view, and starts again with what the file has.
Quit ==
    /\ view # "off" /\ view' = "off"
    /\ test' = NoTest /\ preview' = NoPreview
    /\ joined' = FALSE /\ was' = FALSE /\ call' = "none" /\ detector' = "none"
    /\ set' = Defaults /\ listed' = {}
    /\ UNCHANGED <<file, plugged, apart>>

StartUp ==
    /\ view = "off" /\ view' = "Main"
    /\ \/ set' = file /\ apart' = FALSE
       \/ set' = Defaults /\ apart' = TRUE
    /\ UNCHANGED <<file, plugged, listed, test, preview, voice>>

-----------------------------------------------------------------------------
\* A task or an event sets or clears voice_channel_id, whatever view there is.
Voice ==
    /\ view # "off" /\ joined' = ~joined
    /\ UNCHANGED <<view, set, file, plugged, listed, test, preview, was, call,
                   detector, apart>>

\* MainView::show, when voice has been joined since the last frame: a capture from the
\* selected device, or from the default one if that is not found (which is also so for
\* a name with the suffix), if one starts; the detector only with a capture.
Join ==
    /\ view = "Main" /\ joined /\ ~was
    /\ \/ UNCHANGED <<call, detector>>
       \/ plugged # {} /\ call' = set.threshold /\ detector' = set.threshold
    /\ was' = TRUE
    /\ UNCHANGED <<view, set, file, plugged, listed, test, preview, joined, apart>>

\* ... or left: VoiceChannelView::cleanup drops the detector.
Leave ==
    /\ view = "Main" /\ ~joined /\ was
    /\ call' = "none" /\ detector' = "none"
    /\ was' = FALSE
    /\ UNCHANGED <<view, set, file, plugged, listed, test, preview, joined, apart>>

Next ==
    \/ Replug \/ Refresh
    \/ ChooseInput \/ ChooseOutput \/ ToggleLoopback \/ MoveThreshold \/ ToggleTest
    \/ ChooseCamera \/ TogglePreview
    \/ OpenSettings \/ CloseSettings \/ Quit \/ StartUp
    \/ Voice \/ Join \/ Leave

Spec == Init /\ [][Next]_vars

-----------------------------------------------------------------------------
(* However often the settings are changed and devices come and go: a test  *)
(* that runs is a test of the settings the view shows (of a camera, the    *)
(* number), and none runs outside the view; what the main view uses is     *)
(* what the file has, unless the file could not be written or read the     *)
(* last time; and the detector is there just when something is captured    *)
(* for it, with one threshold for what is let through and what is speech.  *)
SettingsAgree ==
    /\ test.on => test = [on |-> TRUE, input |-> set.input, loopback |-> set.loopback,
                          output |-> IF set.loopback THEN set.output ELSE None,
                          threshold |-> set.threshold]
    /\ preview.on => preview.camera = set.camera
    /\ test.on \/ preview.on => view = "Settings"
    /\ view = "Main" /\ ~apart => file = set
    /\ call = detector
=============================================================================
