--------------------------- MODULE LaunchMethods ---------------------------
(* The launch methods of settings/mode.py and the engine executable each one *)
(* runs.  A method is the mode the user selects; orchestra shares winws2.exe  *)
(* with the zapret2 mode.                                                     *)
EXTENDS Naturals

ZAPRET1_MODE   == "zapret1_mode"
ZAPRET2_MODE   == "zapret2_mode"
ORCHESTRA_MODE == "orchestra"

ALL_LAUNCH_METHODS    == {ZAPRET1_MODE, ZAPRET2_MODE, ORCHESTRA_MODE}
PRESET_LAUNCH_METHODS == {ZAPRET1_MODE, ZAPRET2_MODE}

\* normalize_launch_method(value, default="") of an absent value.
NoMethod == ""

EXE_NAME_WINWS1 == "winws.exe"
EXE_NAME_WINWS2 == "winws2.exe"
ALL_WINWS_EXE_NAMES == {EXE_NAME_WINWS1, EXE_NAME_WINWS2}

exe_name_for_launch_method(m) ==
    IF m = ZAPRET1_MODE THEN EXE_NAME_WINWS1 ELSE EXE_NAME_WINWS2

\* PresetLaunchRuntime._expected_process_name: the monitor is told to expect
\* no particular executable in the orchestra mode.
NoExe == ""
expected_process_name(m) ==
    IF m = ORCHESTRA_MODE THEN NoExe ELSE exe_name_for_launch_method(m)
=============================================================================
