----------------------------- MODULE TimeServer -----------------------------
(***************************************************************************)
(* The time server (src/DGWTimeServer/TimeServerThread.cpp): a thread that *)
(* looks at the clock twice a second and on the hour, the half hour or the *)
(* quarter sends each repeater of the gateway a G2 stream that says and    *)
(* shows the time.                                                         *)
(*                                                                         *)
(* An hour word is the number it stands for.  The minutes between two      *)
(* quarters are one minute, Between.  Sending takes seconds, and while it  *)
(* lasts the clock is not looked at.                                       *)
(***************************************************************************)
EXTENDS Naturals

CONSTANTS Round,         \* frames from sync to sync: 21
          Lengths,       \* how many frames the words of an announcement take
          NoHour         \* no hour word is said

ASSUME RoundAssumption == Round \in Nat \ {0} /\ Lengths \subseteq Nat \ {0}
ASSUME NoHourAssumption == NoHour \notin 0..23

VARIABLES
    hour, min, passing,            \* the clock: a quarter, or the minutes Between after it
    language, format, interval,    \* m_language, m_format, m_interval
    lastMin, timePhase, looked,    \* the thread; whether it has looked in this minute
    at, frames, out, mark,         \* the announcement: its time, how many frames it has, how
                                   \* many are sent, the last one
    announced,                     \* history: how often in this minute
    missable                       \* history: whether this minute is the first of the run

timeVars == <<hour, min, passing, language, format, interval, lastMin, timePhase, looked,
              at, frames, out, mark, announced, missable>>

Languages == {"ENGLISH_UK_1", "ENGLISH_UK_2", "ENGLISH_US_1", "ENGLISH_US_2", "DEUTSCH_1",
              "DEUTSCH_2", "FRANCAIS", "FRANCAIS_2", "NEDERLANDS", "SVENSKA", "ESPANOL", "NORSK", "PORTUGUES"}
Quarters == {0, 15, 30, 45}
Between == 1
Now == IF passing THEN Between ELSE min

-----------------------------------------------------------------------------
(* What is said: the hour word, whether the minutes lead up to that hour   *)
(* ("a quarter to", "halb"), the minutes, and 1 or 2 for AM or PM or what  *)
(* a language has in their place.                                          *)
Words(h, up, m, part) == [hour |-> h, up |-> up, min |-> m, part |-> part]

NextHour(h) == IF h = 23 THEN 0 ELSE h + 1
(* Hours are counted to twelve, but midnight and noon have their own word. *)
ToNoon(h) == IF h \in {0, 12} THEN h ELSE h % 12
Half(h) == IF h >= 12 THEN 2 ELSE 1

EnGB1(h, m) == Words(h % 12, FALSE, m, Half(h))
EnUS1(h, m) == Words(h % 12, FALSE, m, Half(h))
(* Variant: a quarter to the hour that is running.                         *)
EnGB2Running(h, m) == Words(h % 12, m = 45, m, 0)
EnGB2(h, m) == Words((IF m = 45 THEN NextHour(h) ELSE h) % 12, m = 45, m, 0)
EnUS2(h, m) == Words((IF m = 45 THEN NextHour(h) ELSE h) % 12, m = 45, m, 0)
DeDE1(h, m) == Words(h, FALSE, m, 0)
DeDE2(h, m) == Words(ToNoon(IF m >= 30 THEN NextHour(h) ELSE h), m >= 30, m, 0)
(* The hour is counted on before the words are chosen, and only after that *)
(* wrapped: there is no word for 24.                                       *)
FrFR(h, m) == LET k == IF m = 45 THEN h + 1 ELSE h
              IN Words(IF k = 24 THEN NoHour ELSE ToNoon(k), m = 45, m, 0)
NlNL(h, m) == Words((IF m >= 30 THEN NextHour(h) ELSE h) % 12, m >= 30, m, 0)
SeSE(h, m) == Words((IF m >= 30 THEN NextHour(h) ELSE h) % 12, m >= 30, m, 0)
EsES(h, m) == LET k == IF m = 45 THEN (h + 1) % 24 ELSE h
              IN Words(ToNoon(k), m = 45, m, IF k \in {0, 12} THEN 0 ELSE Half(k))
NoNO(h, m) == Words((IF m >= 30 THEN NextHour(h) ELSE h) % 12, m >= 30, m, 0)
PtPT(h, m) == Words(ToNoon(IF m = 45 THEN (h + 1) % 24 ELSE h), m = 45, m, 0)

Said(l, h, m) ==
  CASE l = "ENGLISH_UK_1" -> EnGB1(h, m)
    [] l = "ENGLISH_UK_2" -> EnGB2(h, m)
    [] l = "ENGLISH_US_1" -> EnUS1(h, m)
    [] l = "ENGLISH_US_2" -> EnUS2(h, m)
    [] l = "DEUTSCH_1" -> DeDE1(h, m)
    [] l = "DEUTSCH_2" -> DeDE2(h, m)
    [] l \in {"FRANCAIS", "FRANCAIS_2"} -> FrFR(h, m)
    [] l = "NEDERLANDS" -> NlNL(h, m)
    [] l = "SVENSKA" -> SeSE(h, m)
    [] l = "ESPANOL" -> EsES(h, m)
    [] l = "NORSK" -> NoNO(h, m)
    [] l = "PORTUGUES" -> PtPT(h, m)

(* What is shown, as text in the slow data.                                *)
Shown(l, h, m) == IF l \in {"ENGLISH_UK_1", "ENGLISH_US_1"}
                  THEN [hour |-> IF h \in {0, 12} THEN 12 ELSE h % 12, min |-> m, part |-> Half(h)]
                  ELSE [hour |-> h, min |-> m, part |-> 0]

(* The times of day a listener may take it for, in minutes.                *)
Heard(said) == {t \in 0..1439:
                  /\ said.hour # NoHour
                  /\ LET full == t + (IF said.up THEN 60 - said.min ELSE 1440 - said.min) IN
                     /\ full % 60 = 0
                     /\ (full \div 60) % 12 = said.hour % 12
                     /\ said.part = 1 => (full \div 60) % 24 < 12
                     /\ said.part = 2 => (full \div 60) % 24 >= 12}

-----------------------------------------------------------------------------
TimeInit ==
  /\ hour \in 0..23 /\ min \in Quarters /\ passing \in BOOLEAN
  /\ language \in Languages /\ format \in {"voice", "text"} /\ interval \in {15, 30, 60}
  /\ lastMin = 0
  /\ timePhase = "loading" /\ looked = FALSE
  /\ at = [hour |-> 0, min |-> 0] /\ frames = 0 /\ out = 0 /\ mark = 0
  /\ announced = 0 /\ missable = TRUE

(* Without the AMBE files of the language there is text only.              *)
LoadAMBE ==
  /\ timePhase = "loading"
  /\ timePhase' = "waiting"
  /\ format' \in (IF format = "voice" THEN {"voice", "text"} ELSE {"text"})
  /\ UNCHANGED <<hour, min, passing, language, interval, lastMin, looked,
                 at, frames, out, mark, announced, missable>>

(* The minute changes.  The thread sleeps 450 ms, so it has looked in any  *)
(* minute it was not sending in.                                           *)
Minute ==
  /\ looked \/ timePhase = "sending"
  /\ IF passing THEN /\ min' = (min + 15) % 60
                     /\ hour' = IF min = 45 THEN (hour + 1) % 24 ELSE hour
                ELSE UNCHANGED <<hour, min>>
  /\ passing' = ~passing
  /\ timePhase = "sending" => passing'   \* an announcement ends within a quarter of an hour
  /\ looked' = FALSE /\ announced' = 0 /\ missable' = FALSE
  /\ UNCHANGED <<language, format, interval, lastMin, timePhase, at, frames, out, mark>>

Due == Now # lastMin /\ Now \in {m \in Quarters: m % interval = 0}

(* sendTime builds the frames: the silence and the words, or one round of  *)
(* silence when there is text only.                                        *)
Announce ==
  IF Due THEN /\ timePhase' = "sending"
              /\ at' = [hour |-> hour, min |-> Now]
              /\ frames' \in (IF format = "voice" THEN Lengths ELSE {Round})
              /\ out' = 0 /\ mark' = 0
              /\ announced' = announced + 1
         ELSE UNCHANGED <<timePhase, at, frames, out, mark, announced>>

(* Variant: the minute is only remembered when nothing is sent in it.      *)
LookAgain ==
  /\ timePhase = "waiting"
  /\ looked' = TRUE
  /\ lastMin' = IF Due THEN lastMin ELSE Now
  /\ Announce
  /\ UNCHANGED <<hour, min, passing, language, format, interval, missable>>

(* One turn of Entry's loop.                                               *)
Look ==
  /\ timePhase = "waiting"
  /\ looked' = TRUE
  /\ lastMin' = Now
  /\ Announce
  /\ UNCHANGED <<hour, min, passing, language, format, interval, missable>>

(* buildAudio's numbers: the frames go round from 0, and the end pattern,  *)
(* which comes after them, carries the number that is next.                *)
NumberOf(i) == IF i < frames THEN i % Round ELSE IF frames % Round = 0 THEN 0 ELSE frames % Round

(* The next frame, to every repeater, under the stream number of each.     *)
SendFrame ==
  /\ timePhase = "sending" /\ out <= frames
  /\ mark' = NumberOf(out) + (IF out = frames THEN 64 ELSE 0)
  /\ out' = out + 1
  /\ UNCHANGED <<hour, min, passing, language, format, interval, lastMin, timePhase, looked,
                 at, frames, announced, missable>>

(* The last frame is gone: the sockets are closed, the loop goes on with   *)
(* the minute it announced as the last one.                                *)
SendEnds ==
  /\ timePhase = "sending" /\ out = frames + 1
  /\ timePhase' = "waiting"
  /\ UNCHANGED <<hour, min, passing, language, format, interval, lastMin, looked,
                 at, frames, out, mark, announced, missable>>

TimeNext == LoadAMBE \/ Minute \/ Look \/ SendFrame \/ SendEnds
TimeSpec == TimeInit /\ [][TimeNext]_timeVars

-----------------------------------------------------------------------------
(* Every quarter, half or hour that is to be announced is, and once: the   *)
(* turn of the loop that follows a sending falls into the same minute or   *)
(* into a later one.  A server started in minute 0 takes it for the last   *)
(* minute and skips it.                                                    *)
OncePerInterval ==
  [][Minute /\ ~passing /\ min % interval = 0 /\ ~(missable /\ min = 0) => announced = 1]_timeVars

(* Words and text name the time at which the announcement began, and a     *)
(* listener who knows morning from evening cannot take it for another one. *)
(* The French quarter to midnight is left out: it has no hour word.        *)
TellsTheTime ==
  timePhase = "sending" =>
    LET t == at.hour * 60 + at.min
        said == Said(language, at.hour, at.min)
        shown == Shown(language, at.hour, at.min)
    IN /\ ~(language \in {"FRANCAIS", "FRANCAIS_2"} /\ at.hour = 23 /\ at.min = 45)
            => t \in Heard(said) /\ \A u \in Heard(said): u % 720 = t % 720
       /\ shown.hour % 12 = at.hour % 12 /\ shown.min = at.min
       /\ shown.part = 0 => shown.hour = at.hour
=============================================================================
