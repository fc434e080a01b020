--------------------------- MODULE BriefingPodcast ---------------------------
(***************************************************************************)
(* The podcast of a briefing: a script in its row, and a file of sound     *)
(* under its number, put together of one file for each turn of the script. *)
(* Its owner asks for it, and a feed makes it for what has a script; no    *)
(* request knows of another, and their files have the same names.          *)
(***************************************************************************)
EXTENDS Integers, Sequences, FiniteSets

CONSTANTS
  Callers,      \* requests; each may make a script, and make it once
  Silent,       \* no script, and no file
  Torn,         \* sound that is of no script from its beginning to its end
  Turns,        \* of a script
  MaxVersion,   \* bound: tokens of the feed
  MaxStops      \* bound: stops of the process

ASSUME PodcastAssumption ==
  /\ Torn \notin Callers
  /\ Silent \notin Callers \cup {Torn} \cup UNION {[1 .. k -> Callers \cup {Torn}] : k \in 0 .. Turns + 1}
  /\ {Turns, MaxVersion} \subseteq Nat \ {0} /\ MaxStops \in Nat

VARIABLES
  script,    \* in the row: the caller who made it, or Silent
  sound,     \* the file: its turns, of which script each is, or Silent
  bits,      \* the file of each turn
  callers,   \* [pc, script, turn, held, alone, file]
  wrote,     \* how the last writing of the file went (auxiliary)
  version,   \* of the feed's token
  token,     \* the version that the subscribed client has
  stops

podcastVars == <<script, sound, bits, callers, wrote, version, token, stops>>

Waiting == [pc |-> "waiting", script |-> Silent, turn |-> 1, held |-> <<>>, alone |-> TRUE,
            file |-> "own"]
AtWork == {r \in Callers : callers[r].pc \notin {"waiting", "gone"}}

PodcastTypeOK ==
  /\ script \in Callers \cup {Silent}
  /\ sound \in {Silent} \cup UNION {[1 .. k -> Callers \cup {Torn}] : k \in 0 .. Turns + 1}
  /\ bits \in [1 .. Turns -> Callers \cup {Torn, Silent}]
  /\ \A r \in Callers :
       /\ callers[r].pc \in {"waiting", "script", "look", "speak", "stream", "read", "unlink", "tidy",
                               "write", "fill", "gone"}
       /\ callers[r].turn \in 1 .. Turns + 1 /\ Len(callers[r].held) <= Turns
       /\ callers[r].file \in {"own", "mixed", "gone"}
  /\ wrote \in {"nothing", "alone", "together", "cut"}
  /\ version \in 1 .. MaxVersion /\ token \in 0 .. MaxVersion /\ stops \in 0 .. MaxStops

PodcastInit ==
  /\ script = Silent /\ sound = Silent /\ bits = [i \in 1 .. Turns |-> Silent]
  /\ callers = [r \in Callers |-> Waiting] /\ wrote = "nothing"
  /\ version = 1 /\ token = 0 /\ stops = 0

-----------------------------------------------------------------------------
(* A request.                                                              *)

\* Who begins while another is at work has company, and the other, too.
Enter(r, pc) ==
  callers' = [q \in Callers |->
    IF q = r THEN [Waiting EXCEPT !.pc = pc, !.script = script, !.alone = AtWork = {}]
    ELSE IF q \in AtWork THEN [callers[q] EXCEPT !.alone = FALSE] ELSE callers[q]]

Go(r, pc) == callers' = [callers EXCEPT ![r].pc = pc]
Leave(r) == callers' = [callers EXCEPT ![r] = [Waiting EXCEPT !.pc = "gone"]]

\* The owner: nothing is to do where there is a file, and the script of the row is
\* taken where there is one.
GeneratePodcast(r) ==
  /\ callers[r].pc = "waiting" /\ sound = Silent
  /\ Enter(r, IF script = Silent THEN "script" ELSE "look")
  /\ UNCHANGED <<script, sound, bits, wrote, version, token, stops>>

\* The feed makes what has a script and no file, for a client whose token is not revoked.
PodcastFeed(r) ==
  /\ callers[r].pc = "waiting" /\ sound = Silent /\ script # Silent
  /\ token = version
  /\ Enter(r, "look")
  /\ UNCHANGED <<script, sound, bits, wrote, version, token, stops>>

\* Wrong: the script is used and not stored.
ScriptUnstored(r) == script
\* The script is stored over whatever another has stored meanwhile.
ScriptStored(r) == r

MakeScript(r) ==
  /\ callers[r].pc = "script" /\ script' = ScriptStored(r)
  /\ callers' = [callers EXCEPT ![r].pc = "look", ![r].script = r]
  /\ UNCHANGED <<sound, bits, wrote, version, token, stops>>

LookForFile(r) ==
  /\ callers[r].pc = "look"
  /\ IF sound = Silent THEN Go(r, "speak") ELSE Leave(r)
  /\ UNCHANGED <<script, sound, bits, wrote, version, token, stops>>

\* The file of a turn has the name of the briefing and of the turn.  Who opens it
\* empties it, also for those who stream into it: what they write is mixed then.
Streaming(turn) ==
  {q \in Callers : callers[q].pc = "stream" /\ callers[q].turn = turn /\ callers[q].file # "gone"}

OpenTurn(r) ==
  /\ callers[r].pc = "speak"
  /\ LET turn   == callers[r].turn
         others == Streaming(turn)
     IN /\ bits' = [bits EXCEPT ![turn] = Torn]
        /\ callers' = [q \in Callers |->
             IF q = r THEN [callers[r] EXCEPT !.pc = "stream", !.file = IF others = {} THEN "own" ELSE "mixed"]
             ELSE IF q \in others THEN [callers[q] EXCEPT !.file = "mixed"] ELSE callers[q]]
  /\ UNCHANGED <<script, sound, wrote, version, token, stops>>

\* The stream ends.  Into a file that another has opened meanwhile two have written,
\* each from where it was; one that was removed is found by nobody any more.
StreamTurn(r) ==
  /\ callers[r].pc = "stream"
  /\ LET turn == callers[r].turn
         own  == callers[r].script
     IN \E bit \in CASE callers[r].file = "own"   -> {own}
                     [] callers[r].file = "mixed" -> {own, Torn, bits[turn]}
                     [] OTHER                     -> {bits[turn]} :
          bits' = [bits EXCEPT ![turn] = bit]
  /\ Go(r, "read")
  /\ UNCHANGED <<script, sound, wrote, version, token, stops>>

\* What is there is read, be it of another or not yet whole; another may have removed
\* it, which fails the request.
ReadTurn(r) ==
  /\ callers[r].pc = "read"
  /\ LET bit == bits[callers[r].turn]
     IN IF bit = Silent THEN Go(r, "tidy")
        ELSE callers' = [callers EXCEPT ![r].held = Append(@, bit), ![r].pc = "unlink"]
  /\ UNCHANGED <<script, sound, bits, wrote, version, token, stops>>

\* Without the file of its turn: r goes on as the caller after, and who streams into
\* the file does so in vain.
Unlink(r, after) ==
  LET turn == callers[r].turn
  IN /\ bits' = [bits EXCEPT ![turn] = Silent]
     /\ callers' = [q \in Callers |->
          IF q = r THEN after
          ELSE IF q \in Streaming(turn) THEN [callers[q] EXCEPT !.file = "gone"] ELSE callers[q]]

\* A file that another has removed before is passed over, or is missed if it was
\* there a moment ago, which fails the request.
RemoveTurn(r) ==
  /\ callers[r].pc = "unlink"
  /\ \/ Unlink(r, [callers[r] EXCEPT !.turn = @ + 1, !.pc = IF callers[r].turn = Turns THEN "write" ELSE "speak"])
     \/ bits[callers[r].turn] = Silent /\ Leave(r) /\ UNCHANGED bits
  /\ UNCHANGED <<script, sound, wrote, version, token, stops>>

\* Who has failed in a turn removes its file, if there is one, too.
TidyUp(r) ==
  /\ callers[r].pc = "tidy" /\ Unlink(r, [Waiting EXCEPT !.pc = "gone"])
  /\ UNCHANGED <<script, sound, wrote, version, token, stops>>

\* The file is opened, which empties it, and filled.
OpenFile(r) ==
  /\ callers[r].pc = "write" /\ sound' = <<>> /\ wrote' = "cut" /\ Go(r, "fill")
  /\ UNCHANGED <<script, bits, version, token, stops>>
\* Over what another has filled in meanwhile; the rest of a longer one stays.
FillFile(r) ==
  /\ callers[r].pc = "fill"
  /\ \/ sound' = callers[r].held
     \/ sound # <<>> /\ sound' = Append(callers[r].held, Torn)
  /\ wrote' = IF callers[r].alone THEN "alone" ELSE "together"
  /\ Leave(r)
  /\ UNCHANGED <<script, bits, version, token, stops>>

\* The service fails: before the file is opened, or while it streams.
SpeechFails(r) ==
  /\ \/ callers[r].pc = "script" /\ Leave(r)
     \/ callers[r].pc \in {"speak", "stream"} /\ Go(r, "tidy")
  /\ UNCHANGED <<script, sound, bits, wrote, version, token, stops>>

\* The process stops; what is on the disk stays.
PodcastStops ==
  /\ stops < MaxStops /\ stops' = stops + 1 /\ AtWork # {}
  /\ callers' = [r \in Callers |-> IF r \in AtWork THEN [Waiting EXCEPT !.pc = "gone"] ELSE callers[r]]
  /\ UNCHANGED <<script, sound, bits, wrote, version, token>>

\* A token is given out, and revoked.
GiveToken == token' = version /\ UNCHANGED <<script, sound, bits, callers, wrote, version, stops>>
RevokeToken ==
  /\ version < MaxVersion /\ version' = version + 1
  /\ UNCHANGED <<script, sound, bits, callers, wrote, token, stops>>

PodcastNext ==
  \/ PodcastStops \/ GiveToken \/ RevokeToken
  \/ \E r \in Callers :
       \/ GeneratePodcast(r) \/ PodcastFeed(r) \/ MakeScript(r) \/ LookForFile(r)
       \/ OpenTurn(r) \/ StreamTurn(r) \/ ReadTurn(r) \/ RemoveTurn(r) \/ TidyUp(r)
       \/ OpenFile(r) \/ FillFile(r) \/ SpeechFails(r)

PodcastSpec == PodcastInit /\ [][PodcastNext]_podcastVars

-----------------------------------------------------------------------------
(* Properties.                                                             *)

\* Who makes a podcast without company makes it whole, of the script of the row,
\* whatever an earlier request has left of its own; and no podcast is without a
\* script that its reader can be shown.
PodcastSaysScript ==
  /\ wrote = "alone" => sound = [i \in 1 .. Turns |-> script]
  /\ sound # Silent => script # Silent

\* Holds not: two requests together make a podcast of two scripts, or of another
\* than the one of the row.
PodcastIsOfOneScript ==
  wrote \in {"alone", "together"} =>
    \A i \in 1 .. Len(sound) : sound[i] \in {script, Torn}

\* Holds not: one of two requests reads the file of a turn that the other has just
\* emptied, and the podcast lacks the turn, or the rest of it; or fills in its file
\* over a longer one.
TurnsAreWhole == wrote \in {"alone", "together"} => sound \in [1 .. Turns -> Callers]

\* Holds not: a stop while the file is filled leaves it cut, and no request makes it
\* again, because it is there.
PodcastIsWhole == AtWork = {} /\ sound # Silent => wrote # "cut"
=============================================================================
