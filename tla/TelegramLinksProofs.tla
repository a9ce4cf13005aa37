--------------------------- MODULE TelegramLinksProofs ---------------------------
(***************************************************************************)
(* Type correctness of TelegramLinks, that a link let go is not walked, and *)
(* that a chat that is linked stays followed while its requests follow one  *)
(* another, for any number of chats, browsers, tokens, requests and passes. *)
(***************************************************************************)
EXTENDS TelegramLinks, TLAPS

-----------------------------------------------------------------------------
(***************************************************************************)
(* The invariant.                                                          *)
(***************************************************************************)
\* The steps of a claim that may still put its token into the set.
AddSteps == {"claimGet", "claimCount", "claimKey", "claimWrite", "claimAdd"}

\* Where forgetLink, the search for a chat's link, and indexLink go on.
AfterForget == {"idle", "mint", "claimAgain", "build", "passIndex"}

\* What a process has to know at the step it is at.
Shape(s) ==
  /\ s.kept \in [Tokens -> Chats \cup {NoLink}]
  /\ s.at \in AddSteps => s.token \in Tokens /\ s.chat \in Chats
  /\ s.at = "indexGet" => s.chat \in Chats
  /\ s.at \in ForgetSteps => s.other \in Tokens /\ s.back \in AfterForget
  /\ s.at \in FindSteps => s.back \in Commands
  /\ s.at \in {"findLink", "findKey", "stop"} => s.token \in Tokens
  /\ s.at \in IndexSteps => s.token \in Tokens /\ s.back \in {"build", "passIndex"}
  /\ s.at \in {"indexOther", "indexTake"} => s.other \in Tokens

Typed == TypeOK /\ \A p \in Processes : Shape(proc[p])

\* What is gone is not being claimed by a request that may yet add it.
GoneAreNotAdding ==
  \A h \in Handlers : proc[h].at \in AddSteps => proc[h].token \notin gone

IInv == Typed /\ GoneAreNotAdding /\ GoneIsNotWalked

-----------------------------------------------------------------------------
(***************************************************************************)
(* Processes.                                                              *)
(***************************************************************************)
LEMMA StepsAre ==
  /\ ForgetSteps \cup ClaimSteps \cup FindSteps \cup IndexSteps \cup PassSteps
       \cup {"idle", "mint", "stop", "toggle"} \subseteq Steps
  /\ AddSteps \subseteq ClaimSteps /\ AfterForget \subseteq Steps /\ Commands \subseteq Steps
  BY DEF Steps, AddSteps, AfterForget, Commands, ClaimSteps, PassSteps

\* The step of a process p that leaves the others where they are.
Moves(p) ==
  /\ proc' \in [Processes -> ProcessState]
  /\ Shape(proc'[p])
  /\ \A q \in Processes \ {p} : proc'[q] = proc[q]

\* A step that begins no claim.
Carries(p) ==
  proc'[p].at \in AddSteps => proc[p].at \in AddSteps /\ proc'[p].token = proc[p].token

\* A process as it stands.
Stands(p) ==
  /\ proc \in [Processes -> ProcessState] /\ proc[p] \in ProcessState
  /\ Shape(proc[p])
  /\ link \in [Tokens -> Link] /\ chatKey \in [Chats -> Tokens \cup {NoToken}]
  /\ watches \subseteq Tokens /\ cookie \in [Browsers -> Tokens \cup {NoToken}]

LEMMA StandsTyped == ASSUME Typed, NEW p \in Processes PROVE Stands(p)
BY DEF Typed, TypeOK, Stands

LEMMA IdleIs == Idle \in ProcessState /\ Shape(Idle) /\ Idle.at = "idle"
<1>1. Nothing \in [Tokens -> Link] /\ Nothing \in [Tokens -> Chats \cup {NoLink}]
  BY DEF Nothing, Link
<1>2. "idle" \in Steps /\ NoLink \in Link
  BY DEF Steps, Link
<1> QED
  BY <1>1, <1>2 DEF Idle, ProcessState, Shape, AddSteps, ForgetSteps, FindSteps,
     IndexSteps, AfterForget, Commands

LEMMA EndsMoves ==
  ASSUME Typed, NEW p \in Processes, Ends(p)
  PROVE  Moves(p) /\ Carries(p)
<1>1. Stands(p) /\ proc' = [proc EXCEPT ![p] = Idle]
  BY StandsTyped DEF Ends
<1> QED
  BY <1>1, IdleIs DEF Stands, Moves, Carries, AddSteps

LEMMA ForgetReadMoves ==
  ASSUME Typed, NEW p \in Processes, ForgetRead(p)
  PROVE  Moves(p) /\ Carries(p)
<1>1. Stands(p)
  BY StandsTyped
<1>2. CASE /\ Claimed(proc[p].other)
           /\ proc' = [proc EXCEPT ![p].at = "forgetKey",
                                   ![p].owner = link[proc[p].other]]
  <2>1. [proc[p] EXCEPT !.at = "forgetKey", !.owner = link[proc[p].other]] \in ProcessState
    BY <1>1, <1>2, StepsAre DEF ForgetRead, Claimed, Stands, ProcessState, Shape,
       AddSteps, ForgetSteps, FindSteps, IndexSteps, AfterForget, Commands
  <2>2. proc' \in [Processes -> ProcessState]
    BY <1>1, <1>2, <2>1 DEF Stands
  <2> QED
    BY <1>1, <1>2, <2>2 DEF ForgetRead, Claimed, Stands, Moves, Carries, Shape,
       AddSteps, ForgetSteps, FindSteps, IndexSteps, AfterForget, Commands
<1>3. CASE Goes(p, "forgetDel")
  <2>1. [proc[p] EXCEPT !.at = "forgetDel"] \in ProcessState
    BY <1>1, <1>3, StepsAre DEF ForgetRead, Claimed, Stands, ProcessState, Shape,
       AddSteps, ForgetSteps, FindSteps, IndexSteps, AfterForget, Commands
  <2>2. proc' \in [Processes -> ProcessState]
    BY <1>1, <1>3, <2>1 DEF Goes, Stands
  <2> QED
    BY <1>1, <1>3, <2>2 DEF ForgetRead, Claimed, Goes, Stands, Moves, Carries, Shape,
       AddSteps, ForgetSteps, FindSteps, IndexSteps, AfterForget, Commands
<1> QED  BY <1>1, <1>2, <1>3 DEF ForgetRead, Claimed

LEMMA ForgetKeyMoves ==
  ASSUME Typed, NEW p \in Processes, ForgetKey(p)
  PROVE  Moves(p) /\ Carries(p)
<1>1. Stands(p)
  BY StandsTyped
<1>2. CASE Goes(p, "forgetDelKey")
  <2>1. [proc[p] EXCEPT !.at = "forgetDelKey"] \in ProcessState
    BY <1>1, <1>2, StepsAre DEF ForgetKey, Stands, ProcessState, Shape, AddSteps,
       ForgetSteps, FindSteps, IndexSteps, AfterForget, Commands
  <2>2. proc' \in [Processes -> ProcessState]
    BY <1>1, <1>2, <2>1 DEF Goes, Stands
  <2> QED
    BY <1>1, <1>2, <2>2 DEF ForgetKey, Goes, Stands, Moves, Carries, Shape, AddSteps,
       ForgetSteps, FindSteps, IndexSteps, AfterForget, Commands
<1>3. CASE Goes(p, "forgetDel")
  <2>1. [proc[p] EXCEPT !.at = "forgetDel"] \in ProcessState
    BY <1>1, <1>3, StepsAre DEF ForgetKey, Stands, ProcessState, Shape, AddSteps,
       ForgetSteps, FindSteps, IndexSteps, AfterForget, Commands
  <2>2. proc' \in [Processes -> ProcessState]
    BY <1>1, <1>3, <2>1 DEF Goes, Stands
  <2> QED
    BY <1>1, <1>3, <2>2 DEF ForgetKey, Goes, Stands, Moves, Carries, Shape, AddSteps,
       ForgetSteps, FindSteps, IndexSteps, AfterForget, Commands
<1> QED  BY <1>1, <1>2, <1>3 DEF ForgetKey

LEMMA ForgetDelKeyMoves ==
  ASSUME Typed, NEW p \in Processes, ForgetDelKey(p)
  PROVE  Moves(p) /\ Carries(p)
<1>1. Stands(p)
  BY StandsTyped
<1>2. CASE Goes(p, "forgetDel")
  <2>1. [proc[p] EXCEPT !.at = "forgetDel"] \in ProcessState
    BY <1>1, <1>2, StepsAre DEF ForgetDelKey, Stands, ProcessState, Shape, AddSteps,
       ForgetSteps, FindSteps, IndexSteps, AfterForget, Commands
  <2>2. proc' \in [Processes -> ProcessState]
    BY <1>1, <1>2, <2>1 DEF Goes, Stands
  <2> QED
    BY <1>1, <1>2, <2>2 DEF ForgetDelKey, Goes, Stands, Moves, Carries, Shape,
       AddSteps, ForgetSteps, FindSteps, IndexSteps, AfterForget, Commands
<1> QED  BY <1>1, <1>2 DEF ForgetDelKey

LEMMA ForgetDelMoves ==
  ASSUME Typed, NEW p \in Processes, ForgetDel(p)
  PROVE  Moves(p) /\ Carries(p)
<1>1. Stands(p)
  BY StandsTyped
<1>2. CASE Goes(p, "forgetLeave")
  <2>1. [proc[p] EXCEPT !.at = "forgetLeave"] \in ProcessState
    BY <1>1, <1>2, StepsAre DEF ForgetDel, Stands, ProcessState, Shape, AddSteps,
       ForgetSteps, FindSteps, IndexSteps, AfterForget, Commands
  <2>2. proc' \in [Processes -> ProcessState]
    BY <1>1, <1>2, <2>1 DEF Goes, Stands
  <2> QED
    BY <1>1, <1>2, <2>2 DEF ForgetDel, Goes, Stands, Moves, Carries, Shape, AddSteps,
       ForgetSteps, FindSteps, IndexSteps, AfterForget, Commands
<1> QED  BY <1>1, <1>2 DEF ForgetDel

LEMMA ForgetLeaveMoves ==
  ASSUME Typed, NEW p \in Processes, ForgetLeave(p)
  PROVE  Moves(p) /\ Carries(p)
<1>1. Stands(p)
  BY StandsTyped
<1>2. CASE Ends(p)
  BY <1>2, EndsMoves
<1>3. CASE proc' = [proc EXCEPT ![p].at = proc[p].back, ![p].back = "idle",
                                ![p].other = NoToken, ![p].owner = NoChat,
                                ![p].kept[proc[p].other] = NoLink]
  <2>1. [proc[p] EXCEPT !.at = proc[p].back, !.back = "idle", !.other = NoToken,
                        !.owner = NoChat, !.kept[proc[p].other] = NoLink] \in ProcessState
    BY <1>1, <1>3, StepsAre DEF ForgetLeave, Stands, ProcessState, Shape, AddSteps,
       ForgetSteps, FindSteps, IndexSteps, AfterForget, Commands, Link
  <2>2. proc' \in [Processes -> ProcessState]
    BY <1>1, <1>3, <2>1 DEF Stands
  <2> QED
    BY <1>1, <1>3, <2>2 DEF ForgetLeave, Stands, Moves, Carries, Shape, AddSteps,
       ForgetSteps, FindSteps, IndexSteps, AfterForget, Commands
<1> QED  BY <1>1, <1>2, <1>3 DEF ForgetLeave

LEMMA ConnectMoves ==
  ASSUME Typed, NEW p \in Processes, NEW b \in Browsers, Connect(p, b)
  PROVE  Moves(p) /\ Carries(p)
<1>1. Stands(p)
  BY StandsTyped
<1>2. CASE /\ cookie[b] \in Tokens
           /\ proc' = [proc EXCEPT ![p].at = "forgetRead", ![p].back = "mint",
                                   ![p].other = cookie[b], ![p].browser = b]
  <2>1. [proc[p] EXCEPT !.at = "forgetRead", !.back = "mint", !.other = cookie[b],
                        !.browser = b] \in ProcessState
    BY <1>1, <1>2, StepsAre DEF Connect, Stands, ProcessState, Shape, AddSteps,
       ForgetSteps, FindSteps, IndexSteps, AfterForget, Commands
  <2>2. proc' \in [Processes -> ProcessState]
    BY <1>1, <1>2, <2>1 DEF Stands
  <2> QED
    BY <1>1, <1>2, <2>2 DEF Connect, Stands, Moves, Carries, Shape, AddSteps,
       ForgetSteps, FindSteps, IndexSteps, AfterForget, Commands
<1>3. CASE proc' = [proc EXCEPT ![p].at = "mint", ![p].browser = b]
  <2>1. [proc[p] EXCEPT !.at = "mint", !.browser = b] \in ProcessState
    BY <1>1, <1>3, StepsAre DEF Connect, Stands, ProcessState, Shape, AddSteps,
       ForgetSteps, FindSteps, IndexSteps, AfterForget, Commands
  <2>2. proc' \in [Processes -> ProcessState]
    BY <1>1, <1>3, <2>1 DEF Stands
  <2> QED
    BY <1>1, <1>3, <2>2 DEF Connect, Stands, Moves, Carries, Shape, AddSteps,
       ForgetSteps, FindSteps, IndexSteps, AfterForget, Commands
<1> QED  BY <1>1, <1>2, <1>3 DEF Connect, MintsFor

LEMMA MintMoves ==
  ASSUME Typed, NEW p \in Processes, Mint(p)
  PROVE  Moves(p) /\ Carries(p)
<1>1. Stands(p)
  BY StandsTyped
<1>2. CASE Ends(p)
  BY <1>2, EndsMoves
<1> QED  BY <1>1, <1>2 DEF Mint

LEMMA DisconnectMoves ==
  ASSUME Typed, NEW p \in Processes, NEW b \in Browsers, Disconnect(p, b)
  PROVE  Moves(p) /\ Carries(p)
<1>1. Stands(p)
  BY StandsTyped
<1>2. CASE proc' = [proc EXCEPT ![p].at = "forgetRead", ![p].other = cookie[b],
                                ![p].back = "idle"]
  <2>1. [proc[p] EXCEPT !.at = "forgetRead", !.other = cookie[b], !.back = "idle"] \in ProcessState
    BY <1>1, <1>2, StepsAre DEF Disconnect, Forgets, Stands, ProcessState, Shape,
       AddSteps, ForgetSteps, FindSteps, IndexSteps, AfterForget, Commands
  <2>2. proc' \in [Processes -> ProcessState]
    BY <1>1, <1>2, <2>1 DEF Stands
  <2> QED
    BY <1>1, <1>2, <2>2 DEF Disconnect, Forgets, Stands, Moves, Carries, Shape,
       AddSteps, ForgetSteps, FindSteps, IndexSteps, AfterForget, Commands
<1> QED  BY <1>1, <1>2 DEF Disconnect, Forgets

LEMMA ClaimGetMoves ==
  ASSUME Typed, NEW p \in Processes, ClaimGet(p)
  PROVE  Moves(p) /\ Carries(p)
<1>1. Stands(p)
  BY StandsTyped
<1>2. CASE proc' = [proc EXCEPT ![p].other = chatKey[proc[p].chat],
                                ![p].at = IF /\ proc[p].held = NoChat
                                             /\ chatKey[proc[p].chat] = NoToken
                                          THEN "claimCount" ELSE "claimKey"]
  <2>1. [proc[p] EXCEPT !.other = chatKey[proc[p].chat],
                        !.at = IF /\ proc[p].held = NoChat
                                  /\ chatKey[proc[p].chat] = NoToken
                               THEN "claimCount" ELSE "claimKey"] \in ProcessState
    BY <1>1, <1>2, StepsAre DEF ClaimGet, Stands, ProcessState, Shape, AddSteps,
       ForgetSteps, FindSteps, IndexSteps, AfterForget, Commands
  <2>2. proc' \in [Processes -> ProcessState]
    BY <1>1, <1>2, <2>1 DEF Stands
  <2> QED
    BY <1>1, <1>2, <2>2 DEF ClaimGet, Stands, Moves, Carries, Shape, AddSteps,
       ForgetSteps, FindSteps, IndexSteps, AfterForget, Commands
<1>3. CASE Ends(p)
  BY <1>3, EndsMoves
<1> QED  BY <1>1, <1>2, <1>3 DEF ClaimGet

LEMMA ClaimCountMoves ==
  ASSUME Typed, NEW p \in Processes, ClaimCount(p)
  PROVE  Moves(p) /\ Carries(p)
<1>1. Stands(p)
  BY StandsTyped
<1>2. CASE Goes(p, "claimKey")
  <2>1. [proc[p] EXCEPT !.at = "claimKey"] \in ProcessState
    BY <1>1, <1>2, StepsAre DEF ClaimCount, Stands, ProcessState, Shape, AddSteps,
       ForgetSteps, FindSteps, IndexSteps, AfterForget, Commands
  <2>2. proc' \in [Processes -> ProcessState]
    BY <1>1, <1>2, <2>1 DEF Goes, Stands
  <2> QED
    BY <1>1, <1>2, <2>2 DEF ClaimCount, Goes, Stands, Moves, Carries, Shape, AddSteps,
       ForgetSteps, FindSteps, IndexSteps, AfterForget, Commands
<1>3. CASE Ends(p)
  BY <1>3, EndsMoves
<1> QED  BY <1>1, <1>2, <1>3 DEF ClaimCount

LEMMA ClaimKeyMoves ==
  ASSUME Typed, NEW p \in Processes, ClaimKey(p)
  PROVE  Moves(p) /\ Carries(p)
<1>1. Stands(p)
  BY StandsTyped
<1>2. CASE Goes(p, "claimWrite")
  <2>1. [proc[p] EXCEPT !.at = "claimWrite"] \in ProcessState
    BY <1>1, <1>2, StepsAre DEF ClaimKey, Stands, ProcessState, Shape, AddSteps,
       ForgetSteps, FindSteps, IndexSteps, AfterForget, Commands
  <2>2. proc' \in [Processes -> ProcessState]
    BY <1>1, <1>2, <2>1 DEF Goes, Stands
  <2> QED
    BY <1>1, <1>2, <2>2 DEF ClaimKey, Goes, Stands, Moves, Carries, Shape, AddSteps,
       ForgetSteps, FindSteps, IndexSteps, AfterForget, Commands
<1>3. CASE Goes(p, "claimAdd")
  <2>1. [proc[p] EXCEPT !.at = "claimAdd"] \in ProcessState
    BY <1>1, <1>3, StepsAre DEF ClaimKey, Stands, ProcessState, Shape, AddSteps,
       ForgetSteps, FindSteps, IndexSteps, AfterForget, Commands
  <2>2. proc' \in [Processes -> ProcessState]
    BY <1>1, <1>3, <2>1 DEF Goes, Stands
  <2> QED
    BY <1>1, <1>3, <2>2 DEF ClaimKey, Goes, Stands, Moves, Carries, Shape, AddSteps,
       ForgetSteps, FindSteps, IndexSteps, AfterForget, Commands
<1>4. CASE Ends(p)
  BY <1>4, EndsMoves
<1> QED  BY <1>1, <1>2, <1>3, <1>4 DEF ClaimKey

LEMMA ClaimWriteMoves ==
  ASSUME Typed, NEW p \in Processes, ClaimWrite(p)
  PROVE  Moves(p) /\ Carries(p)
<1>1. Stands(p)
  BY StandsTyped
<1>2. CASE Goes(p, "claimAdd")
  <2>1. [proc[p] EXCEPT !.at = "claimAdd"] \in ProcessState
    BY <1>1, <1>2, StepsAre DEF ClaimWrite, Stands, ProcessState, Shape, AddSteps,
       ForgetSteps, FindSteps, IndexSteps, AfterForget, Commands
  <2>2. proc' \in [Processes -> ProcessState]
    BY <1>1, <1>2, <2>1 DEF Goes, Stands
  <2> QED
    BY <1>1, <1>2, <2>2 DEF ClaimWrite, Goes, Stands, Moves, Carries, Shape, AddSteps,
       ForgetSteps, FindSteps, IndexSteps, AfterForget, Commands
<1>3. CASE Ends(p)
  BY <1>3, EndsMoves
<1> QED  BY <1>1, <1>2, <1>3 DEF ClaimWrite

LEMMA ClaimAddMoves ==
  ASSUME Typed, NEW p \in Processes, ClaimAdd(p)
  PROVE  Moves(p) /\ Carries(p)
<1>1. Stands(p)
  BY StandsTyped
<1>2. CASE /\ proc[p].other \notin {NoToken, proc[p].token}
           /\ proc' = [proc EXCEPT ![p].at = "forgetRead", ![p].other = proc[p].other,
                                   ![p].back = "claimAgain"]
  <2>1. [proc[p] EXCEPT !.at = "forgetRead", !.other = proc[p].other,
                        !.back = "claimAgain"] \in ProcessState
    BY <1>1, <1>2, StepsAre DEF ClaimAdd, Forgets, Stands, ProcessState, Shape,
       AddSteps, ForgetSteps, FindSteps, IndexSteps, AfterForget, Commands
  <2>2. proc' \in [Processes -> ProcessState]
    BY <1>1, <1>2, <2>1 DEF Stands
  <2> QED
    BY <1>1, <1>2, <2>2 DEF ClaimAdd, Forgets, Stands, ProcessState, Moves, Carries,
       Shape, AddSteps, ForgetSteps, FindSteps, IndexSteps, AfterForget, Commands
<1>3. CASE Ends(p)
  BY <1>3, EndsMoves
<1> QED  BY <1>1, <1>2, <1>3 DEF ClaimAdd, Forgets

LEMMA ClaimAgainMoves ==
  ASSUME Typed, NEW p \in Processes, ClaimAgain(p)
  PROVE  Moves(p) /\ Carries(p)
<1>1. Stands(p)
  BY StandsTyped
<1>2. CASE Ends(p)
  BY <1>2, EndsMoves
<1> QED  BY <1>1, <1>2 DEF ClaimAgain

LEMMA CommandMoves ==
  ASSUME Typed, NEW p \in Processes, NEW c \in Chats, NEW what \in Commands, Command(p, c, what)
  PROVE  Moves(p) /\ Carries(p)
<1>1. Stands(p)
  BY StandsTyped
<1>2. CASE proc' = [proc EXCEPT ![p].at = "findBuilt", ![p].chat = c,
                                ![p].token = chatKey[c], ![p].back = what]
  <2>1. [proc[p] EXCEPT !.at = "findBuilt", !.chat = c, !.token = chatKey[c],
                        !.back = what] \in ProcessState
    BY <1>1, <1>2, StepsAre DEF Command, Stands, ProcessState, Shape, AddSteps,
       ForgetSteps, FindSteps, IndexSteps, AfterForget, Commands
  <2>2. proc' \in [Processes -> ProcessState]
    BY <1>1, <1>2, <2>1 DEF Stands
  <2> QED
    BY <1>1, <1>2, <2>2 DEF Command, Stands, Moves, Carries, Shape, AddSteps,
       ForgetSteps, FindSteps, IndexSteps, AfterForget, Commands
<1>3. CASE /\ chatKey[c] # NoToken
           /\ proc' = [proc EXCEPT ![p].at = "findLink", ![p].chat = c,
                                   ![p].token = chatKey[c], ![p].back = what]
  <2>1. [proc[p] EXCEPT !.at = "findLink", !.chat = c, !.token = chatKey[c],
                        !.back = what] \in ProcessState
    BY <1>1, <1>3, StepsAre DEF Command, Stands, ProcessState, Shape, AddSteps,
       ForgetSteps, FindSteps, IndexSteps, AfterForget, Commands
  <2>2. proc' \in [Processes -> ProcessState]
    BY <1>1, <1>3, <2>1 DEF Stands
  <2> QED
    BY <1>1, <1>3, <2>2 DEF Command, Stands, Moves, Carries, Shape, AddSteps,
       ForgetSteps, FindSteps, IndexSteps, AfterForget, Commands
<1> QED  BY <1>1, <1>2, <1>3 DEF Command

LEMMA FindLinkMoves ==
  ASSUME Typed, NEW p \in Processes, FindLink(p)
  PROVE  Moves(p) /\ Carries(p)
<1>1. Stands(p)
  BY StandsTyped
<1>2. CASE proc' = [proc EXCEPT ![p].at = proc[p].back, ![p].held = link[proc[p].token]]
  <2>1. [proc[p] EXCEPT !.at = proc[p].back, !.held = link[proc[p].token]] \in ProcessState
    BY <1>1, <1>2, StepsAre DEF FindLink, Stands, ProcessState, Shape, AddSteps,
       ForgetSteps, FindSteps, IndexSteps, AfterForget, Commands
  <2>2. proc' \in [Processes -> ProcessState]
    BY <1>1, <1>2, <2>1 DEF Stands
  <2> QED
    BY <1>1, <1>2, <2>2 DEF FindLink, Stands, Moves, Carries, Shape, AddSteps,
       ForgetSteps, FindSteps, IndexSteps, AfterForget, Commands
<1>3. CASE Goes(p, "findDelKey")
  <2>1. [proc[p] EXCEPT !.at = "findDelKey"] \in ProcessState
    BY <1>1, <1>3, StepsAre DEF FindLink, Stands, ProcessState, Shape, AddSteps,
       ForgetSteps, FindSteps, IndexSteps, AfterForget, Commands
  <2>2. proc' \in [Processes -> ProcessState]
    BY <1>1, <1>3, <2>1 DEF Goes, Stands
  <2> QED
    BY <1>1, <1>3, <2>2 DEF FindLink, Goes, Stands, Moves, Carries, Shape, AddSteps,
       ForgetSteps, FindSteps, IndexSteps, AfterForget, Commands
<1>4. CASE Ends(p)
  BY <1>4, EndsMoves
<1> QED  BY <1>1, <1>2, <1>3, <1>4 DEF FindLink

LEMMA FindDelKeyMoves ==
  ASSUME Typed, NEW p \in Processes, FindDelKey(p)
  PROVE  Moves(p) /\ Carries(p)
<1>1. Stands(p)
  BY StandsTyped
<1>2. CASE Goes(p, "findBuilt")
  <2>1. [proc[p] EXCEPT !.at = "findBuilt"] \in ProcessState
    BY <1>1, <1>2, StepsAre DEF FindDelKey, Stands, ProcessState, Shape, AddSteps,
       ForgetSteps, FindSteps, IndexSteps, AfterForget, Commands
  <2>2. proc' \in [Processes -> ProcessState]
    BY <1>1, <1>2, <2>1 DEF Goes, Stands
  <2> QED
    BY <1>1, <1>2, <2>2 DEF FindDelKey, Goes, Stands, Moves, Carries, Shape, AddSteps,
       ForgetSteps, FindSteps, IndexSteps, AfterForget, Commands
<1> QED  BY <1>1, <1>2 DEF FindDelKey

LEMMA FindBuiltMoves ==
  ASSUME Typed, NEW p \in Processes, FindBuilt(p)
  PROVE  Moves(p) /\ Carries(p)
<1>1. Stands(p)
  BY StandsTyped
<1>2. CASE Goes(p, "findMembers")
  <2>1. [proc[p] EXCEPT !.at = "findMembers"] \in ProcessState
    BY <1>1, <1>2, StepsAre DEF FindBuilt, Stands, ProcessState, Shape, AddSteps,
       ForgetSteps, FindSteps, IndexSteps, AfterForget, Commands
  <2>2. proc' \in [Processes -> ProcessState]
    BY <1>1, <1>2, <2>1 DEF Goes, Stands
  <2> QED
    BY <1>1, <1>2, <2>2 DEF FindBuilt, Goes, Stands, Moves, Carries, Shape, AddSteps,
       ForgetSteps, FindSteps, IndexSteps, AfterForget, Commands
<1>3. CASE Ends(p)
  BY <1>3, EndsMoves
<1> QED  BY <1>1, <1>2, <1>3 DEF FindBuilt

LEMMA FindMembersMoves ==
  ASSUME Typed, NEW p \in Processes, FindMembers(p)
  PROVE  Moves(p) /\ Carries(p)
<1>1. Stands(p)
  BY StandsTyped
<1>2. CASE proc' = [proc EXCEPT ![p].at = "findRead", ![p].todo = watches]
  <2>1. [proc[p] EXCEPT !.at = "findRead", !.todo = watches] \in ProcessState
    BY <1>1, <1>2, StepsAre DEF FindMembers, Stands, ProcessState, Shape, AddSteps,
       ForgetSteps, FindSteps, IndexSteps, AfterForget, Commands
  <2>2. proc' \in [Processes -> ProcessState]
    BY <1>1, <1>2, <2>1 DEF Stands
  <2> QED
    BY <1>1, <1>2, <2>2 DEF FindMembers, Stands, Moves, Carries, Shape, AddSteps,
       ForgetSteps, FindSteps, IndexSteps, AfterForget, Commands
<1>3. CASE Ends(p)
  BY <1>3, EndsMoves
<1> QED  BY <1>1, <1>2, <1>3 DEF FindMembers

LEMMA FindEndsMoves ==
  ASSUME Typed, NEW p \in Processes, FindEnds(p)
  PROVE  Moves(p) /\ Carries(p)
<1>1. Stands(p)
  BY StandsTyped
<1>2. CASE Ends(p)
  BY <1>2, EndsMoves
<1>3. ASSUME NEW t \in Tokens, proc[p].kept[t] = proc[p].chat,
             proc' = [proc EXCEPT ![p].at = "findKey", ![p].token = t,
                                  ![p].held = proc[p].kept[t], ![p].kept = Nothing]
      PROVE  Moves(p) /\ Carries(p)
  <2>0. Nothing \in [Tokens -> Link] /\ Nothing \in [Tokens -> Chats \cup {NoLink}]
    BY DEF Nothing, Link
  <2>1. [proc[p] EXCEPT !.at = "findKey", !.token = t,
                        !.held = proc[p].kept[t], !.kept = Nothing] \in ProcessState
    BY <1>1, <2>0, StepsAre DEF Stands, ProcessState, FindSteps
  <2>2. proc' \in [Processes -> ProcessState]
    BY <1>1, <1>3, <2>1 DEF Stands
  <2>3. proc[p].at = "findRead"
    BY DEF FindEnds
  <2> QED
    BY <1>1, <1>3, <2>0, <2>2, <2>3 DEF Stands, ProcessState, Moves, Carries, Shape,
       AddSteps, ForgetSteps, FindSteps, IndexSteps, AfterForget, Commands
<1> QED  BY <1>1, <1>2, <1>3 DEF FindEnds

LEMMA FindKeyMoves ==
  ASSUME Typed, NEW p \in Processes, FindKey(p)
  PROVE  Moves(p) /\ Carries(p)
<1>1. Stands(p)
  BY StandsTyped
<1>2. CASE Goes(p, proc[p].back)
  <2>1. [proc[p] EXCEPT !.at = proc[p].back] \in ProcessState
    BY <1>1, <1>2, StepsAre DEF FindKey, Stands, ProcessState, Shape, AddSteps,
       ForgetSteps, FindSteps, IndexSteps, AfterForget, Commands
  <2>2. proc' \in [Processes -> ProcessState]
    BY <1>1, <1>2, <2>1 DEF Goes, Stands
  <2> QED
    BY <1>1, <1>2, <2>2 DEF FindKey, Goes, Stands, Moves, Carries, Shape, AddSteps,
       ForgetSteps, FindSteps, IndexSteps, AfterForget, Commands
<1> QED  BY <1>1, <1>2 DEF FindKey

LEMMA StopMoves ==
  ASSUME Typed, NEW p \in Processes, Stop(p)
  PROVE  Moves(p) /\ Carries(p)
<1>1. Stands(p)
  BY StandsTyped
<1>2. CASE proc' = [proc EXCEPT ![p].at = "forgetRead", ![p].other = proc[p].token,
                                ![p].back = "idle"]
  <2>1. [proc[p] EXCEPT !.at = "forgetRead", !.other = proc[p].token, !.back = "idle"] \in ProcessState
    BY <1>1, <1>2, StepsAre DEF Stop, Forgets, Stands, ProcessState, Shape, AddSteps,
       ForgetSteps, FindSteps, IndexSteps, AfterForget, Commands
  <2>2. proc' \in [Processes -> ProcessState]
    BY <1>1, <1>2, <2>1 DEF Stands
  <2> QED
    BY <1>1, <1>2, <2>2 DEF Stop, Forgets, Stands, Moves, Carries, Shape, AddSteps,
       ForgetSteps, FindSteps, IndexSteps, AfterForget, Commands
<1>3. CASE Ends(p)
  BY <1>3, EndsMoves
<1> QED  BY <1>1, <1>2, <1>3 DEF Stop, Forgets

LEMMA ToggleMoves ==
  ASSUME Typed, NEW p \in Processes, Toggle(p)
  PROVE  Moves(p) /\ Carries(p)
<1>1. Stands(p)
  BY StandsTyped
<1>2. CASE Ends(p)
  BY <1>2, EndsMoves
<1> QED  BY <1>1, <1>2 DEF Toggle

LEMMA IndexGetMoves ==
  ASSUME Typed, NEW p \in Processes, IndexGet(p)
  PROVE  Moves(p) /\ Carries(p)
<1>1. Stands(p)
  BY StandsTyped
<1>2. CASE Goes(p, "indexSet")
  <2>1. [proc[p] EXCEPT !.at = "indexSet"] \in ProcessState
    BY <1>1, <1>2, StepsAre DEF IndexGet, IndexEnds, Stands, ProcessState, Shape,
       AddSteps, ForgetSteps, FindSteps, IndexSteps, AfterForget, Commands
  <2>2. proc' \in [Processes -> ProcessState]
    BY <1>1, <1>2, <2>1 DEF Goes, Stands
  <2> QED
    BY <1>1, <1>2, <2>2 DEF IndexGet, IndexEnds, Goes, Stands, Moves, Carries, Shape,
       AddSteps, ForgetSteps, FindSteps, IndexSteps, AfterForget, Commands
<1>3. CASE /\ chatKey[proc[p].chat] \notin {NoToken, proc[p].token}
           /\ proc' = [proc EXCEPT ![p].at = "indexOther",
                                   ![p].other = chatKey[proc[p].chat]]
  <2>1. [proc[p] EXCEPT !.at = "indexOther", !.other = chatKey[proc[p].chat]] \in ProcessState
    BY <1>1, <1>3, StepsAre DEF IndexGet, IndexEnds, Stands, ProcessState, Shape,
       AddSteps, ForgetSteps, FindSteps, IndexSteps, AfterForget, Commands
  <2>2. proc' \in [Processes -> ProcessState]
    BY <1>1, <1>3, <2>1 DEF Stands
  <2> QED
    BY <1>1, <1>3, <2>2 DEF IndexGet, IndexEnds, Stands, Moves, Carries, Shape,
       AddSteps, ForgetSteps, FindSteps, IndexSteps, AfterForget, Commands
<1>4. CASE proc' = [proc EXCEPT ![p].at = proc[p].back, ![p].back = "idle",
                                ![p].token = NoToken, ![p].chat = NoChat,
                                ![p].other = NoToken]
  <2>1. [proc[p] EXCEPT !.at = proc[p].back, !.back = "idle", !.token = NoToken,
                        !.chat = NoChat, !.other = NoToken] \in ProcessState
    BY <1>1, <1>4, StepsAre DEF IndexGet, IndexEnds, Stands, ProcessState, Shape,
       AddSteps, ForgetSteps, FindSteps, IndexSteps, AfterForget, Commands
  <2>2. proc' \in [Processes -> ProcessState]
    BY <1>1, <1>4, <2>1 DEF Stands
  <2> QED
    BY <1>1, <1>4, <2>2 DEF IndexGet, IndexEnds, Stands, Moves, Carries, Shape,
       AddSteps, ForgetSteps, FindSteps, IndexSteps, AfterForget, Commands
<1> QED  BY <1>1, <1>2, <1>3, <1>4 DEF IndexGet, IndexEnds

LEMMA IndexOtherMoves ==
  ASSUME Typed, NEW p \in Processes, IndexOther(p)
  PROVE  Moves(p) /\ Carries(p)
<1>1. Stands(p)
  BY StandsTyped
<1>2. CASE proc' = [proc EXCEPT ![p].at = "indexSet", ![p].other = NoToken]
  <2>1. [proc[p] EXCEPT !.at = "indexSet", !.other = NoToken] \in ProcessState
    BY <1>1, <1>2, StepsAre DEF IndexOther, IndexEnds, Stands, ProcessState, Shape,
       AddSteps, ForgetSteps, FindSteps, IndexSteps, AfterForget, Commands
  <2>2. proc' \in [Processes -> ProcessState]
    BY <1>1, <1>2, <2>1 DEF Stands
  <2> QED
    BY <1>1, <1>2, <2>2 DEF IndexOther, IndexEnds, Stands, Moves, Carries, Shape,
       AddSteps, ForgetSteps, FindSteps, IndexSteps, AfterForget, Commands
<1>3. CASE proc' = [proc EXCEPT ![p].at = "forgetRead", ![p].other = proc[p].token,
                                ![p].token = NoToken, ![p].chat = NoChat]
  <2>1. [proc[p] EXCEPT !.at = "forgetRead", !.other = proc[p].token,
                        !.token = NoToken, !.chat = NoChat] \in ProcessState
    BY <1>1, <1>3, StepsAre DEF IndexOther, IndexEnds, Stands, ProcessState, Shape,
       AddSteps, ForgetSteps, FindSteps, IndexSteps, AfterForget, Commands
  <2>2. proc' \in [Processes -> ProcessState]
    BY <1>1, <1>3, <2>1 DEF Stands
  <2> QED
    BY <1>1, <1>3, <2>2 DEF IndexOther, IndexEnds, Stands, Moves, Carries, Shape,
       AddSteps, ForgetSteps, FindSteps, IndexSteps, AfterForget, Commands
<1>4. CASE Goes(p, "indexTake")
  <2>1. [proc[p] EXCEPT !.at = "indexTake"] \in ProcessState
    BY <1>1, <1>4, StepsAre DEF IndexOther, IndexEnds, Stands, ProcessState, Shape,
       AddSteps, ForgetSteps, FindSteps, IndexSteps, AfterForget, Commands
  <2>2. proc' \in [Processes -> ProcessState]
    BY <1>1, <1>4, <2>1 DEF Goes, Stands
  <2> QED
    BY <1>1, <1>4, <2>2 DEF IndexOther, IndexEnds, Goes, Stands, Moves, Carries, Shape,
       AddSteps, ForgetSteps, FindSteps, IndexSteps, AfterForget, Commands
<1>5. CASE proc' = [proc EXCEPT ![p].at = proc[p].back, ![p].back = "idle",
                                ![p].token = NoToken, ![p].chat = NoChat,
                                ![p].other = NoToken]
  <2>1. [proc[p] EXCEPT !.at = proc[p].back, !.back = "idle", !.token = NoToken,
                        !.chat = NoChat, !.other = NoToken] \in ProcessState
    BY <1>1, <1>5, StepsAre DEF IndexOther, IndexEnds, Stands, ProcessState, Shape,
       AddSteps, ForgetSteps, FindSteps, IndexSteps, AfterForget, Commands
  <2>2. proc' \in [Processes -> ProcessState]
    BY <1>1, <1>5, <2>1 DEF Stands
  <2> QED
    BY <1>1, <1>5, <2>2 DEF IndexOther, IndexEnds, Stands, Moves, Carries, Shape,
       AddSteps, ForgetSteps, FindSteps, IndexSteps, AfterForget, Commands
<1> QED  BY <1>1, <1>2, <1>3, <1>4, <1>5 DEF IndexOther, IndexEnds

LEMMA IndexTakeMoves ==
  ASSUME Typed, NEW p \in Processes, IndexTake(p)
  PROVE  Moves(p) /\ Carries(p)
<1>1. Stands(p)
  BY StandsTyped
<1>2. CASE proc' = [proc EXCEPT ![p].at = "forgetRead", ![p].token = NoToken,
                                ![p].chat = NoChat]
  <2>1. [proc[p] EXCEPT !.at = "forgetRead", !.token = NoToken, !.chat = NoChat] \in ProcessState
    BY <1>1, <1>2, StepsAre DEF IndexTake, Stands, ProcessState, Shape, AddSteps,
       ForgetSteps, FindSteps, IndexSteps, AfterForget, Commands
  <2>2. proc' \in [Processes -> ProcessState]
    BY <1>1, <1>2, <2>1 DEF Stands
  <2> QED
    BY <1>1, <1>2, <2>2 DEF IndexTake, Stands, Moves, Carries, Shape, AddSteps,
       ForgetSteps, FindSteps, IndexSteps, AfterForget, Commands
<1> QED  BY <1>1, <1>2 DEF IndexTake

LEMMA IndexSetMoves ==
  ASSUME Typed, NEW p \in Processes, IndexSet(p)
  PROVE  Moves(p) /\ Carries(p)
<1>1. Stands(p)
  BY StandsTyped
<1>2. CASE proc' = [proc EXCEPT ![p].at = proc[p].back, ![p].back = "idle",
                                ![p].token = NoToken, ![p].chat = NoChat,
                                ![p].other = NoToken]
  <2>1. [proc[p] EXCEPT !.at = proc[p].back, !.back = "idle", !.token = NoToken,
                        !.chat = NoChat, !.other = NoToken] \in ProcessState
    BY <1>1, <1>2, StepsAre DEF IndexSet, IndexEnds, Stands, ProcessState, Shape,
       AddSteps, ForgetSteps, FindSteps, IndexSteps, AfterForget, Commands
  <2>2. proc' \in [Processes -> ProcessState]
    BY <1>1, <1>2, <2>1 DEF Stands
  <2> QED
    BY <1>1, <1>2, <2>2 DEF IndexSet, IndexEnds, Stands, Moves, Carries, Shape,
       AddSteps, ForgetSteps, FindSteps, IndexSteps, AfterForget, Commands
<1> QED  BY <1>1, <1>2 DEF IndexSet, IndexEnds

LEMMA PassStartMoves ==
  ASSUME Typed, NEW p \in Processes, PassStart(p)
  PROVE  Moves(p) /\ Carries(p)
<1>1. Stands(p)
  BY StandsTyped
<1>2. CASE Goes(p, "passMembers")
  <2>1. [proc[p] EXCEPT !.at = "passMembers"] \in ProcessState
    BY <1>1, <1>2, StepsAre DEF PassStart, Stands, ProcessState, Shape, AddSteps,
       ForgetSteps, FindSteps, IndexSteps, AfterForget, Commands, PassSteps
  <2>2. proc' \in [Processes -> ProcessState]
    BY <1>1, <1>2, <2>1 DEF Goes, Stands
  <2> QED
    BY <1>1, <1>2, <2>2 DEF PassStart, Goes, Stands, Moves, Carries, Shape, AddSteps,
       ForgetSteps, FindSteps, IndexSteps, AfterForget, Commands
<1>3. CASE Goes(p, "buildMembers")
  <2>1. [proc[p] EXCEPT !.at = "buildMembers"] \in ProcessState
    BY <1>1, <1>3, StepsAre DEF PassStart, Stands, ProcessState, Shape, AddSteps,
       ForgetSteps, FindSteps, IndexSteps, AfterForget, Commands, PassSteps
  <2>2. proc' \in [Processes -> ProcessState]
    BY <1>1, <1>3, <2>1 DEF Goes, Stands
  <2> QED
    BY <1>1, <1>3, <2>2 DEF PassStart, Goes, Stands, Moves, Carries, Shape, AddSteps,
       ForgetSteps, FindSteps, IndexSteps, AfterForget, Commands
<1> QED  BY <1>1, <1>2, <1>3 DEF PassStart

LEMMA BuildMembersMoves ==
  ASSUME Typed, NEW p \in Processes, BuildMembers(p)
  PROVE  Moves(p) /\ Carries(p)
<1>1. Stands(p)
  BY StandsTyped
<1>2. CASE proc' = [proc EXCEPT ![p].at = "build", ![p].todo = watches]
  <2>1. [proc[p] EXCEPT !.at = "build", !.todo = watches] \in ProcessState
    BY <1>1, <1>2, StepsAre DEF BuildMembers, Stands, ProcessState, Shape, AddSteps,
       ForgetSteps, FindSteps, IndexSteps, AfterForget, Commands
  <2>2. proc' \in [Processes -> ProcessState]
    BY <1>1, <1>2, <2>1 DEF Stands
  <2> QED
    BY <1>1, <1>2, <2>2 DEF BuildMembers, Stands, Moves, Carries, Shape, AddSteps,
       ForgetSteps, FindSteps, IndexSteps, AfterForget, Commands
<1>3. CASE Goes(p, "passMembers")
  <2>1. [proc[p] EXCEPT !.at = "passMembers"] \in ProcessState
    BY <1>1, <1>3, StepsAre DEF BuildMembers, Stands, ProcessState, Shape, AddSteps,
       ForgetSteps, FindSteps, IndexSteps, AfterForget, Commands, PassSteps
  <2>2. proc' \in [Processes -> ProcessState]
    BY <1>1, <1>3, <2>1 DEF Goes, Stands
  <2> QED
    BY <1>1, <1>3, <2>2 DEF BuildMembers, Goes, Stands, Moves, Carries, Shape,
       AddSteps, ForgetSteps, FindSteps, IndexSteps, AfterForget, Commands
<1> QED  BY <1>1, <1>2, <1>3 DEF BuildMembers

LEMMA BuildReadMoves ==
  ASSUME Typed, NEW p \in Processes, NEW t \in Tokens, BuildRead(p, t)
  PROVE  Moves(p) /\ Carries(p)
<1>1. Stands(p)
  BY StandsTyped
<1>2. CASE /\ Claimed(t)
           /\ proc' = [proc EXCEPT ![p].at = "indexGet", ![p].token = t,
                                   ![p].chat = link[t], ![p].back = "build",
                                   ![p].todo = @ \ {t}]
  <2>1. [proc[p] EXCEPT !.at = "indexGet", !.token = t, !.chat = link[t],
                        !.back = "build", !.todo = @ \ {t}] \in ProcessState
    BY <1>1, <1>2, StepsAre DEF BuildRead, Indexes, Claimed, Stands, ProcessState,
       Shape, AddSteps, ForgetSteps, FindSteps, IndexSteps, AfterForget, Commands
  <2>2. proc' \in [Processes -> ProcessState]
    BY <1>1, <1>2, <2>1 DEF Stands
  <2> QED
    BY <1>1, <1>2, <2>2 DEF BuildRead, Indexes, Claimed, Stands, Moves, Carries, Shape,
       AddSteps, ForgetSteps, FindSteps, IndexSteps, AfterForget, Commands
<1>3. CASE proc' = [proc EXCEPT ![p].at = "buildDrop", ![p].todo = @ \ {t},
                                ![p].other = t]
  <2>1. [proc[p] EXCEPT !.at = "buildDrop", !.todo = @ \ {t}, !.other = t] \in ProcessState
    BY <1>1, <1>3, StepsAre DEF BuildRead, Indexes, Claimed, Stands, ProcessState,
       Shape, AddSteps, ForgetSteps, FindSteps, IndexSteps, AfterForget, Commands
  <2>2. proc' \in [Processes -> ProcessState]
    BY <1>1, <1>3, <2>1 DEF Stands
  <2> QED
    BY <1>1, <1>3, <2>2 DEF BuildRead, Indexes, Claimed, Stands, Moves, Carries, Shape,
       AddSteps, ForgetSteps, FindSteps, IndexSteps, AfterForget, Commands
<1>4. CASE proc' = [proc EXCEPT ![p].todo = @ \ {t}, ![p].whole = FALSE]
  <2>1. [proc[p] EXCEPT !.todo = @ \ {t}, !.whole = FALSE] \in ProcessState
    BY <1>1, <1>4, StepsAre DEF BuildRead, Indexes, Claimed, Stands, ProcessState,
       Shape, AddSteps, ForgetSteps, FindSteps, IndexSteps, AfterForget, Commands
  <2>2. proc' \in [Processes -> ProcessState]
    BY <1>1, <1>4, <2>1 DEF Stands
  <2> QED
    BY <1>1, <1>4, <2>2 DEF BuildRead, Indexes, Claimed, Stands, Moves, Carries, Shape,
       AddSteps, ForgetSteps, FindSteps, IndexSteps, AfterForget, Commands
<1> QED  BY <1>1, <1>2, <1>3, <1>4 DEF BuildRead, Indexes, Claimed

LEMMA BuildMarkMoves ==
  ASSUME Typed, NEW p \in Processes, BuildMark(p)
  PROVE  Moves(p) /\ Carries(p)
<1>1. Stands(p)
  BY StandsTyped
<1>2. CASE proc' = [proc EXCEPT ![p].at = "passMembers", ![p].whole = TRUE]
  <2>1. [proc[p] EXCEPT !.at = "passMembers", !.whole = TRUE] \in ProcessState
    BY <1>1, <1>2, StepsAre DEF BuildMark, Stands, ProcessState, Shape, AddSteps,
       ForgetSteps, FindSteps, IndexSteps, AfterForget, Commands, PassSteps
  <2>2. proc' \in [Processes -> ProcessState]
    BY <1>1, <1>2, <2>1 DEF Stands
  <2> QED
    BY <1>1, <1>2, <2>2 DEF BuildMark, Stands, Moves, Carries, Shape, AddSteps,
       ForgetSteps, FindSteps, IndexSteps, AfterForget, Commands
<1> QED  BY <1>1, <1>2 DEF BuildMark

LEMMA PassMembersMoves ==
  ASSUME Typed, NEW p \in Processes, PassMembers(p)
  PROVE  Moves(p) /\ Carries(p)
<1>1. Stands(p)
  BY StandsTyped
<1>2. CASE Ends(p)
  BY <1>2, EndsMoves
<1>3. ASSUME NEW some \in SUBSET watches,
             proc' = [proc EXCEPT ![p].at = "passRead", ![p].todo = some]
      PROVE  Moves(p) /\ Carries(p)
  <2>1. [proc[p] EXCEPT !.at = "passRead", !.todo = some] \in ProcessState
    BY <1>1, StepsAre DEF Stands, ProcessState, PassSteps
  <2>2. proc' \in [Processes -> ProcessState]
    BY <1>1, <1>3, <2>1 DEF Stands
  <2> QED
    BY <1>1, <1>3, <2>2 DEF Stands, Moves, Carries, Shape, AddSteps, ForgetSteps,
       FindSteps, IndexSteps, AfterForget, Commands
<1> QED  BY <1>1, <1>2, <1>3 DEF PassMembers

LEMMA PassAllReadMoves ==
  ASSUME Typed, NEW p \in Processes, PassAllRead(p)
  PROVE  Moves(p) /\ Carries(p)
<1>1. Stands(p)
  BY StandsTyped
<1>2. CASE proc' = [proc EXCEPT ![p].at = "passIndex",
                                ![p].todo = {t \in Tokens : proc[p].kept[t] # NoLink}]
  <2>1. [proc[p] EXCEPT !.at = "passIndex",
                        !.todo = {t \in Tokens : proc[p].kept[t] # NoLink}] \in ProcessState
    BY <1>1, <1>2, StepsAre DEF PassAllRead, Stands, ProcessState, Shape, AddSteps,
       ForgetSteps, FindSteps, IndexSteps, AfterForget, Commands
  <2>2. proc' \in [Processes -> ProcessState]
    BY <1>1, <1>2, <2>1 DEF Stands
  <2> QED
    BY <1>1, <1>2, <2>2 DEF PassAllRead, Stands, Moves, Carries, Shape, AddSteps,
       ForgetSteps, FindSteps, IndexSteps, AfterForget, Commands
<1> QED  BY <1>1, <1>2 DEF PassAllRead

LEMMA PassIndexMoves ==
  ASSUME Typed, NEW p \in Processes, NEW t \in Tokens, PassIndex(p, t)
  PROVE  Moves(p) /\ Carries(p)
<1>1. Stands(p)
  BY StandsTyped
<1>2. CASE proc' = [proc EXCEPT ![p].todo = @ \ {t}]
  <2>1. [proc[p] EXCEPT !.todo = @ \ {t}] \in ProcessState
    BY <1>1, <1>2, StepsAre DEF PassIndex, Indexes, Stands, ProcessState, Shape,
       AddSteps, ForgetSteps, FindSteps, IndexSteps, AfterForget, Commands
  <2>2. proc' \in [Processes -> ProcessState]
    BY <1>1, <1>2, <2>1 DEF Stands
  <2> QED
    BY <1>1, <1>2, <2>2 DEF PassIndex, Indexes, Stands, Moves, Carries, Shape,
       AddSteps, ForgetSteps, FindSteps, IndexSteps, AfterForget, Commands
<1>3. CASE /\ proc[p].kept[t] # NoLink
           /\ proc' = [proc EXCEPT ![p].at = "indexGet", ![p].token = t,
                                   ![p].chat = proc[p].kept[t],
                                   ![p].back = "passIndex", ![p].todo = @ \ {t}]
  <2>1. [proc[p] EXCEPT !.at = "indexGet", !.token = t, !.chat = proc[p].kept[t],
                        !.back = "passIndex", !.todo = @ \ {t}] \in ProcessState
    BY <1>1, <1>3, StepsAre DEF PassIndex, Indexes, Stands, ProcessState, Shape,
       AddSteps, ForgetSteps, FindSteps, IndexSteps, AfterForget, Commands
  <2>2. proc' \in [Processes -> ProcessState]
    BY <1>1, <1>3, <2>1 DEF Stands
  <2> QED
    BY <1>1, <1>3, <2>2 DEF PassIndex, Indexes, Stands, Moves, Carries, Shape,
       AddSteps, ForgetSteps, FindSteps, IndexSteps, AfterForget, Commands
<1> QED  BY <1>1, <1>2, <1>3 DEF PassIndex, Indexes

LEMMA PassIndexedMoves ==
  ASSUME Typed, NEW p \in Processes, PassIndexed(p)
  PROVE  Moves(p) /\ Carries(p)
<1>1. Stands(p)
  BY StandsTyped
<1>2. CASE Goes(p, "tell")
  <2>1. [proc[p] EXCEPT !.at = "tell"] \in ProcessState
    BY <1>1, <1>2, StepsAre DEF PassIndexed, Stands, ProcessState, Shape, AddSteps,
       ForgetSteps, FindSteps, IndexSteps, AfterForget, Commands, PassSteps
  <2>2. proc' \in [Processes -> ProcessState]
    BY <1>1, <1>2, <2>1 DEF Goes, Stands
  <2> QED
    BY <1>1, <1>2, <2>2 DEF PassIndexed, Goes, Stands, Moves, Carries, Shape, AddSteps,
       ForgetSteps, FindSteps, IndexSteps, AfterForget, Commands
<1> QED  BY <1>1, <1>2 DEF PassIndexed

LEMMA FollowMoves ==
  ASSUME Typed, NEW p \in Processes, NEW t \in Tokens, Follow(p, t)
  PROVE  Moves(p) /\ Carries(p)
<1>1. Stands(p)
  BY StandsTyped
<1>2. CASE proc' = [proc EXCEPT ![p].at = "digest", ![p].token = t,
                                ![p].chat = proc[p].kept[t], ![p].kept[t] = NoLink]
  <2>1. [proc[p] EXCEPT !.at = "digest", !.token = t, !.chat = proc[p].kept[t],
                        !.kept[t] = NoLink] \in ProcessState
    BY <1>1, <1>2, StepsAre DEF Follow, Stands, ProcessState, Shape, AddSteps,
       ForgetSteps, FindSteps, IndexSteps, AfterForget, Commands
  <2>2. proc' \in [Processes -> ProcessState]
    BY <1>1, <1>2, <2>1 DEF Stands
  <2> QED
    BY <1>1, <1>2, <2>2 DEF Follow, Stands, Moves, Carries, Shape, AddSteps,
       ForgetSteps, FindSteps, IndexSteps, AfterForget, Commands
<1>3. CASE proc' = [proc EXCEPT ![p].at = "positions", ![p].token = t,
                                ![p].chat = proc[p].kept[t], ![p].kept[t] = NoLink]
  <2>1. [proc[p] EXCEPT !.at = "positions", !.token = t, !.chat = proc[p].kept[t],
                        !.kept[t] = NoLink] \in ProcessState
    BY <1>1, <1>3, StepsAre DEF Follow, Stands, ProcessState, Shape, AddSteps,
       ForgetSteps, FindSteps, IndexSteps, AfterForget, Commands
  <2>2. proc' \in [Processes -> ProcessState]
    BY <1>1, <1>3, <2>1 DEF Stands
  <2> QED
    BY <1>1, <1>3, <2>2 DEF Follow, Stands, Moves, Carries, Shape, AddSteps,
       ForgetSteps, FindSteps, IndexSteps, AfterForget, Commands
<1> QED  BY <1>1, <1>2, <1>3 DEF Follow

LEMMA DigestMoves ==
  ASSUME Typed, NEW p \in Processes, Digest(p)
  PROVE  Moves(p) /\ Carries(p)
<1>1. Stands(p)
  BY StandsTyped
<1>2. CASE Goes(p, "positions")
  <2>1. [proc[p] EXCEPT !.at = "positions"] \in ProcessState
    BY <1>1, <1>2, StepsAre DEF Digest, Stands, ProcessState, Shape, AddSteps,
       ForgetSteps, FindSteps, IndexSteps, AfterForget, Commands, PassSteps
  <2>2. proc' \in [Processes -> ProcessState]
    BY <1>1, <1>2, <2>1 DEF Goes, Stands
  <2> QED
    BY <1>1, <1>2, <2>2 DEF Digest, Goes, Stands, Moves, Carries, Shape, AddSteps,
       ForgetSteps, FindSteps, IndexSteps, AfterForget, Commands
<1> QED  BY <1>1, <1>2 DEF Digest

LEMMA PositionsMoves ==
  ASSUME Typed, NEW p \in Processes, Positions(p)
  PROVE  Moves(p) /\ Carries(p)
<1>1. Stands(p)
  BY StandsTyped
<1>2. CASE Goes(p, "snapshot")
  <2>1. [proc[p] EXCEPT !.at = "snapshot"] \in ProcessState
    BY <1>1, <1>2, StepsAre DEF Positions, Stands, ProcessState, Shape, AddSteps,
       ForgetSteps, FindSteps, IndexSteps, AfterForget, Commands, PassSteps
  <2>2. proc' \in [Processes -> ProcessState]
    BY <1>1, <1>2, <2>1 DEF Goes, Stands
  <2> QED
    BY <1>1, <1>2, <2>2 DEF Positions, Goes, Stands, Moves, Carries, Shape, AddSteps,
       ForgetSteps, FindSteps, IndexSteps, AfterForget, Commands
<1>3. CASE proc' = [proc EXCEPT ![p].at = "tell", ![p].token = NoToken,
                                ![p].chat = NoChat]
  <2>1. [proc[p] EXCEPT !.at = "tell", !.token = NoToken, !.chat = NoChat] \in ProcessState
    BY <1>1, <1>3, StepsAre DEF Positions, Stands, ProcessState, Shape, AddSteps,
       ForgetSteps, FindSteps, IndexSteps, AfterForget, Commands, PassSteps
  <2>2. proc' \in [Processes -> ProcessState]
    BY <1>1, <1>3, <2>1 DEF Stands
  <2> QED
    BY <1>1, <1>3, <2>2 DEF Positions, Stands, Moves, Carries, Shape, AddSteps,
       ForgetSteps, FindSteps, IndexSteps, AfterForget, Commands
<1> QED  BY <1>1, <1>2, <1>3 DEF Positions

LEMMA SnapshotMoves ==
  ASSUME Typed, NEW p \in Processes, Snapshot(p)
  PROVE  Moves(p) /\ Carries(p)
<1>1. Stands(p)
  BY StandsTyped
<1>2. CASE proc' = [proc EXCEPT ![p].at = "tell", ![p].token = NoToken,
                                ![p].chat = NoChat]
  <2>1. [proc[p] EXCEPT !.at = "tell", !.token = NoToken, !.chat = NoChat] \in ProcessState
    BY <1>1, <1>2, StepsAre DEF Snapshot, Stands, ProcessState, Shape, AddSteps,
       ForgetSteps, FindSteps, IndexSteps, AfterForget, Commands, PassSteps
  <2>2. proc' \in [Processes -> ProcessState]
    BY <1>1, <1>2, <2>1 DEF Stands
  <2> QED
    BY <1>1, <1>2, <2>2 DEF Snapshot, Stands, Moves, Carries, Shape, AddSteps,
       ForgetSteps, FindSteps, IndexSteps, AfterForget, Commands
<1> QED  BY <1>1, <1>2 DEF Snapshot

LEMMA PassEndsMoves ==
  ASSUME Typed, NEW p \in Processes, PassEnds(p)
  PROVE  Moves(p) /\ Carries(p)
<1>1. Stands(p)
  BY StandsTyped
<1>2. CASE Ends(p)
  BY <1>2, EndsMoves
<1> QED  BY <1>1, <1>2 DEF PassEnds

LEMMA WalkReadMoves ==
  ASSUME Typed, NEW p \in Processes, NEW t \in Tokens, NEW drop \in {"findDrop", "passDrop"},
         proc[p].at \in {"findRead", "passRead"}, proc[p].at = "findRead" <=> drop = "findDrop",
         WalkRead(p, t, drop)
  PROVE  Moves(p) /\ Carries(p)
<1>1. Stands(p)
  BY StandsTyped
<1>2. CASE Claimed(t) /\ proc' = [proc EXCEPT ![p].todo = @ \ {t}, ![p].kept[t] = link[t]]
  <2>1. [proc[p] EXCEPT !.todo = @ \ {t}, !.kept[t] = link[t]] \in ProcessState
    BY <1>1, <1>2 DEF Claimed, Link, Stands, ProcessState
  <2>2. proc' \in [Processes -> ProcessState]
    BY <1>1, <1>2, <2>1 DEF Stands
  <2> QED
    BY <1>1, <1>2, <2>2 DEF Claimed, Stands, ProcessState, Moves, Carries, Shape,
       AddSteps, ForgetSteps, FindSteps, IndexSteps, AfterForget, Commands
<1>3. CASE proc' = [proc EXCEPT ![p].at = drop, ![p].todo = @ \ {t}, ![p].other = t]
  <2>1. [proc[p] EXCEPT !.at = drop, !.todo = @ \ {t}, !.other = t] \in ProcessState
    BY <1>1, StepsAre DEF Stands, ProcessState, FindSteps, PassSteps
  <2>2. proc' \in [Processes -> ProcessState]
    BY <1>1, <1>3, <2>1 DEF Stands
  <2> QED
    BY <1>1, <1>3, <2>2 DEF Stands, Moves, Carries, Shape, AddSteps, ForgetSteps,
       FindSteps, IndexSteps, AfterForget, Commands
<1>4. CASE proc' = [proc EXCEPT ![p].todo = @ \ {t}]
  <2>1. [proc[p] EXCEPT !.todo = @ \ {t}] \in ProcessState
    BY <1>1 DEF Stands, ProcessState
  <2>2. proc' \in [Processes -> ProcessState]
    BY <1>1, <1>4, <2>1 DEF Stands
  <2> QED
    BY <1>1, <1>4, <2>2 DEF Stands, Moves, Carries, Shape, AddSteps, ForgetSteps,
       FindSteps, IndexSteps, AfterForget, Commands
<1> QED  BY <1>2, <1>3, <1>4 DEF WalkRead

LEMMA WalkDropMoves ==
  ASSUME Typed, NEW p \in Processes, NEW next \in {"findRead", "passRead", "build"},
         proc[p].at \in {"findDrop", "passDrop", "buildDrop"},
         proc[p].at = "findDrop" <=> next = "findRead", WalkDrop(p, next)
  PROVE  Moves(p) /\ Carries(p)
<1>1. Stands(p) /\ proc' = [proc EXCEPT ![p].at = next, ![p].other = NoToken]
  BY StandsTyped DEF WalkDrop
<1>2. [proc[p] EXCEPT !.at = next, !.other = NoToken] \in ProcessState
  BY <1>1, StepsAre DEF Stands, ProcessState, FindSteps, PassSteps
<1>3. proc' \in [Processes -> ProcessState]
  BY <1>1, <1>2 DEF Stands
<1> QED
  BY <1>1, <1>3 DEF Stands, Moves, Carries, Shape, AddSteps, ForgetSteps, FindSteps,
     IndexSteps, AfterForget, Commands

LEMMA PresentMoves ==
  ASSUME Typed, NEW h \in Processes, NEW c \in Chats, NEW t \in Tokens, Present(h, c, t)
  PROVE  Moves(h) /\ proc'[h].token = t
<1>1. /\ Stands(h)
      /\ proc' = [proc EXCEPT ![h].at = "claimGet", ![h].chat = c, ![h].token = t,
                             ![h].held = link[t]]
  BY StandsTyped DEF Present
<1>2. [proc[h] EXCEPT !.at = "claimGet", !.chat = c, !.token = t, !.held = link[t]]
        \in ProcessState
  BY <1>1, StepsAre DEF Stands, ProcessState, ClaimSteps
<1>3. proc' \in [Processes -> ProcessState]
  BY <1>1, <1>2 DEF Stands
<1> QED
  BY <1>1, <1>3 DEF Stands, ProcessState, Moves, Shape, AddSteps, ForgetSteps,
     FindSteps, IndexSteps, AfterForget, Commands

-----------------------------------------------------------------------------
(***************************************************************************)
(* What an action does to everything but the processes.                    *)
(***************************************************************************)
RestTyped ==
  /\ link \in [Tokens -> Link]
  /\ chatKey \in [Chats -> Tokens \cup {NoToken}]
  /\ watches \subseteq Tokens
  /\ built \in BOOLEAN
  /\ cookie \in [Browsers -> Tokens \cup {NoToken}]
  /\ minted \subseteq Tokens
  /\ presented \subseteq Tokens \X Chats
  /\ followed \subseteq Chats
  /\ crossed \subseteq Chats
  /\ gone \subseteq Tokens
  /\ stopped \subseteq Chats
  /\ taken \subseteq Tokens
  /\ spent \in [requests : Nat, faults : Nat, crashes : Nat]

\* A step that lets no link go, and puts none into the set.
Keeps == gone' = gone /\ watches' \subseteq watches

LEMMA RestIs == TypeOK <=> RestTyped /\ proc \in [Processes -> ProcessState]
BY DEF TypeOK, RestTyped

LEMMA CountFaultTyped ==
  ASSUME RestTyped, NEW r, CountFault(r)
  PROVE  spent' \in [requests : Nat, faults : Nat, crashes : Nat]
BY DEF RestTyped, CountFault, Answered

LEMMA RequestTyped ==
  ASSUME RestTyped, Request
  PROVE  spent' \in [requests : Nat, faults : Nat, crashes : Nat]
BY DEF RestTyped, Request

LEMMA UnreadTyped ==
  ASSUME RestTyped, RequestUnread
  PROVE  spent' \in [requests : Nat, faults : Nat, crashes : Nat]
<1>1. spent \in [requests : Nat, faults : Nat, crashes : Nat]
  BY DEF RestTyped
<1>2. /\ spent.requests + 1 \in Nat /\ spent.faults + 1 \in Nat
      /\ spent' = [spent EXCEPT !.requests = spent.requests + 1, !.faults = spent.faults + 1]
  BY <1>1 DEF RequestUnread
<1> QED  BY <1>1, <1>2

LEMMA SetKeyTyped ==
  ASSUME RestTyped, NEW r, NEW c, NEW t \in Tokens \cup {NoToken}, SetKey(r, c, t)
  PROVE  chatKey' \in [Chats -> Tokens \cup {NoToken}]
BY DEF RestTyped, SetKey

LEMMA WriteLinkTyped ==
  ASSUME RestTyped, NEW r, NEW t, NEW whose \in Link, WriteLink(r, t, whose)
  PROVE  link' \in [Tokens -> Link]
BY DEF RestTyped, WriteLink

LEMMA LeaveTyped ==
  ASSUME NEW r, NEW t, Leave(r, t)
  PROVE  watches' \subseteq watches
BY DEF Leave

LEMMA ForgetReadRest ==
  ASSUME Typed, NEW p \in Processes, ForgetRead(p)
  PROVE  RestTyped' /\ Keeps
<1>1. RestTyped /\ proc[p] \in ProcessState
  BY RestIs DEF Typed
<1> QED
  BY <1>1, CountFaultTyped
  DEF ForgetRead, RestTyped, ProcessState, Keeps, stored, site, history

LEMMA ForgetKeyRest ==
  ASSUME Typed, NEW p \in Processes, ForgetKey(p)
  PROVE  RestTyped' /\ Keeps
<1>1. RestTyped /\ proc[p] \in ProcessState
  BY RestIs DEF Typed
<1> QED
  BY <1>1, CountFaultTyped
  DEF ForgetKey, RestTyped, ProcessState, Keeps, stored, site, history

LEMMA ForgetDelKeyRest ==
  ASSUME Typed, NEW p \in Processes, ForgetDelKey(p)
  PROVE  RestTyped' /\ Keeps
<1>1. RestTyped /\ proc[p] \in ProcessState
  BY RestIs DEF Typed
<1> QED
  BY <1>1, CountFaultTyped, SetKeyTyped
  DEF ForgetDelKey, RestTyped, ProcessState, Keeps, stored, site, history

LEMMA ConnectRest ==
  ASSUME Typed, NEW p \in Processes, NEW b \in Browsers, Connect(p, b)
  PROVE  RestTyped' /\ Keeps
<1>1. RestTyped /\ proc[p] \in ProcessState
  BY RestIs DEF Typed
<1> QED
  BY <1>1, RequestTyped, UnreadTyped
  DEF Connect, MintsFor, Undone, Presenters, Served, RestTyped, ProcessState, Keeps,
     stored, site, history

LEMMA DisconnectRest ==
  ASSUME Typed, NEW p \in Processes, NEW b \in Browsers, Disconnect(p, b)
  PROVE  RestTyped' /\ Keeps
<1>1. RestTyped /\ proc[p] \in ProcessState
  BY RestIs DEF Typed
<1> QED
  BY <1>1, RequestTyped
  DEF Disconnect, Undone, Presenters, Served, RestTyped, ProcessState, Keeps, stored,
     site, history

LEMMA ClaimGetRest ==
  ASSUME Typed, NEW p \in Processes, ClaimGet(p)
  PROVE  RestTyped' /\ Keeps
<1>1. RestTyped /\ proc[p] \in ProcessState
  BY RestIs DEF Typed
<1> QED
  BY <1>1, CountFaultTyped
  DEF ClaimGet, RestTyped, ProcessState, Keeps, stored, site, history

LEMMA ClaimCountRest ==
  ASSUME Typed, NEW p \in Processes, ClaimCount(p)
  PROVE  RestTyped' /\ Keeps
<1>1. RestTyped /\ proc[p] \in ProcessState
  BY RestIs DEF Typed
<1> QED
  BY <1>1, CountFaultTyped
  DEF ClaimCount, RestTyped, ProcessState, Keeps, stored, site, history

LEMMA ClaimKeyRest ==
  ASSUME Typed, NEW p \in Processes, ClaimKey(p)
  PROVE  RestTyped' /\ Keeps
<1>1. RestTyped /\ proc[p] \in ProcessState
  BY RestIs DEF Typed
<1> QED
  BY <1>1, CountFaultTyped, SetKeyTyped
  DEF ClaimKey, RestTyped, ProcessState, Keeps, stored, site, history

LEMMA ClaimWriteRest ==
  ASSUME Typed, NEW p \in Processes, ClaimWrite(p)
  PROVE  RestTyped' /\ Keeps
<1>1. RestTyped /\ proc[p] \in ProcessState
  BY RestIs DEF Typed
<1> QED
  BY <1>1, CountFaultTyped, WriteLinkTyped
  DEF ClaimWrite, Link, RestTyped, ProcessState, Keeps, stored, site, history

LEMMA ClaimAgainRest ==
  ASSUME Typed, NEW p \in Processes, ClaimAgain(p)
  PROVE  RestTyped' /\ Keeps
<1>1. RestTyped /\ proc[p] \in ProcessState
  BY RestIs DEF Typed
<1> QED
  BY <1>1, CountFaultTyped, SetKeyTyped
  DEF ClaimAgain, RestTyped, ProcessState, Keeps, stored, site, history

LEMMA CommandRest ==
  ASSUME Typed, NEW p \in Processes, NEW c \in Chats, NEW what \in Commands, Command(p, c, what)
  PROVE  RestTyped' /\ Keeps
<1>1. RestTyped /\ proc[p] \in ProcessState
  BY RestIs DEF Typed
<1> QED
  BY <1>1, RequestTyped
  DEF Command, Served, RestTyped, ProcessState, Keeps, stored, site, history

LEMMA FindLinkRest ==
  ASSUME Typed, NEW p \in Processes, FindLink(p)
  PROVE  RestTyped' /\ Keeps
<1>1. RestTyped /\ proc[p] \in ProcessState
  BY RestIs DEF Typed
<1> QED
  BY <1>1, CountFaultTyped
  DEF FindLink, RestTyped, ProcessState, Keeps, stored, site, history

LEMMA FindDelKeyRest ==
  ASSUME Typed, NEW p \in Processes, FindDelKey(p)
  PROVE  RestTyped' /\ Keeps
<1>1. RestTyped /\ proc[p] \in ProcessState
  BY RestIs DEF Typed
<1> QED
  BY <1>1, CountFaultTyped, SetKeyTyped
  DEF FindDelKey, RestTyped, ProcessState, Keeps, stored, site, history

LEMMA FindBuiltRest ==
  ASSUME Typed, NEW p \in Processes, FindBuilt(p)
  PROVE  RestTyped' /\ Keeps
<1>1. RestTyped /\ proc[p] \in ProcessState
  BY RestIs DEF Typed
<1> QED
  BY <1>1, CountFaultTyped
  DEF FindBuilt, RestTyped, ProcessState, Keeps, stored, site, history

LEMMA FindMembersRest ==
  ASSUME Typed, NEW p \in Processes, FindMembers(p)
  PROVE  RestTyped' /\ Keeps
<1>1. RestTyped /\ proc[p] \in ProcessState
  BY RestIs DEF Typed
<1> QED
  BY <1>1, CountFaultTyped
  DEF FindMembers, RestTyped, ProcessState, Keeps, stored, site, history

LEMMA WalkReadRest ==
  ASSUME Typed, NEW p \in Processes, NEW t, NEW drop, WalkRead(p, t, drop)
  PROVE  RestTyped' /\ Keeps
<1>1. RestTyped /\ proc[p] \in ProcessState
  BY RestIs DEF Typed
<1> QED
  BY <1>1, CountFaultTyped
  DEF WalkRead, RestTyped, ProcessState, Keeps, stored, site, history

LEMMA WalkDropRest ==
  ASSUME Typed, NEW p \in Processes, NEW next, WalkDrop(p, next)
  PROVE  RestTyped' /\ Keeps
<1>1. RestTyped /\ proc[p] \in ProcessState
  BY RestIs DEF Typed
<1> QED
  BY <1>1, CountFaultTyped, LeaveTyped
  DEF WalkDrop, RestTyped, ProcessState, Keeps, stored, site, history

LEMMA FindEndsRest ==
  ASSUME Typed, NEW p \in Processes, FindEnds(p)
  PROVE  RestTyped' /\ Keeps
<1>1. RestTyped /\ proc[p] \in ProcessState
  BY RestIs DEF Typed
<1> QED
  BY <1>1, CountFaultTyped
  DEF FindEnds, RestTyped, ProcessState, Keeps, stored, site, history

LEMMA FindKeyRest ==
  ASSUME Typed, NEW p \in Processes, FindKey(p)
  PROVE  RestTyped' /\ Keeps
<1>1. RestTyped /\ proc[p] \in ProcessState
  BY RestIs DEF Typed
<1> QED
  BY <1>1, CountFaultTyped, SetKeyTyped
  DEF FindKey, RestTyped, ProcessState, Keeps, stored, site, history

LEMMA StopRest ==
  ASSUME Typed, NEW p \in Processes, Stop(p)
  PROVE  RestTyped' /\ Keeps
<1>1. RestTyped /\ proc[p] \in ProcessState
  BY RestIs DEF Typed
<1> QED
  BY <1>1, CountFaultTyped, SetKeyTyped
  DEF Stop, RestTyped, ProcessState, Keeps, stored, site, history

LEMMA ToggleRest ==
  ASSUME Typed, NEW p \in Processes, Toggle(p)
  PROVE  RestTyped' /\ Keeps
<1>1. RestTyped /\ proc[p] \in ProcessState
  BY RestIs DEF Typed
<1> QED
  BY <1>1, CountFaultTyped, WriteLinkTyped
  DEF Toggle, RestTyped, ProcessState, Keeps, stored, site, history

LEMMA IndexGetRest ==
  ASSUME Typed, NEW p \in Processes, IndexGet(p)
  PROVE  RestTyped' /\ Keeps
<1>1. RestTyped /\ proc[p] \in ProcessState
  BY RestIs DEF Typed
<1> QED
  BY <1>1, CountFaultTyped
  DEF IndexGet, RestTyped, ProcessState, Keeps, stored, site, history

LEMMA IndexOtherRest ==
  ASSUME Typed, NEW p \in Processes, IndexOther(p)
  PROVE  RestTyped' /\ Keeps
<1>1. RestTyped /\ proc[p] \in ProcessState
  BY RestIs DEF Typed
<1> QED
  BY <1>1, CountFaultTyped
  DEF IndexOther, RestTyped, ProcessState, Keeps, stored, site, history

LEMMA IndexTakeRest ==
  ASSUME Typed, NEW p \in Processes, IndexTake(p)
  PROVE  RestTyped' /\ Keeps
<1>1. RestTyped /\ proc[p] \in ProcessState
  BY RestIs DEF Typed
<1> QED
  BY <1>1, CountFaultTyped, SetKeyTyped
  DEF IndexTake, RestTyped, ProcessState, Keeps, stored, site, history

LEMMA IndexSetRest ==
  ASSUME Typed, NEW p \in Processes, IndexSet(p)
  PROVE  RestTyped' /\ Keeps
<1>1. RestTyped /\ proc[p] \in ProcessState
  BY RestIs DEF Typed
<1> QED
  BY <1>1, CountFaultTyped, SetKeyTyped
  DEF IndexSet, RestTyped, ProcessState, Keeps, stored, site, history

LEMMA PassStartRest ==
  ASSUME Typed, NEW p \in Processes, PassStart(p)
  PROVE  RestTyped' /\ Keeps
<1>1. RestTyped /\ proc[p] \in ProcessState
  BY RestIs DEF Typed
<1> QED
  BY <1>1, CountFaultTyped
  DEF PassStart, RestTyped, ProcessState, Keeps, stored, site, history

LEMMA BuildMembersRest ==
  ASSUME Typed, NEW p \in Processes, BuildMembers(p)
  PROVE  RestTyped' /\ Keeps
<1>1. RestTyped /\ proc[p] \in ProcessState
  BY RestIs DEF Typed
<1> QED
  BY <1>1, CountFaultTyped
  DEF BuildMembers, RestTyped, ProcessState, Keeps, stored, site, history

LEMMA BuildReadRest ==
  ASSUME Typed, NEW p \in Processes, NEW t, BuildRead(p, t)
  PROVE  RestTyped' /\ Keeps
<1>1. RestTyped /\ proc[p] \in ProcessState
  BY RestIs DEF Typed
<1> QED
  BY <1>1, CountFaultTyped
  DEF BuildRead, RestTyped, ProcessState, Keeps, stored, site, history

LEMMA BuildMarkRest ==
  ASSUME Typed, NEW p \in Processes, BuildMark(p)
  PROVE  RestTyped' /\ Keeps
<1>1. RestTyped /\ proc[p] \in ProcessState
  BY RestIs DEF Typed
<1> QED
  BY <1>1, CountFaultTyped
  DEF BuildMark, RestTyped, ProcessState, Keeps, stored, site, history

LEMMA PassMembersRest ==
  ASSUME Typed, NEW p \in Processes, PassMembers(p)
  PROVE  RestTyped' /\ Keeps
<1>1. RestTyped /\ proc[p] \in ProcessState
  BY RestIs DEF Typed
<1> QED
  BY <1>1, CountFaultTyped
  DEF PassMembers, RestTyped, ProcessState, Keeps, stored, site, history

LEMMA PassAllReadRest ==
  ASSUME Typed, NEW p \in Processes, PassAllRead(p)
  PROVE  RestTyped' /\ Keeps
<1>1. RestTyped /\ proc[p] \in ProcessState
  BY RestIs DEF Typed
<1> QED
  BY <1>1, CountFaultTyped
  DEF PassAllRead, RestTyped, ProcessState, Keeps, stored, site, history

LEMMA PassIndexRest ==
  ASSUME Typed, NEW p \in Processes, NEW t, PassIndex(p, t)
  PROVE  RestTyped' /\ Keeps
<1>1. RestTyped /\ proc[p] \in ProcessState
  BY RestIs DEF Typed
<1> QED
  BY <1>1, CountFaultTyped
  DEF PassIndex, RestTyped, ProcessState, Keeps, stored, site, history

LEMMA PassIndexedRest ==
  ASSUME Typed, NEW p \in Processes, PassIndexed(p)
  PROVE  RestTyped' /\ Keeps
<1>1. RestTyped /\ proc[p] \in ProcessState
  BY RestIs DEF Typed
<1> QED
  BY <1>1, CountFaultTyped
  DEF PassIndexed, RestTyped, ProcessState, Keeps, stored, site, history

LEMMA FollowRest ==
  ASSUME Typed, NEW p \in Processes, NEW t, Follow(p, t)
  PROVE  RestTyped' /\ Keeps
<1>1. RestTyped /\ proc[p] \in ProcessState
  BY RestIs DEF Typed
<1> QED
  BY <1>1, CountFaultTyped
  DEF Follow, RestTyped, ProcessState, Keeps, stored, site, history

LEMMA DigestRest ==
  ASSUME Typed, NEW p \in Processes, Digest(p)
  PROVE  RestTyped' /\ Keeps
<1>1. RestTyped /\ proc[p] \in ProcessState
  BY RestIs DEF Typed
<1> QED
  BY <1>1, CountFaultTyped, WriteLinkTyped
  DEF Digest, Link, RestTyped, ProcessState, Keeps, stored, site, history

LEMMA PositionsRest ==
  ASSUME Typed, NEW p \in Processes, Positions(p)
  PROVE  RestTyped' /\ Keeps
<1>1. RestTyped /\ proc[p] \in ProcessState
  BY RestIs DEF Typed
<1> QED
  BY <1>1, CountFaultTyped
  DEF Positions, RestTyped, ProcessState, Keeps, stored, site, history

LEMMA SnapshotRest ==
  ASSUME Typed, NEW p \in Processes, Snapshot(p)
  PROVE  RestTyped' /\ Keeps
<1>1. RestTyped /\ proc[p] \in ProcessState
  BY RestIs DEF Typed
<1> QED
  BY <1>1, CountFaultTyped, WriteLinkTyped
  DEF Snapshot, Link, RestTyped, ProcessState, Keeps, stored, site, history

LEMMA PassEndsRest ==
  ASSUME Typed, NEW p \in Processes, PassEnds(p)
  PROVE  RestTyped' /\ Keeps
<1>1. RestTyped /\ proc[p] \in ProcessState
  BY RestIs DEF Typed
<1> QED
  BY <1>1, CountFaultTyped
  DEF PassEnds, RestTyped, ProcessState, Keeps, stored, site, history

LEMMA ForgetDelRest ==
  ASSUME Typed, NEW p \in Processes, ForgetDel(p)
  PROVE  RestTyped' /\ Keeps
<1>1. RestTyped /\ proc[p].other \in Tokens
  BY RestIs DEF Typed, ForgetDel, Shape, ForgetSteps
<1>2. PICK r \in Replies : CountFault(r) /\ WriteLink(r, proc[p].other, NoLink)
  BY DEF ForgetDel
<1>3. NoLink \in Link
  BY DEF Link
<1>4. link' \in [Tokens -> Link]
  BY <1>1, <1>2, <1>3, WriteLinkTyped
<1>5. spent' \in [requests : Nat, faults : Nat, crashes : Nat]
  BY <1>1, <1>2, CountFaultTyped
<1>6. taken' \subseteq taken \cup {proc[p].other}
  BY DEF ForgetDel
<1> QED
  BY <1>1, <1>4, <1>5, <1>6 DEF ForgetDel, RestTyped, Keeps, site

LEMMA MintRest ==
  ASSUME Typed, NEW p \in Processes, Mint(p)
  PROVE  RestTyped' /\ Keeps
<1>1. RestTyped
  BY RestIs DEF Typed
<1>2. PICK t \in Tokens \ minted, r \in Replies :
        /\ minted' = minted \cup {t}
        /\ CountFault(r)
        /\ WriteLink(r, t, NoChat)
        /\ cookie' = IF Answered(r) THEN [cookie EXCEPT ![proc[p].browser] = t] ELSE cookie
  BY DEF Mint
<1>3. NoChat \in Link
  BY DEF Link
<1>4. link' \in [Tokens -> Link]
  BY <1>1, <1>2, <1>3, WriteLinkTyped
<1>5. spent' \in [requests : Nat, faults : Nat, crashes : Nat]
  BY <1>1, <1>2, CountFaultTyped
<1>6. cookie' \in [Browsers -> Tokens \cup {NoToken}]
  BY <1>1, <1>2 DEF RestTyped
<1> QED
  BY <1>1, <1>2, <1>4, <1>5, <1>6 DEF Mint, RestTyped, Keeps, history

LEMMA ClaimAddRest ==
  ASSUME Typed, NEW p \in Processes, ClaimAdd(p)
  PROVE  RestTyped' /\ gone' = gone /\ watches' \subseteq watches \cup {proc[p].token}
<1>1. RestTyped /\ proc[p].token \in Tokens /\ proc[p].chat \in Chats
  BY RestIs DEF Typed, ClaimAdd, Shape, AddSteps
<1> QED
  BY <1>1, CountFaultTyped DEF ClaimAdd, RestTyped, site

LEMMA ForgetLeaveRest ==
  ASSUME Typed, NEW p \in Processes, ForgetLeave(p)
  PROVE  /\ RestTyped'
         /\ \/ Keeps
            \/ /\ gone' = gone \cup {proc[p].other} /\ ~Claiming(proc[p].other)
               /\ watches' = watches \ {proc[p].other}
<1>1. RestTyped /\ proc[p].other \in Tokens
  BY RestIs DEF Typed, ForgetLeave, Shape, ForgetSteps
<1>2. PICK r \in Replies :
        /\ CountFault(r)
        /\ Leave(r, proc[p].other)
        /\ gone' = IF Applied(r) /\ ~Claiming(proc[p].other)
                   THEN gone \cup {proc[p].other} ELSE gone
  BY DEF ForgetLeave
<1>3. spent' \in [requests : Nat, faults : Nat, crashes : Nat]
  BY <1>1, <1>2, CountFaultTyped
<1>4. stopped' \subseteq Chats
  BY <1>1 DEF ForgetLeave, RestTyped
<1> QED
  BY <1>1, <1>2, <1>3, <1>4 DEF ForgetLeave, Leave, RestTyped, Keeps, site

LEMMA PresentRest ==
  ASSUME Typed, NEW h \in Processes, NEW c \in Chats, NEW t \in Tokens, Present(h, c, t)
  PROVE  RestTyped' /\ gone' = gone \ {t} /\ watches' = watches
<1>1. RestTyped
  BY RestIs DEF Typed
<1>2. crossed' \subseteq Chats
  BY <1>1 DEF Present, RestTyped, Served, Presenters
<1> QED
  BY <1>1, <1>2, RequestTyped DEF Present, RestTyped, stored, site

-----------------------------------------------------------------------------
(***************************************************************************)
(* The invariant is kept.                                                  *)
(***************************************************************************)
LEMMA TypedKept ==
  ASSUME Typed, NEW p \in Processes, Moves(p), RestTyped'
  PROVE  Typed'
<1>1. TypeOK'
  BY RestIs DEF Moves, TypeOK, RestTyped
<1>2. \A q \in Processes : Shape(proc'[q])
  BY DEF Typed, Moves
<1> QED
  BY <1>1, <1>2 DEF Typed, Shape

LEMMA Kept ==
  ASSUME IInv, NEW p \in Processes, Moves(p), Carries(p), RestTyped', Keeps
  PROVE  IInv'
<1>1. Typed'
  BY TypedKept DEF IInv
<1>2. GoneAreNotAdding'
  <2> SUFFICES ASSUME NEW h \in Handlers, proc'[h].at \in AddSteps
               PROVE  proc'[h].token \notin gone'
    BY DEF GoneAreNotAdding, AddSteps
  <2>1. CASE h = p
    BY <2>1 DEF IInv, GoneAreNotAdding, Carries, Keeps
  <2>2. CASE h # p
    BY <2>2 DEF IInv, GoneAreNotAdding, Moves, Keeps, Processes
  <2> QED  BY <2>1, <2>2
<1>3. GoneIsNotWalked'
  BY DEF IInv, GoneIsNotWalked, Keeps
<1> QED  BY <1>1, <1>2, <1>3 DEF IInv

\* A link let go leaves the set, and no claim of it is under way.
LEMMA ForgetLeaveKept ==
  ASSUME IInv, NEW p \in Processes, ForgetLeave(p)
  PROVE  IInv'
<1>1. Typed /\ Moves(p) /\ Carries(p) /\ RestTyped'
  BY ForgetLeaveMoves, ForgetLeaveRest DEF IInv
<1>2. CASE Keeps
  BY <1>1, <1>2, Kept
<1>3. CASE /\ gone' = gone \cup {proc[p].other} /\ ~Claiming(proc[p].other)
           /\ watches' = watches \ {proc[p].other}
  <2>1. Typed'
    BY <1>1, TypedKept
  <2>2. GoneAreNotAdding'
    <3> SUFFICES ASSUME NEW h \in Handlers, proc'[h].at \in AddSteps
                 PROVE  proc'[h].token \notin gone'
      BY DEF GoneAreNotAdding, AddSteps
    <3>1. h # p
      BY <1>1 DEF Carries, ForgetLeave, AddSteps
    <3>2. proc'[h] = proc[h]
      BY <1>1, <3>1 DEF Moves, Processes
    <3>3. proc[h].token # proc[p].other
      BY <1>3, <3>2, StepsAre DEF Claiming
    <3> QED
      BY <1>3, <3>2, <3>3 DEF IInv, GoneAreNotAdding
  <2>3. GoneIsNotWalked'
    BY <1>3 DEF IInv, GoneIsNotWalked
  <2> QED  BY <2>1, <2>2, <2>3 DEF IInv
<1> QED  BY <1>2, <1>3, <1>1, ForgetLeaveRest

\* Only a claim puts a token into the set, and what it adds is not gone.
LEMMA ClaimAddKept ==
  ASSUME IInv, NEW h \in Handlers, ClaimAdd(h)
  PROVE  IInv'
<1>1. h \in Processes
  BY DEF Processes
<1>2. Typed /\ Moves(h) /\ Carries(h)
  BY <1>1, ClaimAddMoves DEF IInv
<1>3. /\ RestTyped' /\ gone' = gone
      /\ watches' \subseteq watches \cup {proc[h].token}
  BY <1>1, <1>2, ClaimAddRest
<1>4. Typed'
  BY <1>1, <1>2, <1>3, TypedKept
<1>5. GoneAreNotAdding'
  <2> SUFFICES ASSUME NEW k \in Handlers, proc'[k].at \in AddSteps
               PROVE  proc'[k].token \notin gone'
    BY DEF GoneAreNotAdding, AddSteps
  <2>1. CASE k = h
    BY <1>2, <1>3, <2>1 DEF IInv, GoneAreNotAdding, Carries
  <2>2. CASE k # h
    BY <1>2, <1>3, <2>2 DEF IInv, GoneAreNotAdding, Moves, Processes
  <2> QED  BY <2>1, <2>2
<1>6. proc[h].token \notin gone
  BY DEF IInv, GoneAreNotAdding, ClaimAdd, AddSteps
<1>7. GoneIsNotWalked'
  BY <1>3, <1>6 DEF IInv, GoneIsNotWalked
<1> QED  BY <1>4, <1>5, <1>7 DEF IInv

\* A token presented is not gone any more.
LEMMA PresentKept ==
  ASSUME IInv, NEW h \in Handlers, NEW c \in Chats, NEW t \in Tokens, Present(h, c, t)
  PROVE  IInv'
<1>1. h \in Processes /\ Typed
  BY DEF Processes, IInv
<1>2. /\ Moves(h) /\ proc'[h].token = t
      /\ RestTyped' /\ gone' = gone \ {t} /\ watches' = watches
  BY <1>1, PresentMoves, PresentRest
<1>3. Typed'
  BY <1>1, <1>2, TypedKept
<1>4. GoneAreNotAdding'
  <2> SUFFICES ASSUME NEW k \in Handlers, proc'[k].at \in AddSteps
               PROVE  proc'[k].token \notin gone'
    BY DEF GoneAreNotAdding, AddSteps
  <2>1. CASE k = h
    BY <1>2, <2>1
  <2>2. CASE k # h
    BY <1>2, <2>2 DEF IInv, GoneAreNotAdding, Moves, Processes
  <2> QED  BY <2>1, <2>2
<1>5. GoneIsNotWalked'
  BY <1>2 DEF IInv, GoneIsNotWalked
<1> QED  BY <1>3, <1>4, <1>5 DEF IInv

LEMMA ForgetKept ==
  ASSUME IInv, NEW p \in Processes, Forget(p)
  PROVE  IInv'
<1>0. Typed
  BY DEF IInv
<1>1. CASE ForgetRead(p)
  BY <1>0, <1>1, ForgetReadMoves, ForgetReadRest, Kept
<1>2. CASE ForgetKey(p)
  BY <1>0, <1>2, ForgetKeyMoves, ForgetKeyRest, Kept
<1>3. CASE ForgetDelKey(p)
  BY <1>0, <1>3, ForgetDelKeyMoves, ForgetDelKeyRest, Kept
<1>4. CASE ForgetDel(p)
  BY <1>0, <1>4, ForgetDelMoves, ForgetDelRest, Kept
<1>5. CASE ForgetLeave(p)
  BY <1>0, <1>5, ForgetLeaveKept
<1> QED  BY <1>1, <1>2, <1>3, <1>4, <1>5 DEF Forget

LEMMA ServeKept ==
  ASSUME IInv, NEW h \in Handlers, Serve(h)
  PROVE  IInv'
<1>0. Typed /\ h \in Processes
  BY DEF IInv, Processes
<1>1. CASE Forget(h)
  BY <1>0, <1>1, ForgetKept
<1>2. CASE Mint(h)
  BY <1>0, <1>2, MintMoves, MintRest, Kept
<1>3. CASE ClaimGet(h)
  BY <1>0, <1>3, ClaimGetMoves, ClaimGetRest, Kept
<1>4. CASE ClaimCount(h)
  BY <1>0, <1>4, ClaimCountMoves, ClaimCountRest, Kept
<1>5. CASE ClaimKey(h)
  BY <1>0, <1>5, ClaimKeyMoves, ClaimKeyRest, Kept
<1>6. CASE ClaimWrite(h)
  BY <1>0, <1>6, ClaimWriteMoves, ClaimWriteRest, Kept
<1>7. CASE ClaimAdd(h)
  BY <1>0, <1>7, ClaimAddKept
<1>8. CASE ClaimAgain(h)
  BY <1>0, <1>8, ClaimAgainMoves, ClaimAgainRest, Kept
<1>9. CASE FindLink(h)
  BY <1>0, <1>9, FindLinkMoves, FindLinkRest, Kept
<1>10. CASE FindDelKey(h)
  BY <1>0, <1>10, FindDelKeyMoves, FindDelKeyRest, Kept
<1>11. CASE FindBuilt(h)
  BY <1>0, <1>11, FindBuiltMoves, FindBuiltRest, Kept
<1>12. CASE FindMembers(h)
  BY <1>0, <1>12, FindMembersMoves, FindMembersRest, Kept
<1>13. ASSUME NEW t \in Tokens, FindRead(h, t)  PROVE IInv'
  BY <1>0, <1>13, WalkReadMoves, WalkReadRest, Kept DEF FindRead
<1>14. CASE FindDrop(h)
  BY <1>0, <1>14, WalkDropMoves, WalkDropRest, Kept DEF FindDrop
<1>15. CASE FindEnds(h)
  BY <1>0, <1>15, FindEndsMoves, FindEndsRest, Kept
<1>16. CASE FindKey(h)
  BY <1>0, <1>16, FindKeyMoves, FindKeyRest, Kept
<1>17. CASE Stop(h)
  BY <1>0, <1>17, StopMoves, StopRest, Kept
<1>18. CASE Toggle(h)
  BY <1>0, <1>18, ToggleMoves, ToggleRest, Kept
<1> QED  BY <1>1, <1>2, <1>3, <1>4, <1>5, <1>6, <1>7, <1>8, <1>9, <1>10, <1>11, <1>12,
            <1>13, <1>14, <1>15, <1>16, <1>17, <1>18 DEF Serve

LEMMA AskKept ==
  ASSUME IInv, NEW h \in Handlers, Ask(h)
  PROVE  IInv'
<1>0. Typed /\ h \in Processes
  BY DEF IInv, Processes
<1>1. ASSUME NEW b \in Browsers, Connect(h, b)  PROVE IInv'
  BY <1>0, <1>1, ConnectMoves, ConnectRest, Kept
<1>2. ASSUME NEW b \in Browsers, Disconnect(h, b)  PROVE IInv'
  BY <1>0, <1>2, DisconnectMoves, DisconnectRest, Kept
<1>3. ASSUME NEW c \in Chats, NEW t \in Tokens, Present(h, c, t)  PROVE IInv'
  BY <1>3, PresentKept
<1>4. ASSUME NEW c \in Chats, NEW what \in Commands, Command(h, c, what)  PROVE IInv'
  BY <1>0, <1>4, CommandMoves, CommandRest, Kept
<1> QED  BY <1>1, <1>2, <1>3, <1>4 DEF Ask

LEMMA WalkKept ==
  ASSUME IInv, NEW p \in Passes, Walk(p) \/ PassStart(p)
  PROVE  IInv'
<1>0. Typed /\ p \in Processes
  BY DEF IInv, Processes
<1>1. CASE Forget(p)
  BY <1>0, <1>1, ForgetKept
<1>2. CASE IndexGet(p)
  BY <1>0, <1>2, IndexGetMoves, IndexGetRest, Kept
<1>3. CASE IndexOther(p)
  BY <1>0, <1>3, IndexOtherMoves, IndexOtherRest, Kept
<1>4. CASE IndexTake(p)
  BY <1>0, <1>4, IndexTakeMoves, IndexTakeRest, Kept
<1>5. CASE IndexSet(p)
  BY <1>0, <1>5, IndexSetMoves, IndexSetRest, Kept
<1>6. CASE BuildMembers(p)
  BY <1>0, <1>6, BuildMembersMoves, BuildMembersRest, Kept
<1>7. ASSUME NEW t \in Tokens, BuildRead(p, t)  PROVE IInv'
  BY <1>0, <1>7, BuildReadMoves, BuildReadRest, Kept
<1>8. CASE BuildDrop(p)
  BY <1>0, <1>8, WalkDropMoves, WalkDropRest, Kept DEF BuildDrop
<1>9. CASE BuildMark(p)
  BY <1>0, <1>9, BuildMarkMoves, BuildMarkRest, Kept
<1>10. CASE PassMembers(p)
  BY <1>0, <1>10, PassMembersMoves, PassMembersRest, Kept
<1>11. ASSUME NEW t \in Tokens, PassRead(p, t)  PROVE IInv'
  BY <1>0, <1>11, WalkReadMoves, WalkReadRest, Kept DEF PassRead
<1>12. CASE PassDrop(p)
  BY <1>0, <1>12, WalkDropMoves, WalkDropRest, Kept DEF PassDrop
<1>13. CASE PassAllRead(p)
  BY <1>0, <1>13, PassAllReadMoves, PassAllReadRest, Kept
<1>14. ASSUME NEW t \in Tokens, PassIndex(p, t)  PROVE IInv'
  BY <1>0, <1>14, PassIndexMoves, PassIndexRest, Kept
<1>15. CASE PassIndexed(p)
  BY <1>0, <1>15, PassIndexedMoves, PassIndexedRest, Kept
<1>16. ASSUME NEW t \in Tokens, Follow(p, t)  PROVE IInv'
  BY <1>0, <1>16, FollowMoves, FollowRest, Kept
<1>17. CASE Digest(p)
  BY <1>0, <1>17, DigestMoves, DigestRest, Kept
<1>18. CASE Positions(p)
  BY <1>0, <1>18, PositionsMoves, PositionsRest, Kept
<1>19. CASE Snapshot(p)
  BY <1>0, <1>19, SnapshotMoves, SnapshotRest, Kept
<1>20. CASE PassEnds(p)
  BY <1>0, <1>20, PassEndsMoves, PassEndsRest, Kept
<1>21. CASE PassStart(p)
  BY <1>0, <1>21, PassStartMoves, PassStartRest, Kept
<1> QED  BY <1>1, <1>2, <1>3, <1>4, <1>5, <1>6, <1>7, <1>8, <1>9, <1>10, <1>11, <1>12,
            <1>13, <1>14, <1>15, <1>16, <1>17, <1>18, <1>19, <1>20, <1>21 DEF Walk

LEMMA ExpireKept ==
  ASSUME IInv, NEW t \in Tokens, Expire(t)
  PROVE  IInv'
<1>1. link' \in [Tokens -> Link]
  BY DEF IInv, Typed, TypeOK, Expire, Link
<1>2. Typed'
  BY <1>1 DEF IInv, Typed, TypeOK, Expire, site, history, Shape
<1> QED
  BY <1>2 DEF IInv, Expire, history, GoneAreNotAdding, GoneIsNotWalked

LEMMA CrashKept ==
  ASSUME IInv, Crash
  PROVE  IInv'
<1>1. proc' = [p \in Processes |-> Idle] /\ gone' = gone /\ watches' = watches
  BY DEF Crash, history, stored
<1>2. spent' \in [requests : Nat, faults : Nat, crashes : Nat]
  BY DEF IInv, Typed, TypeOK, Crash
<1>3. proc' \in [Processes -> ProcessState] /\ \A p \in Processes : Shape(proc'[p])
  BY <1>1, IdleIs
<1>4. Typed'
  BY <1>2, <1>3 DEF IInv, Typed, TypeOK, Crash, stored, site, history, Shape
<1>5. \A h \in Handlers : proc'[h].at = "idle"
  BY <1>1, IdleIs DEF Processes
<1>6. GoneAreNotAdding'
  BY <1>5 DEF GoneAreNotAdding, AddSteps
<1>7. GoneIsNotWalked'
  BY <1>1 DEF IInv, GoneIsNotWalked
<1> QED  BY <1>4, <1>6, <1>7 DEF IInv

LEMMA InitHolds == ASSUME Init PROVE IInv
<1>1. proc \in [Processes -> ProcessState] /\ \A p \in Processes : Shape(proc[p])
  BY IdleIs DEF Init
<1>2. \A h \in Handlers : proc[h].at = "idle"
  BY IdleIs DEF Init, Processes
<1>3. PICK owner \in [Legacy -> Chats] :
        /\ link = [t \in Tokens |-> IF t \in Legacy THEN owner[t] ELSE NoLink]
        /\ presented = {<<t, owner[t]>> : t \in Legacy}
  BY DEF Init
<1>4. link \in [Tokens -> Link]
  BY <1>3 DEF Link
<1>5. presented \subseteq Tokens \X Chats
  BY <1>3, TokensAssumption
<1>6. TypeOK
  BY <1>1, <1>4, <1>5, TokensAssumption DEF Init, TypeOK
<1> QED
  BY <1>1, <1>2, <1>6 DEF Init, IInv, Typed, GoneAreNotAdding, GoneIsNotWalked, AddSteps

LEMMA StepKeeps == IInv /\ [Next]_vars => IInv'
<1> SUFFICES ASSUME IInv, [Next]_vars PROVE IInv'
  OBVIOUS
<1>1. ASSUME NEW h \in Handlers, Serve(h) \/ Ask(h)  PROVE IInv'
  BY <1>1, ServeKept, AskKept
<1>2. ASSUME NEW p \in Passes, Walk(p) \/ PassStart(p)  PROVE IInv'
  BY <1>2, WalkKept
<1>3. ASSUME NEW t \in Tokens, Expire(t)  PROVE IInv'
  BY <1>3, ExpireKept
<1>4. CASE Crash
  BY <1>4, CrashKept
<1>5. CASE UNCHANGED vars
  BY <1>5 DEF vars, stored, site, history, IInv, Typed, TypeOK, Shape, GoneAreNotAdding,
              GoneIsNotWalked
<1> QED  BY <1>1, <1>2, <1>3, <1>4, <1>5 DEF Next

LEMMA InvariantHolds == Spec => []IInv
<1>1. Init => IInv
  BY InitHolds
<1> QED  BY <1>1, StepKeeps, PTL DEF Spec

-----------------------------------------------------------------------------
\* Whatever requests, passes and restarts do to one another, every record, every
\* chat's key, and what every request and pass remembers is of its kind
\* (links.ts, handleUpdate.ts, checkWatches.ts).
THEOREM TypeCorrect == Spec => []TypeOK
<1>1. IInv => TypeOK
  BY DEF IInv, Typed
<1> QED  BY <1>1, InvariantHolds, PTL

\* A link let go is not walked again until its token is presented again, for any
\* number of requests and passes in flight: only a claim adds to the set, and
\* none of a link that is gone is under way (forgetLink, claimLink).
THEOREM LetGoIsNotWalked == Spec => []GoneIsNotWalked
<1>1. IInv => GoneIsNotWalked
  BY DEF IInv
<1> QED  BY <1>1, InvariantHolds, PTL


-----------------------------------------------------------------------------
(***************************************************************************)
(* A chat whose requests follow one another keeps its link.  What a         *)
(* process remembers it may write long after, and what it lets go it has    *)
(* chosen long before: the invariant says of both how they stand to what    *)
(* the chats have presented, and that a chat that is followed and not       *)
(* crossed has a link nothing will take from it.                            *)
(***************************************************************************)
\* The steps at which proc[p].other is to be let go, or dropped from the set.
LeaveSteps == ForgetSteps \cup {"indexTake", "findDrop", "passDrop", "buildDrop"}
Lets(s, t) == s.other = t /\ s.at \in LeaveSteps

\* The steps at which a process remembers whose proc[p].token was.
RememberSteps ==
  IndexSteps \cup {"findKey", "toggle", "stop", "digest", "positions", "snapshot"}
Remembers(s, t, c) ==
  s.kept[t] = c \/ (s.at \in RememberSteps /\ s.token = t /\ s.chat = c)

\* A link that is the chat's, or may be written as the chat's yet.
Mine(t, c) == link[t] = c \/ \E p \in Processes : Remembers(proc[p], t, c)

\* A token that neither the set nor a walk has met.
Untouched(t) ==
  t \notin watches /\ \A p \in Processes : t \notin proc[p].todo /\ proc[p].kept[t] = NoLink

\* A request of the chat, or one that lets go what the chat presented.
Busy(s, c) == \/ s.at # "idle" /\ s.chat = c
              \/ s.at \in ForgetSteps /\ <<s.other, c>> \in presented

\* The steps at which proc[p].other is another link of the chat's.
SetAgainst ==
  {"claimCount", "claimKey", "claimWrite", "claimAdd", "indexOther", "indexTake"}

\* What a process holds of a chat, the chat presented.
Knows(s) ==
  /\ s.at = "idle" => s = Idle
  /\ s.chat \in Chats /\ s.token \in Tokens => <<s.token, s.chat>> \in presented
  /\ s.at \in SetAgainst /\ s.other \in Tokens => <<s.other, s.chat>> \in presented
  /\ \A t \in Tokens : s.kept[t] # NoLink => <<t, s.kept[t]>> \in presented
  /\ s.at \in {"findKey", "toggle", "stop"} => s.held = s.chat
  /\ s.at \in RememberSteps \cup {"findLink"} => s.token \in Tokens /\ s.chat \in Chats
  /\ s.at \in FindSteps => s.chat \in Chats
  /\ s.at \in AddSteps => s.held \in {NoChat, s.chat}
  /\ s.at \in {"indexOther", "indexTake"} => s.other # s.token

LinksNamed == \A t \in Tokens, c \in Chats : link[t] = c => <<t, c>> \in presented
KeysNamed  == \A c \in Chats : chatKey[c] # NoToken => <<chatKey[c], c>> \in presented
Named == LinksNamed /\ KeysNamed /\ \A p \in Processes : Knows(proc[p])

AllMinted ==
  /\ \A t \in Tokens : link[t] # NoLink => t \in minted
  /\ watches \subseteq minted
  /\ \A p \in Processes : proc[p].todo \subseteq minted
  /\ \A t \in Tokens, c \in Chats : <<t, c>> \in presented => t \in minted

PendingUntouched == \A t \in Tokens : link[t] = NoChat => Untouched(t)

\* A claim that has only its token's place in the set to add.
Claimant(s) == s.at \in AddSteps /\ (s.held # NoChat \/ s.at = "claimAdd")
AddingClaimed == \A h \in Handlers : Claimant(proc[h]) => link[proc[h].token] # NoChat

Alone ==
  \A c \in Chats \ crossed : \A t \in Tokens, d \in Chats :
    <<t, c>> \in presented /\ <<t, d>> \in presented => c = d

Single ==
  \A c \in Chats \ crossed : \A h, k \in Handlers :
    Busy(proc[h], c) /\ Busy(proc[k], c) => h = k

\* A claim is of the last token its chat presented, and nobody lets that go.
ClaimsLast ==
  \A c \in Chats \ crossed : \A h \in Handlers :
    proc[h].at \in AddSteps /\ proc[h].chat = c =>
      /\ \A u \in Tokens : <<u, c>> \in presented => u <= proc[h].token
      /\ \A p \in Processes : ~Lets(proc[p], proc[h].token)
      /\ Claimant(proc[h]) => link[proc[h].token] = c
      /\ ~Claimant(proc[h]) => Untouched(proc[h].token)

Current(t, c) ==
  /\ link[t] = c
  /\ t \in watches
       \/ \E h \in Handlers : proc[h].at = "claimAdd" /\ proc[h].chat = c /\ proc[h].token = t
  /\ \A p \in Processes : ~Lets(proc[p], t)
  /\ \A u \in Tokens : Mine(u, c) => u <= t

Calm == spent.faults = 0 /\ spent.crashes = 0
HasCurrent == Calm => \A c \in followed \ crossed : \E t \in Tokens : Current(t, c)

Order == /\ Typed /\ Named /\ AllMinted /\ PendingUntouched /\ AddingClaimed
         /\ Alone /\ Single /\ ClaimsLast /\ HasCurrent

-----------------------------------------------------------------------------
(***************************************************************************)
(* Every action but the four that begin, write, end or cut off a claim      *)
(* goes on in one way: what the process learns it has read, what it lets go *)
(* is nobody's, or somebody's who has a later link or is not followed.      *)
(***************************************************************************)
ReadsOn(p) ==
  /\ \A t \in Tokens : t \in proc'[p].todo =>
       t \in proc[p].todo \/ t \in watches \/ proc[p].kept[t] # NoLink
  /\ \A t \in Tokens : proc'[p].kept[t] # NoLink =>
       \/ proc'[p].kept[t] = proc[p].kept[t]
       \/ t \in proc[p].todo /\ proc'[p].kept[t] = link[t]
  /\ \A t \in Tokens, c \in Chats :
       Remembers(proc'[p], t, c) => Remembers(proc[p], t, c) \/ link[t] = c

ClaimsOn(p) ==
  /\ proc[p].at # "claimAdd"
  /\ proc'[p].at \in AddSteps =>
       /\ proc[p].at \in AddSteps
       /\ proc'[p].token = proc[p].token /\ proc'[p].chat = proc[p].chat
       /\ proc'[p].held = proc[p].held
       /\ proc'[p].at = "claimAdd" => proc[p].held # NoChat

\* The chat of a token has another, later.
Outdone(t) ==
  \E c \in Chats, w \in Tokens : w > t /\ <<t, c>> \in presented /\ Mine(w, c)

\* A chat that presented the token is not followed, and claims nothing.
Unwanted(t) ==
  \A c \in Chats \ crossed' : <<t, c>> \in presented =>
    /\ c \notin followed'
    /\ \A h \in Handlers : ~(proc[h].at \in AddSteps /\ proc[h].chat = c)

SparesOn(p) ==
  \A t \in Tokens : Lets(proc'[p], t) =>
    \/ Lets(proc[p], t)
    \/ t \in proc[p].todo /\ ~Claimed(t)
    \/ Outdone(t)
    \/ Unwanted(t)

ServesOn(p) ==
  p \in Handlers =>
    \A c \in Chats \ crossed' : Busy(proc'[p], c) =>
      Busy(proc[p], c) \/ \A k \in Handlers \ {p} : ~Busy(proc[k], c)

GoesOn(p) == Knows(proc'[p]) /\ ReadsOn(p) /\ ClaimsOn(p) /\ SparesOn(p) /\ ServesOn(p)

\* What may become of a record.
LinkGoesOn(p, t) ==
  \/ link'[t] = link[t]
  \/ link'[t] = NoLink /\ Lets(proc[p], t)
  \/ link'[t] = NoChat /\ t \in minted' \ minted
  \/ link'[t] \in Chats /\ Mine(t, link'[t])

StoreGoesOn(p) ==
  /\ presented' = presented /\ followed' \subseteq followed /\ crossed \subseteq crossed'
  /\ minted \subseteq minted'
  /\ watches' \subseteq watches
  /\ \A t \in watches \ watches' : Lets(proc[p], t)
  /\ \A t \in Tokens : LinkGoesOn(p, t)
  /\ KeysNamed'
  /\ Calm' => Calm

-----------------------------------------------------------------------------
(***************************************************************************)
(* Going on keeps the invariant.                                           *)
(***************************************************************************)
LEMMA MineIsPresented ==
  ASSUME Order, NEW t \in Tokens, NEW c \in Chats, Mine(t, c)
  PROVE  <<t, c>> \in presented
<1>1. CASE link[t] = c
  BY <1>1 DEF Order, Named, LinksNamed
<1>2. ASSUME NEW p \in Processes, Remembers(proc[p], t, c)
      PROVE  <<t, c>> \in presented
  <2>1. Knows(proc[p])
    BY DEF Order, Named
  <2> QED  BY <1>2, <2>1, NullAssumption DEF Knows, Remembers
<1> QED  BY <1>1, <1>2 DEF Mine

LEMMA GoesOnKeeps ==
  ASSUME Order, Typed', NEW p \in Processes, Moves(p), GoesOn(p), StoreGoesOn(p)
  PROVE  Order'
<1>1. /\ \A q \in Processes \ {p} : proc'[q] = proc[q]
      /\ presented' = presented /\ followed' \subseteq followed /\ crossed \subseteq crossed'
      /\ Handlers \subseteq Processes
  BY DEF Moves, StoreGoesOn, Processes
<1>2. \A t \in Tokens, c \in Chats : Mine(t, c) => <<t, c>> \in presented
  BY MineIsPresented
<1>3. \A t \in Tokens, c \in Chats : link'[t] = c => Mine(t, c)
  BY NullAssumption DEF StoreGoesOn, LinkGoesOn, Mine
<1>4. \A t \in Tokens, c \in Chats : Mine(t, c)' => Mine(t, c)
  BY <1>1, <1>3 DEF GoesOn, ReadsOn, Mine
<1>5. Named'
  <2>1. LinksNamed'
    BY <1>1, <1>2, <1>3 DEF LinksNamed
  <2>2. \A q \in Processes : Knows(proc'[q])
    BY <1>1 DEF Order, Named, GoesOn
  <2>3. \A q \in Processes : Knows(proc[q])'
    BY <1>1, <2>2 DEF Knows
  <2> QED  BY <2>1, <2>3 DEF Named, StoreGoesOn
<1>6. AllMinted'
  <2>1. \A t \in Tokens : link'[t] # NoLink => t \in minted'
    BY <1>2 DEF Order, AllMinted, Typed, TypeOK, StoreGoesOn, LinkGoesOn
  <2>2. \A t \in Tokens : t \in proc'[p].todo => t \in minted
    <3> TAKE t \in Tokens
    <3> HAVE t \in proc'[p].todo
    <3>1. CASE t \in proc[p].todo \/ t \in watches
      BY <3>1 DEF Order, AllMinted
    <3>2. CASE proc[p].kept[t] # NoLink
      <4>1. Knows(proc[p]) /\ proc[p].kept[t] \in Chats
        BY <3>2 DEF Order, Named, Typed, Shape
      <4> QED  BY <3>2, <4>1 DEF Knows, Order, AllMinted
    <3> QED  BY <3>1, <3>2 DEF GoesOn, ReadsOn
  <2>3. \A q \in Processes : proc'[q].todo \subseteq minted'
    BY <1>1, <2>2 DEF Order, AllMinted, StoreGoesOn, Moves, ProcessState
  <2>4. watches' \subseteq minted'
    BY DEF Order, AllMinted, StoreGoesOn
  <2> QED  BY <1>1, <2>1, <2>3, <2>4 DEF Order, AllMinted, StoreGoesOn
<1>7. ASSUME NEW t \in Tokens, Untouched(t)  PROVE Untouched(t)'
  BY <1>1, <1>7 DEF Untouched, GoesOn, ReadsOn, StoreGoesOn
<1>8. PendingUntouched'
  <2> SUFFICES ASSUME NEW t \in Tokens, link'[t] = NoChat  PROVE Untouched(t)'
    BY DEF PendingUntouched, Untouched
  <2>1. CASE link[t] = NoChat
    BY <1>7, <2>1 DEF Order, PendingUntouched
  <2>2. CASE t \notin minted
    <3>1. t \notin watches /\ \A q \in Processes : t \notin proc[q].todo
      BY <2>2 DEF Order, AllMinted
    <3>2. ASSUME NEW q \in Processes, proc[q].kept[t] # NoLink  PROVE FALSE
      <4>1. Knows(proc[q]) /\ proc[q].kept[t] \in Chats
        BY <3>2 DEF Order, Named, Typed, Shape
      <4> QED  BY <2>2, <3>2, <4>1 DEF Knows, Order, AllMinted
    <3> QED  BY <1>7, <3>1, <3>2 DEF Untouched
  <2> QED  BY <2>1, <2>2, NullAssumption DEF StoreGoesOn, LinkGoesOn
<1>9. \A h \in Handlers : proc'[h].at \in AddSteps =>
        /\ proc[h].at \in AddSteps /\ proc'[h].token = proc[h].token
        /\ proc'[h].chat = proc[h].chat /\ proc'[h].held = proc[h].held
        /\ Claimant(proc'[h]) <=> Claimant(proc[h])
        /\ proc[h].token \in Tokens /\ <<proc[h].token, proc[h].chat>> \in presented
        /\ proc[h].chat \in Chats
  <2> SUFFICES ASSUME NEW h \in Handlers, proc'[h].at \in AddSteps
               PROVE  /\ proc[h].at \in AddSteps /\ proc'[h].token = proc[h].token
                      /\ proc'[h].chat = proc[h].chat /\ proc'[h].held = proc[h].held
                      /\ Claimant(proc'[h]) <=> Claimant(proc[h])
                      /\ proc[h].token \in Tokens /\ <<proc[h].token, proc[h].chat>> \in presented
                      /\ proc[h].chat \in Chats
    OBVIOUS
  <2>1. /\ proc[h].at \in AddSteps /\ proc'[h].token = proc[h].token
        /\ proc'[h].chat = proc[h].chat /\ proc'[h].held = proc[h].held
        /\ Claimant(proc'[h]) <=> Claimant(proc[h])
    BY <1>1 DEF GoesOn, ClaimsOn, Claimant
  <2>2. proc[h].token \in Tokens /\ proc[h].chat \in Chats /\ Knows(proc[h])
    BY <1>1, <2>1 DEF Order, Named, Typed, Shape
  <2> QED  BY <2>1, <2>2 DEF Knows
<1>10. AddingClaimed'
  BY <1>2, <1>9, NullAssumption
     DEF AddingClaimed, Claimant, Order, AllMinted, StoreGoesOn, LinkGoesOn
<1>11. Alone'
  BY <1>1 DEF Order, Alone
<1>12. Single'
  <2> SUFFICES ASSUME NEW c \in Chats \ crossed', NEW h \in Handlers, NEW k \in Handlers,
                      Busy(proc'[h], c), Busy(proc'[k], c), h # k
               PROVE  FALSE
    BY <1>1 DEF Single, Busy
  <2>1. \A q \in Handlers \ {p} : Busy(proc'[q], c) <=> Busy(proc[q], c)
    BY <1>1
  <2>2. \A q, r \in Handlers : Busy(proc[q], c) /\ Busy(proc[r], c) => q = r
    BY <1>1 DEF Order, Single
  <2> QED  BY <1>1, <2>1, <2>2 DEF GoesOn, ServesOn
<1>13. ASSUME NEW t \in Tokens, NEW c \in Chats \ crossed', link[t] = c,
              \A q \in Processes : ~Lets(proc[q], t)
       PROVE  link'[t] = c
  <2>1. <<t, c>> \in presented /\ t \in minted
    BY <1>13, NullAssumption DEF Order, Named, LinksNamed, AllMinted
  <2>2. LinkGoesOn(p, t)
    BY DEF StoreGoesOn
  <2> QED  BY <1>1, <1>2, <1>13, <2>1, <2>2 DEF LinkGoesOn, Order, Alone
<1>14. ASSUME NEW t \in Tokens, NEW c \in Chats \ crossed', <<t, c>> \in presented,
              \A q \in Processes : ~Lets(proc[q], t),
              Claimed(t) \/ Untouched(t),
              \A u \in Tokens : Mine(u, c) => u <= t,
              c \in followed' \/ \E h \in Handlers : proc[h].at \in AddSteps /\ proc[h].chat = c
       PROVE  \A q \in Processes : ~Lets(proc'[q], t)
  <2>1. ~(t \in proc[p].todo /\ ~Claimed(t))
    BY <1>14 DEF Untouched
  <2>2. ~Outdone(t)
    <3> SUFFICES ASSUME NEW d \in Chats, NEW w \in Tokens,
                        w > t, <<t, d>> \in presented, Mine(w, d)
                 PROVE  FALSE
      BY DEF Outdone
    <3>1. d = c
      BY <1>1, <1>14 DEF Order, Alone
    <3>2. w <= t /\ w \in Nat /\ t \in Nat
      BY <1>14, <3>1, TokensAssumption
    <3> QED  BY <3>2
  <2>3. ~Unwanted(t)
    BY <1>14 DEF Unwanted
  <2> QED  BY <1>1, <1>14, <2>1, <2>2, <2>3 DEF GoesOn, SparesOn
<1>15. ClaimsLast'
  <2> SUFFICES ASSUME NEW c \in Chats \ crossed', NEW h \in Handlers,
                      proc'[h].at \in AddSteps, proc'[h].chat = c
               PROVE  /\ \A u \in Tokens : <<u, c>> \in presented' => u <= proc'[h].token
                      /\ \A q \in Processes : ~Lets(proc'[q], proc'[h].token)
                      /\ Claimant(proc'[h]) => link'[proc'[h].token] = c
                      /\ ~Claimant(proc'[h]) =>
                           /\ proc'[h].token \notin watches'
                           /\ \A q \in Processes : /\ proc'[h].token \notin proc'[q].todo
                                                   /\ proc'[q].kept[proc'[h].token] = NoLink
    BY DEF ClaimsLast, Lets, Claimant, Untouched
  <2> DEFINE v == proc[h].token
  <2>1. /\ v \in Tokens /\ proc'[h].token = v /\ <<v, c>> \in presented
        /\ proc[h].at \in AddSteps /\ proc[h].chat = c
        /\ Claimant(proc'[h]) <=> Claimant(proc[h])
    BY <1>9
  <2>2. /\ \A u \in Tokens : <<u, c>> \in presented => u <= v
        /\ \A q \in Processes : ~Lets(proc[q], v)
        /\ Claimant(proc[h]) => link[v] = c
        /\ ~Claimant(proc[h]) => Untouched(v)
    BY <1>1, <2>1 DEF Order, ClaimsLast
  <2>3. \A q \in Processes : ~Lets(proc'[q], v)
    BY <1>2, <1>14, <2>1, <2>2 DEF Claimed
  <2>4. Claimant(proc[h]) => link'[v] = c
    BY <1>13, <2>1, <2>2
  <2>5. ~Claimant(proc[h]) => Untouched(v)'
    BY <1>7, <2>1, <2>2
  <2> QED  BY <1>1, <2>1, <2>2, <2>3, <2>4, <2>5 DEF Untouched
<1>16. HasCurrent'
  <2> SUFFICES ASSUME Calm', NEW c \in followed' \ crossed'
               PROVE  \E t \in Tokens : Current(t, c)'
    BY DEF HasCurrent
  <2>1. Calm /\ c \in followed \ crossed /\ c \in Chats \ crossed'
    BY <1>1 DEF StoreGoesOn, Order, Typed, TypeOK
  <2>2. PICK t \in Tokens : Current(t, c)
    BY <2>1 DEF Order, HasCurrent
  <2>3. <<t, c>> \in presented /\ Claimed(t)
    BY <2>1, <2>2 DEF Current, Order, Named, LinksNamed, Claimed
  <2>4. link'[t] = c
    BY <1>13, <2>1, <2>2 DEF Current
  <2>5. \A q \in Processes : ~Lets(proc'[q], t)
    BY <1>14, <2>1, <2>2, <2>3 DEF Current
  <2>6. \A u \in Tokens : Mine(u, c)' => u <= t
    BY <1>4, <2>1, <2>2 DEF Current
  <2>7. t \in watches'
          \/ \E h \in Handlers : proc'[h].at = "claimAdd" /\ proc'[h].chat = c /\ proc'[h].token = t
    <3>1. CASE t \in watches
      BY <2>2, <3>1 DEF Current, StoreGoesOn
    <3>2. ASSUME NEW h \in Handlers, proc[h].at = "claimAdd", proc[h].chat = c, proc[h].token = t
          PROVE  proc'[h] = proc[h]
      BY <1>1, <3>2 DEF GoesOn, ClaimsOn
    <3> QED  BY <2>2, <3>1, <3>2 DEF Current
  <2> QED  BY <2>4, <2>5, <2>6, <2>7 DEF Current, Lets
<1> QED
  BY <1>5, <1>6, <1>8, <1>10, <1>11, <1>12, <1>15, <1>16 DEF Order

-----------------------------------------------------------------------------
(***************************************************************************)
(* What each action makes of its process.                                  *)
(***************************************************************************)
USE DEF GoesOn, Knows, ReadsOn, Remembers, ClaimsOn, SparesOn, Lets, ServesOn, Busy,
        AddSteps, ForgetSteps, FindSteps, IndexSteps, AfterForget, Commands,
        LeaveSteps, RememberSteps, SetAgainst

LEMMA OrderStands ==
  ASSUME Order, NEW p \in Processes
  PROVE  Stands(p) /\ Knows(proc[p])
BY StandsTyped DEF Order, Named

LEMMA EndsOn ==
  ASSUME Order, NEW p \in Processes, Ends(p), proc[p].at # "claimAdd"
  PROVE  GoesOn(p)
<1>1. Stands(p) /\ Knows(proc[p]) /\ proc'[p] = Idle
  BY OrderStands DEF Ends, Stands
<1> QED
  BY <1>1, NullAssumption DEF Idle, Nothing, Stands, ProcessState, Shape

LEMMA IndexEndsOn ==
  ASSUME Order, NEW p \in Processes, proc[p].at \in IndexSteps, IndexEnds(p)
  PROVE  GoesOn(p)
<1>1. /\ Stands(p) /\ Knows(proc[p]) /\ proc[p].back \in {"build", "passIndex"}
      /\ proc' = [proc EXCEPT ![p].at = proc[p].back, ![p].back = "idle",
                              ![p].token = NoToken, ![p].chat = NoChat,
                              ![p].other = NoToken]
  BY OrderStands DEF IndexEnds, Stands, Shape
<1>2. /\ proc'[p].at \in {"build", "passIndex"} /\ proc'[p].token = NoToken
      /\ proc'[p].chat = NoChat /\ proc'[p].other = NoToken
      /\ proc'[p].todo = proc[p].todo /\ proc'[p].kept = proc[p].kept
  BY <1>1 DEF Stands, ProcessState
<1>3. Knows(proc'[p]) /\ ReadsOn(p)
  BY <1>1, <1>2, NullAssumption DEF Stands, ProcessState
<1>4. ClaimsOn(p) /\ SparesOn(p) /\ ServesOn(p)
  BY <1>1, <1>2, NullAssumption
<1> QED  BY <1>3, <1>4

LEMMA ForgetReadOn ==
  ASSUME Order, NEW p \in Processes, ForgetRead(p)
  PROVE  GoesOn(p)
<1>1. Stands(p) /\ Knows(proc[p])
  BY OrderStands
<1>2. CASE /\ Claimed(proc[p].other)
           /\ proc' = [proc EXCEPT ![p].at = "forgetKey",
                                   ![p].owner = link[proc[p].other]]
  BY <1>1, <1>2, NullAssumption DEF ForgetRead, Claimed, Stands, ProcessState, Shape
<1>3. CASE Goes(p, "forgetDel")
  BY <1>1, <1>3, NullAssumption DEF ForgetRead, Claimed, Goes, Stands, ProcessState,
     Shape
<1> QED  BY <1>2, <1>3 DEF ForgetRead, Claimed

LEMMA ForgetKeyOn ==
  ASSUME Order, NEW p \in Processes, ForgetKey(p)
  PROVE  GoesOn(p)
<1>1. Stands(p) /\ Knows(proc[p])
  BY OrderStands
<1>2. CASE Goes(p, "forgetDelKey")
  BY <1>1, <1>2, NullAssumption DEF ForgetKey, Goes, Stands, ProcessState, Shape
<1>3. CASE Goes(p, "forgetDel")
  BY <1>1, <1>3, NullAssumption DEF ForgetKey, Goes, Stands, ProcessState, Shape
<1> QED  BY <1>2, <1>3 DEF ForgetKey

LEMMA ForgetDelKeyOn ==
  ASSUME Order, NEW p \in Processes, ForgetDelKey(p)
  PROVE  GoesOn(p)
<1>1. Stands(p) /\ Knows(proc[p])
  BY OrderStands
<1>2. CASE Goes(p, "forgetDel")
  BY <1>1, <1>2, NullAssumption DEF ForgetDelKey, Goes, Stands, ProcessState, Shape
<1> QED  BY <1>2 DEF ForgetDelKey

LEMMA ForgetDelOn ==
  ASSUME Order, NEW p \in Processes, ForgetDel(p)
  PROVE  GoesOn(p)
<1>1. Stands(p) /\ Knows(proc[p])
  BY OrderStands
<1>2. CASE Goes(p, "forgetLeave")
  BY <1>1, <1>2, NullAssumption DEF ForgetDel, Goes, Stands, ProcessState, Shape
<1> QED  BY <1>2 DEF ForgetDel

LEMMA ForgetLeaveOn ==
  ASSUME Order, NEW p \in Processes, ForgetLeave(p)
  PROVE  GoesOn(p)
<1>1. Stands(p) /\ Knows(proc[p])
  BY OrderStands
<1>2. CASE Ends(p)
  BY <1>2, <1>1, EndsOn DEF ForgetLeave
<1>3. CASE /\ proc[p].back # "idle"
           /\ proc' = [proc EXCEPT ![p].at = proc[p].back, ![p].back = "idle",
                                   ![p].other = NoToken, ![p].owner = NoChat,
                                   ![p].kept[proc[p].other] = NoLink]
  <2>1. ReadsOn(p)
    BY <1>1, <1>3, NullAssumption DEF ForgetLeave, Stands, ProcessState, Shape
  <2>2. Knows(proc'[p])
    BY <1>1, <1>3, NullAssumption DEF ForgetLeave, Stands, ProcessState, Shape
  <2>3. ClaimsOn(p) /\ SparesOn(p) /\ ServesOn(p)
    BY <1>1, <1>3, NullAssumption DEF ForgetLeave, Stands, ProcessState, Shape
  <2> QED  BY <2>1, <2>2, <2>3
<1> QED  BY <1>2, <1>3 DEF ForgetLeave

LEMMA ClaimGetOn ==
  ASSUME Order, NEW p \in Processes, ClaimGet(p)
  PROVE  GoesOn(p)
<1>1. Stands(p) /\ Knows(proc[p])
  BY OrderStands
<1>2. CASE proc' = [proc EXCEPT ![p].other = chatKey[proc[p].chat],
                                ![p].at = IF proc[p].held = NoChat /\ chatKey[proc[p].chat] = NoToken
                                          THEN "claimCount" ELSE "claimKey"]
  BY <1>1, <1>2, NullAssumption DEF ClaimGet, Stands, ProcessState, Shape, Order,
     Named, KeysNamed
<1>3. CASE Ends(p)
  BY <1>3, <1>1, EndsOn DEF ClaimGet
<1> QED  BY <1>2, <1>3 DEF ClaimGet

LEMMA ClaimCountOn ==
  ASSUME Order, NEW p \in Processes, ClaimCount(p)
  PROVE  GoesOn(p)
<1>1. Stands(p) /\ Knows(proc[p])
  BY OrderStands
<1>2. CASE Goes(p, "claimKey")
  BY <1>1, <1>2, NullAssumption DEF ClaimCount, Goes, Stands, ProcessState, Shape
<1>3. CASE Ends(p)
  BY <1>3, <1>1, EndsOn DEF ClaimCount
<1> QED  BY <1>2, <1>3 DEF ClaimCount

LEMMA ClaimKeyOn ==
  ASSUME Order, NEW p \in Processes, ClaimKey(p)
  PROVE  GoesOn(p)
<1>1. Stands(p) /\ Knows(proc[p])
  BY OrderStands
<1>2. CASE proc[p].held = NoChat /\ Goes(p, "claimWrite")
  BY <1>1, <1>2, NullAssumption DEF ClaimKey, Goes, Stands, ProcessState, Shape
<1>3. CASE proc[p].held # NoChat /\ Goes(p, "claimAdd")
  BY <1>1, <1>3, NullAssumption DEF ClaimKey, Goes, Stands, ProcessState, Shape
<1>4. CASE Ends(p)
  BY <1>4, <1>1, EndsOn DEF ClaimKey
<1> QED  BY <1>2, <1>3, <1>4 DEF ClaimKey

LEMMA ClaimAgainOn ==
  ASSUME Order, NEW p \in Processes, ClaimAgain(p)
  PROVE  GoesOn(p)
<1>1. Stands(p) /\ Knows(proc[p])
  BY OrderStands
<1>2. CASE Ends(p)
  BY <1>2, <1>1, EndsOn DEF ClaimAgain
<1> QED  BY <1>2 DEF ClaimAgain

LEMMA ToggleOn ==
  ASSUME Order, NEW p \in Processes, Toggle(p)
  PROVE  GoesOn(p)
<1>1. Stands(p) /\ Knows(proc[p])
  BY OrderStands
<1>2. CASE Ends(p)
  BY <1>2, <1>1, EndsOn DEF Toggle
<1> QED  BY <1>2 DEF Toggle

LEMMA MintOn ==
  ASSUME Order, NEW p \in Processes, Mint(p)
  PROVE  GoesOn(p)
<1>1. Stands(p) /\ Knows(proc[p])
  BY OrderStands
<1>2. CASE Ends(p)
  BY <1>2, <1>1, EndsOn DEF Mint
<1> QED  BY <1>2 DEF Mint

LEMMA FindDelKeyOn ==
  ASSUME Order, NEW p \in Processes, FindDelKey(p)
  PROVE  GoesOn(p)
<1>1. Stands(p) /\ Knows(proc[p])
  BY OrderStands
<1>2. CASE Goes(p, "findBuilt")
  BY <1>1, <1>2, NullAssumption DEF FindDelKey, Goes, Stands, ProcessState, Shape
<1> QED  BY <1>2 DEF FindDelKey

LEMMA FindBuiltOn ==
  ASSUME Order, NEW p \in Processes, FindBuilt(p)
  PROVE  GoesOn(p)
<1>1. Stands(p) /\ Knows(proc[p])
  BY OrderStands
<1>2. CASE Goes(p, "findMembers")
  BY <1>1, <1>2, NullAssumption DEF FindBuilt, Goes, Stands, ProcessState, Shape
<1>3. CASE Ends(p)
  BY <1>3, <1>1, EndsOn DEF FindBuilt
<1> QED  BY <1>2, <1>3 DEF FindBuilt

LEMMA FindMembersOn ==
  ASSUME Order, NEW p \in Processes, FindMembers(p)
  PROVE  GoesOn(p)
<1>1. Stands(p) /\ Knows(proc[p])
  BY OrderStands
<1>2. CASE proc' = [proc EXCEPT ![p].at = "findRead", ![p].todo = watches]
  BY <1>1, <1>2, NullAssumption DEF FindMembers, Stands, ProcessState, Shape
<1>3. CASE Ends(p)
  BY <1>3, <1>1, EndsOn DEF FindMembers
<1> QED  BY <1>2, <1>3 DEF FindMembers

LEMMA FindKeyOn ==
  ASSUME Order, NEW p \in Processes, FindKey(p)
  PROVE  GoesOn(p)
<1>1. Stands(p) /\ Knows(proc[p])
  BY OrderStands
<1>2. CASE Goes(p, proc[p].back)
  BY <1>1, <1>2, NullAssumption DEF FindKey, Goes, Stands, ProcessState, Shape
<1> QED  BY <1>2 DEF FindKey

LEMMA FindLinkOn ==
  ASSUME Order, NEW p \in Processes, FindLink(p)
  PROVE  GoesOn(p)
<1>1. Stands(p) /\ Knows(proc[p])
  BY OrderStands
<1>2. CASE /\ link[proc[p].token] = proc[p].chat
           /\ proc' = [proc EXCEPT ![p].at = proc[p].back,
                                   ![p].held = link[proc[p].token]]
  BY <1>1, <1>2, NullAssumption DEF FindLink, Stands, ProcessState, Shape
<1>3. CASE Goes(p, "findDelKey")
  BY <1>1, <1>3, NullAssumption DEF FindLink, Goes, Stands, ProcessState, Shape
<1>4. CASE Ends(p)
  BY <1>4, <1>1, EndsOn DEF FindLink
<1> QED  BY <1>2, <1>3, <1>4 DEF FindLink

LEMMA IndexGetOn ==
  ASSUME Order, NEW p \in Processes, IndexGet(p)
  PROVE  GoesOn(p)
<1>1. Stands(p) /\ Knows(proc[p])
  BY OrderStands
<1>2. CASE Goes(p, "indexSet")
  BY <1>1, <1>2, NullAssumption DEF IndexGet, Goes, Stands, ProcessState, Shape
<1>3. CASE /\ chatKey[proc[p].chat] \notin {NoToken, proc[p].token}
           /\ proc' = [proc EXCEPT ![p].at = "indexOther",
                                   ![p].other = chatKey[proc[p].chat]]
  BY <1>1, <1>3, NullAssumption DEF IndexGet, Stands, ProcessState, Shape, Order,
     Named, KeysNamed
<1>4. CASE IndexEnds(p)
  BY <1>4, <1>1, IndexEndsOn DEF IndexGet
<1> QED  BY <1>2, <1>3, <1>4 DEF IndexGet

LEMMA IndexSetOn ==
  ASSUME Order, NEW p \in Processes, IndexSet(p)
  PROVE  GoesOn(p)
<1>1. Stands(p) /\ Knows(proc[p])
  BY OrderStands
<1>2. CASE IndexEnds(p)
  BY <1>2, <1>1, IndexEndsOn DEF IndexSet
<1> QED  BY <1>2 DEF IndexSet

LEMMA PassStartOn ==
  ASSUME Order, NEW p \in Processes, PassStart(p)
  PROVE  GoesOn(p)
<1>1. Stands(p) /\ Knows(proc[p])
  BY OrderStands
<1>2. CASE Goes(p, "passMembers")
  BY <1>1, <1>2, NullAssumption DEF PassStart, Goes, Idle, Stands, ProcessState, Shape
<1>3. CASE Goes(p, "buildMembers")
  BY <1>1, <1>3, NullAssumption DEF PassStart, Goes, Idle, Stands, ProcessState, Shape
<1> QED  BY <1>2, <1>3 DEF PassStart

LEMMA BuildMembersOn ==
  ASSUME Order, NEW p \in Processes, BuildMembers(p)
  PROVE  GoesOn(p)
<1>1. Stands(p) /\ Knows(proc[p])
  BY OrderStands
<1>2. CASE proc' = [proc EXCEPT ![p].at = "build", ![p].todo = watches]
  BY <1>1, <1>2, NullAssumption DEF BuildMembers, Stands, ProcessState, Shape
<1>3. CASE Goes(p, "passMembers")
  BY <1>1, <1>3, NullAssumption DEF BuildMembers, Goes, Stands, ProcessState, Shape
<1> QED  BY <1>2, <1>3 DEF BuildMembers

LEMMA BuildReadOn ==
  ASSUME Order, NEW p \in Processes, NEW t \in Tokens, BuildRead(p, t)
  PROVE  GoesOn(p)
<1>1. Stands(p) /\ Knows(proc[p])
  BY OrderStands
<1>2. CASE /\ Claimed(t)
           /\ proc' = [proc EXCEPT ![p].at = "indexGet", ![p].token = t,
                                   ![p].chat = link[t], ![p].back = "build",
                                   ![p].todo = @ \ {t}]
  BY <1>1, <1>2, NullAssumption DEF BuildRead, Indexes, Claimed, Stands, ProcessState,
     Shape, Order, Named, LinksNamed
<1>3. CASE /\ ~Claimed(t)
           /\ proc' = [proc EXCEPT ![p].at = "buildDrop", ![p].todo = @ \ {t},
                                   ![p].other = t]
  BY <1>1, <1>3, NullAssumption DEF BuildRead, Indexes, Claimed, Stands, ProcessState,
     Shape
<1>4. CASE proc' = [proc EXCEPT ![p].todo = @ \ {t}, ![p].whole = FALSE]
  BY <1>1, <1>4, NullAssumption DEF BuildRead, Indexes, Claimed, Stands, ProcessState,
     Shape
<1> QED  BY <1>2, <1>3, <1>4 DEF BuildRead, Indexes, Claimed

LEMMA BuildMarkOn ==
  ASSUME Order, NEW p \in Processes, BuildMark(p)
  PROVE  GoesOn(p)
<1>1. Stands(p) /\ Knows(proc[p])
  BY OrderStands
<1>2. CASE proc' = [proc EXCEPT ![p].at = "passMembers", ![p].whole = TRUE]
  BY <1>1, <1>2, NullAssumption DEF BuildMark, Stands, ProcessState, Shape
<1> QED  BY <1>2 DEF BuildMark

LEMMA PassAllReadOn ==
  ASSUME Order, NEW p \in Processes, PassAllRead(p)
  PROVE  GoesOn(p)
<1>1. Stands(p) /\ Knows(proc[p])
  BY OrderStands
<1>2. CASE proc' = [proc EXCEPT ![p].at = "passIndex",
                                ![p].todo = {t \in Tokens : proc[p].kept[t] # NoLink}]
  BY <1>1, <1>2, NullAssumption DEF PassAllRead, Stands, ProcessState, Shape
<1> QED  BY <1>2 DEF PassAllRead

LEMMA PassIndexOn ==
  ASSUME Order, NEW p \in Processes, NEW t \in Tokens, PassIndex(p, t)
  PROVE  GoesOn(p)
<1>1. Stands(p) /\ Knows(proc[p])
  BY OrderStands
<1>2. CASE proc' = [proc EXCEPT ![p].todo = @ \ {t}]
  BY <1>1, <1>2, NullAssumption DEF PassIndex, Indexes, Stands, ProcessState, Shape
<1>3. CASE /\ proc[p].kept[t] # NoLink
           /\ proc' = [proc EXCEPT ![p].at = "indexGet", ![p].token = t,
                                   ![p].chat = proc[p].kept[t],
                                   ![p].back = "passIndex", ![p].todo = @ \ {t}]
  BY <1>1, <1>3, NullAssumption DEF PassIndex, Indexes, Stands, ProcessState, Shape
<1> QED  BY <1>2, <1>3 DEF PassIndex, Indexes

LEMMA PassIndexedOn ==
  ASSUME Order, NEW p \in Processes, PassIndexed(p)
  PROVE  GoesOn(p)
<1>1. Stands(p) /\ Knows(proc[p])
  BY OrderStands
<1>2. CASE Goes(p, "tell")
  BY <1>1, <1>2, NullAssumption DEF PassIndexed, Goes, Stands, ProcessState, Shape
<1> QED  BY <1>2 DEF PassIndexed

LEMMA FollowOn ==
  ASSUME Order, NEW p \in Processes, NEW t \in Tokens, Follow(p, t)
  PROVE  GoesOn(p)
<1>1. Stands(p) /\ Knows(proc[p])
  BY OrderStands
<1>2. CASE proc' = [proc EXCEPT ![p].at = "digest", ![p].token = t,
                                ![p].chat = proc[p].kept[t], ![p].kept[t] = NoLink]
  BY <1>1, <1>2, NullAssumption DEF Follow, Stands, ProcessState, Shape
<1>3. CASE proc' = [proc EXCEPT ![p].at = "positions", ![p].token = t,
                                ![p].chat = proc[p].kept[t], ![p].kept[t] = NoLink]
  BY <1>1, <1>3, NullAssumption DEF Follow, Stands, ProcessState, Shape
<1> QED  BY <1>2, <1>3 DEF Follow

LEMMA DigestOn ==
  ASSUME Order, NEW p \in Processes, Digest(p)
  PROVE  GoesOn(p)
<1>1. Stands(p) /\ Knows(proc[p])
  BY OrderStands
<1>2. CASE Goes(p, "positions")
  BY <1>1, <1>2, NullAssumption DEF Digest, Goes, Stands, ProcessState, Shape
<1> QED  BY <1>2 DEF Digest

LEMMA PositionsOn ==
  ASSUME Order, NEW p \in Processes, Positions(p)
  PROVE  GoesOn(p)
<1>1. Stands(p) /\ Knows(proc[p])
  BY OrderStands
<1>2. CASE Goes(p, "snapshot")
  BY <1>1, <1>2, NullAssumption DEF Positions, Goes, Stands, ProcessState, Shape
<1>3. CASE proc' = [proc EXCEPT ![p].at = "tell", ![p].token = NoToken,
                                ![p].chat = NoChat]
  BY <1>1, <1>3, NullAssumption DEF Positions, Stands, ProcessState, Shape
<1> QED  BY <1>2, <1>3 DEF Positions

LEMMA SnapshotOn ==
  ASSUME Order, NEW p \in Processes, Snapshot(p)
  PROVE  GoesOn(p)
<1>1. Stands(p) /\ Knows(proc[p])
  BY OrderStands
<1>2. CASE proc' = [proc EXCEPT ![p].at = "tell", ![p].token = NoToken,
                                ![p].chat = NoChat]
  BY <1>1, <1>2, NullAssumption DEF Snapshot, Stands, ProcessState, Shape
<1> QED  BY <1>2 DEF Snapshot

LEMMA PassEndsOn ==
  ASSUME Order, NEW p \in Processes, PassEnds(p)
  PROVE  GoesOn(p)
<1>1. Stands(p) /\ Knows(proc[p])
  BY OrderStands
<1>2. CASE Ends(p)
  BY <1>2, <1>1, EndsOn DEF PassEnds
<1> QED  BY <1>2 DEF PassEnds

LEMMA WalkReadOn ==
  ASSUME Order, NEW p \in Processes, NEW t \in Tokens, NEW drop \in {"findDrop", "passDrop"},
         proc[p].at \in {"findRead", "passRead"},
            proc[p].at = "findRead" <=> drop = "findDrop",
         WalkRead(p, t, drop)
  PROVE  GoesOn(p)
<1>1. Stands(p) /\ Knows(proc[p]) /\ t \in proc[p].todo
  BY OrderStands DEF WalkRead
<1>2. CASE Claimed(t) /\ proc' = [proc EXCEPT ![p].todo = @ \ {t}, ![p].kept[t] = link[t]]
  BY <1>1, <1>2, NullAssumption DEF Stands, ProcessState, Shape, Order, Named,
     LinksNamed, Claimed
<1>3. CASE ~Claimed(t) /\ proc' = [proc EXCEPT ![p].at = drop, ![p].todo = @ \ {t}, ![p].other = t]
  BY <1>1, <1>3, NullAssumption DEF Stands, ProcessState, Shape
<1>4. CASE proc' = [proc EXCEPT ![p].todo = @ \ {t}]
  BY <1>1, <1>4, NullAssumption DEF Stands, ProcessState, Shape
<1> QED  BY <1>2, <1>3, <1>4 DEF WalkRead

LEMMA WalkDropOn ==
  ASSUME Order, NEW p \in Processes, NEW next \in {"findRead", "passRead", "build"},
         proc[p].at \in {"findDrop", "passDrop", "buildDrop"},
         proc[p].at = "findDrop" <=> next = "findRead", WalkDrop(p, next)
  PROVE  GoesOn(p)
<1>1. /\ Stands(p) /\ Knows(proc[p])
      /\ proc' = [proc EXCEPT ![p].at = next, ![p].other = NoToken]
  BY OrderStands DEF WalkDrop
<1> QED
  BY <1>1, NullAssumption DEF Stands, ProcessState, Shape

LEMMA FindEndsOn ==
  ASSUME Order, NEW p \in Processes, FindEnds(p)
  PROVE  GoesOn(p)
<1>1. Stands(p) /\ Knows(proc[p]) /\ proc[p].at = "findRead" /\ proc[p].chat \in Chats
  BY OrderStands DEF FindEnds, Knows, FindSteps
<1>2. CASE Ends(p)
  BY <1>1, <1>2, EndsOn
<1>3. ASSUME NEW t \in Tokens, proc[p].kept[t] = proc[p].chat,
             proc' = [proc EXCEPT ![p].at = "findKey", ![p].token = t,
                                  ![p].held = proc[p].kept[t], ![p].kept = Nothing]
      PROVE  GoesOn(p)
  <2>1. <<t, proc[p].chat>> \in presented /\ Remembers(proc[p], t, proc[p].chat)
    BY <1>1, <1>3, NullAssumption DEF Knows, Remembers
  <2> QED
    BY <1>1, <1>3, <2>1, NullAssumption DEF Nothing, Stands, ProcessState, Shape
<1> QED  BY <1>1, <1>2, <1>3 DEF FindEnds

LEMMA PassMembersOn ==
  ASSUME Order, NEW p \in Processes, PassMembers(p)
  PROVE  GoesOn(p)
<1>1. Stands(p) /\ Knows(proc[p])
  BY OrderStands
<1>2. CASE Ends(p)
  BY <1>2, EndsOn DEF PassMembers
<1>3. ASSUME NEW some \in SUBSET watches,
             proc' = [proc EXCEPT ![p].at = "passRead", ![p].todo = some]
      PROVE  GoesOn(p)
  <2>1. ReadsOn(p)
    BY <1>1, <1>3, NullAssumption DEF PassMembers, Stands, ProcessState, Shape
  <2>2. Knows(proc'[p])
    BY <1>1, <1>3, NullAssumption DEF PassMembers, Stands, ProcessState, Shape
  <2>3. ClaimsOn(p) /\ SparesOn(p) /\ ServesOn(p)
    BY <1>1, <1>3, NullAssumption DEF PassMembers, Stands, ProcessState, Shape
  <2> QED  BY <2>1, <2>2, <2>3
<1> QED  BY <1>1, <1>2, <1>3 DEF PassMembers

\* Of two links of one chat the one minted later stays: what is let go is outdone.
LEMMA IndexOtherOn ==
  ASSUME Order, NEW p \in Processes, IndexOther(p)
  PROVE  GoesOn(p)
<1> DEFINE t == proc[p].token  other == proc[p].other  c == proc[p].chat
<1>1. /\ Stands(p) /\ Knows(proc[p]) /\ proc[p].at = "indexOther"
      /\ t \in Tokens /\ other \in Tokens /\ c \in Chats /\ other # t
      /\ <<t, c>> \in presented /\ <<other, c>> \in presented
  BY OrderStands DEF IndexOther, Stands, Shape, Knows, IndexSteps, RememberSteps,
     SetAgainst
<1>2. CASE proc' = [proc EXCEPT ![p].at = "indexSet", ![p].other = NoToken]
  BY <1>1, <1>2, NullAssumption DEF Stands, ProcessState, Shape
<1>3. CASE IndexEnds(p)
  BY <1>1, <1>3, IndexEndsOn DEF IndexSteps
<1>4. CASE /\ link[other] = c /\ LaterMinted(other, t)
           /\ proc' = [proc EXCEPT ![p].at = "forgetRead", ![p].other = t,
                                   ![p].token = NoToken, ![p].chat = NoChat]
  <2>1. Outdone(t)
    BY <1>1, <1>4 DEF Outdone, Mine, LaterMinted
  <2>2. \A d \in Chats \ crossed' : <<t, d>> \in presented => d = c
    BY <1>1 DEF Order, Alone, IndexOther, history
  <2>3. ServesOn(p)
    BY <1>1, <1>4, <2>2, NullAssumption DEF ServesOn, Busy, Stands, ProcessState
  <2> HIDE DEF c
  <2>4. Knows(proc'[p]) /\ ReadsOn(p) /\ ClaimsOn(p)
    BY <1>1, <1>4, NullAssumption DEF Stands, ProcessState, Shape
  <2>5. SparesOn(p)
    BY <1>1, <1>4, <2>1 DEF SparesOn, Lets, LeaveSteps, ForgetSteps, Stands,
       ProcessState
  <2> QED  BY <2>3, <2>4, <2>5 DEF GoesOn
<1>5. CASE link[other] = c /\ ~LaterMinted(other, t) /\ Goes(p, "indexTake")
  <2>1. t > other
    <3>1. t \in Nat /\ other \in Nat /\ other # t
      BY <1>1, TokensAssumption
    <3>2. ~(other > t)
      BY <1>5 DEF LaterMinted
    <3> QED  BY <3>1, <3>2
  <2>2. Mine(t, c)
    BY <1>1 DEF Mine, Remembers, RememberSteps, IndexSteps
  <2>3. Outdone(other)
    BY <1>1, <2>1, <2>2 DEF Outdone
  <2>4. SparesOn(p)
    BY <1>1, <1>5, <2>3 DEF Goes, SparesOn, Lets, LeaveSteps, ForgetSteps, Stands,
       ProcessState
  <2>5. Knows(proc'[p]) /\ ReadsOn(p) /\ ClaimsOn(p) /\ ServesOn(p)
    BY <1>1, <1>5, NullAssumption DEF Goes, Stands, ProcessState, Shape
  <2> QED  BY <2>4, <2>5 DEF GoesOn
<1> QED  BY <1>2, <1>3, <1>4, <1>5 DEF IndexOther

LEMMA IndexTakeOn ==
  ASSUME Order, NEW p \in Processes, IndexTake(p)
  PROVE  GoesOn(p)
<1>1. /\ Stands(p) /\ Knows(proc[p]) /\ proc[p].at = "indexTake"
      /\ proc[p].other \in Tokens /\ proc[p].chat \in Chats
      /\ <<proc[p].other, proc[p].chat>> \in presented
      /\ proc' = [proc EXCEPT ![p].at = "forgetRead", ![p].token = NoToken, ![p].chat = NoChat]
  BY OrderStands DEF IndexTake, Stands, Shape, Knows, IndexSteps, RememberSteps,
     SetAgainst
<1>2. \A d \in Chats \ crossed' : <<proc[p].other, d>> \in presented => d = proc[p].chat
  BY <1>1 DEF Order, Alone, IndexTake, history
<1>3. ServesOn(p)
  BY <1>1, <1>2, NullAssumption DEF ServesOn, Busy, Stands, ProcessState
<1>4. Knows(proc'[p]) /\ ReadsOn(p) /\ ClaimsOn(p) /\ SparesOn(p)
  BY <1>1, NullAssumption DEF Stands, ProcessState, Shape
<1> QED  BY <1>3, <1>4 DEF GoesOn

\* A request that asks to let a link go: its chat is not followed from here, and
\* crossed if another request is about it.
LEMMA UndoneIsUnwanted ==
  ASSUME Order, NEW t \in Tokens, Undone(t)
  PROVE  /\ Unwanted(t)
         /\ \A c \in Chats \ crossed' : <<t, c>> \in presented =>
              \A h \in Handlers : ~Busy(proc[h], c)
<1>1. \A c \in Chats \ crossed' : <<t, c>> \in presented => c \notin Served /\ c \notin followed'
  BY DEF Undone, Presenters
<1>2. \A c \in Chats, h \in Handlers : Busy(proc[h], c) => c \in Served
  BY DEF Served, Serving, Busy, ForgetSteps
<1>3. \A c \in Chats, h \in Handlers :
        proc[h].at \in AddSteps /\ proc[h].chat = c => Busy(proc[h], c)
  BY DEF Busy, AddSteps
<1> QED  BY <1>1, <1>2, <1>3 DEF Unwanted

LEMMA ConnectOn ==
  ASSUME Order, NEW p \in Processes, NEW b \in Browsers, Connect(p, b)
  PROVE  GoesOn(p)
<1>1. Stands(p) /\ Knows(proc[p]) /\ proc[p].at = "idle" /\ proc[p] = Idle
  BY OrderStands DEF Connect, Knows
<1>2. CASE /\ cookie[b] \in Tokens /\ Undone(cookie[b])
           /\ proc' = [proc EXCEPT ![p].at = "forgetRead", ![p].back = "mint",
                                   ![p].other = cookie[b], ![p].browser = b]
  <2>1. /\ Unwanted(cookie[b])
        /\ \A c \in Chats \ crossed' : <<cookie[b], c>> \in presented =>
             \A h \in Handlers : ~Busy(proc[h], c)
    BY <1>2, UndoneIsUnwanted
  <2>2. Knows(proc'[p]) /\ ReadsOn(p) /\ ClaimsOn(p)
    BY <1>1, <1>2, NullAssumption DEF Idle, Nothing, Stands, ProcessState, Shape
  <2>3. SparesOn(p)
    BY <1>1, <1>2, <2>1 DEF SparesOn, Lets, LeaveSteps, ForgetSteps, Stands,
       ProcessState
  <2>4. ServesOn(p)
    BY <1>1, <1>2, <2>1, NullAssumption DEF ServesOn, Busy, Idle, Stands, ProcessState
  <2> QED  BY <2>2, <2>3, <2>4 DEF GoesOn
<1>3. CASE proc' = [proc EXCEPT ![p].at = "mint", ![p].browser = b]
  BY <1>1, <1>3, NullAssumption DEF Idle, Nothing, Stands, ProcessState, Shape
<1> QED  BY <1>2, <1>3 DEF Connect, MintsFor

LEMMA DisconnectOn ==
  ASSUME Order, NEW p \in Processes, NEW b \in Browsers, Disconnect(p, b)
  PROVE  GoesOn(p)
<1>1. /\ Stands(p) /\ Knows(proc[p]) /\ proc[p].at = "idle" /\ proc[p] = Idle
      /\ cookie[b] \in Tokens
      /\ proc' = [proc EXCEPT ![p].at = "forgetRead", ![p].other = cookie[b], ![p].back = "idle"]
  BY OrderStands DEF Disconnect, Forgets, Knows
<1>2. /\ Unwanted(cookie[b])
      /\ \A c \in Chats \ crossed' : <<cookie[b], c>> \in presented =>
           \A h \in Handlers : ~Busy(proc[h], c)
  BY <1>1, UndoneIsUnwanted DEF Disconnect
<1>3. Knows(proc'[p]) /\ ReadsOn(p) /\ ClaimsOn(p)
  BY <1>1, NullAssumption DEF Idle, Nothing, Stands, ProcessState, Shape
<1>4. SparesOn(p)
  BY <1>1, <1>2 DEF SparesOn, Lets, LeaveSteps, ForgetSteps, Stands, ProcessState
<1>5. ServesOn(p)
  BY <1>1, <1>2, NullAssumption DEF ServesOn, Busy, Idle, Stands, ProcessState
<1> QED  BY <1>3, <1>4, <1>5 DEF GoesOn

LEMMA CommandOn ==
  ASSUME Order, NEW p \in Processes, NEW c \in Chats, NEW what \in Commands, Command(p, c, what)
  PROVE  GoesOn(p)
<1>1. /\ Stands(p) /\ Knows(proc[p]) /\ proc[p].at = "idle" /\ proc[p] = Idle
      /\ chatKey[c] # NoToken => <<chatKey[c], c>> \in presented
  BY OrderStands DEF Command, Knows, Order, Named, KeysNamed
<1>2. proc' = [proc EXCEPT ![p].at = IF chatKey[c] = NoToken THEN "findBuilt" ELSE "findLink",
                           ![p].chat = c, ![p].token = chatKey[c], ![p].back = what]
  BY DEF Command
<1>3. Knows(proc'[p]) /\ ReadsOn(p) /\ ClaimsOn(p) /\ SparesOn(p)
  BY <1>1, <1>2, NullAssumption DEF Idle, Nothing, Stands, ProcessState, Shape
<1>4. ServesOn(p)
  <2>1. \A d \in Chats : Busy(proc'[p], d) => d = c
    BY <1>1, <1>2 DEF Busy, ForgetSteps, Stands, ProcessState
  <2>2. c \in crossed' \/ \A h \in Handlers : ~Busy(proc[h], c)
    BY DEF Command, Served, Serving, Busy, ForgetSteps
  <2> QED  BY <2>1, <2>2 DEF ServesOn
<1> QED  BY <1>3, <1>4 DEF GoesOn

LEMMA StopOn ==
  ASSUME Order, NEW p \in Handlers, Stop(p)
  PROVE  GoesOn(p)
<1> DEFINE t == proc[p].token
<1>1. /\ Stands(p) /\ Knows(proc[p]) /\ p \in Processes /\ proc[p].at = "stop"
      /\ t \in Tokens /\ proc[p].chat \in Chats /\ <<t, proc[p].chat>> \in presented
  BY OrderStands DEF Stop, Processes, Knows, RememberSteps
<1>2. CASE Ends(p)
  BY <1>1, <1>2, EndsOn
<1>3. CASE /\ followed' = followed \ {proc[p].chat}
           /\ proc' = [proc EXCEPT ![p].at = "forgetRead", ![p].other = t, ![p].back = "idle"]
  <2>1. \A c \in Chats \ crossed' : <<t, c>> \in presented => c = proc[p].chat
    BY <1>1 DEF Stop, Order, Alone
  <2>2. ASSUME NEW h \in Handlers, proc[p].chat \notin crossed', proc[h].at \in AddSteps,
               proc[h].chat = proc[p].chat
        PROVE  FALSE
    <3>1. Busy(proc[h], proc[p].chat) /\ Busy(proc[p], proc[p].chat)
      BY <1>1, <2>2 DEF Busy, AddSteps
    <3>2. h = p
      BY <1>1, <2>2, <3>1 DEF Stop, Order, Single
    <3> QED  BY <1>1, <2>2, <3>2 DEF AddSteps
  <2>3. Unwanted(t)
    BY <1>3, <2>1, <2>2 DEF Unwanted
  <2>4. SparesOn(p)
    BY <1>1, <1>3, <2>3 DEF SparesOn, Lets, LeaveSteps, ForgetSteps, Stands,
       ProcessState
  <2>5. ServesOn(p)
    BY <1>1, <1>3, <2>1 DEF ServesOn, Busy, Stands, ProcessState
  <2>6. Knows(proc'[p]) /\ ReadsOn(p) /\ ClaimsOn(p)
    BY <1>1, <1>3, NullAssumption DEF Stands, ProcessState, Shape
  <2> QED  BY <2>4, <2>5, <2>6 DEF GoesOn
<1> QED  BY <1>2, <1>3 DEF Stop, Forgets

HIDE DEF GoesOn, Knows, ReadsOn, Remembers, ClaimsOn, SparesOn, Lets, ServesOn, Busy,
         AddSteps, ForgetSteps, FindSteps, IndexSteps, AfterForget, Commands,
         LeaveSteps, RememberSteps, SetAgainst

-----------------------------------------------------------------------------
(***************************************************************************)
(* What each action does to the store.                                     *)
(***************************************************************************)
LEMMA CalmBefore ==
  ASSUME Order,
         UNCHANGED spent \/ Request \/ RequestUnread \/ \E r \in Replies : CountFault(r)
  PROVE  Calm' => Calm
<1>1. spent \in [requests : Nat, faults : Nat, crashes : Nat]
  BY DEF Order, Typed, TypeOK
<1>2. ASSUME RequestUnread  PROVE spent'.faults = spent.faults + 1
  BY <1>1, <1>2 DEF RequestUnread
<1> QED  BY <1>1, <1>2 DEF Calm, CountFault, Request

LEMMA ReadsOnly ==
  ASSUME Order, NEW p \in Processes, UNCHANGED <<link, chatKey, watches, minted, presented>>,
         followed' \subseteq followed, crossed \subseteq crossed', Calm' => Calm
  PROVE  StoreGoesOn(p)
BY DEF StoreGoesOn, LinkGoesOn, Order, Named, KeysNamed

\* A chat's key is set to a token it presented, or deleted.
LEMMA KeyWritten ==
  ASSUME Order, NEW p \in Processes, NEW c, NEW t,
         c \in Chats => t = NoToken \/ <<t, c>> \in presented,
         \E r \in Replies : CountFault(r) /\ SetKey(r, c, t),
         UNCHANGED <<link, watches, minted, presented, crossed>>, followed' \subseteq followed
  PROVE  StoreGoesOn(p)
<1>1. Calm' => Calm
  BY CalmBefore
<1>2. KeysNamed'
  BY DEF SetKey, KeysNamed, Order, Named, Typed, TypeOK
<1> QED  BY <1>1, <1>2 DEF StoreGoesOn, LinkGoesOn

\* A record is written as its chat's, or what is let go is deleted.
LEMMA RecordWritten ==
  ASSUME Order, NEW p \in Processes, NEW t, NEW whose,
         \/ t \in Tokens => whose \in Chats /\ Mine(t, whose)
         \/ whose = NoLink /\ Lets(proc[p], t),
         \E r \in Replies : CountFault(r) /\ WriteLink(r, t, whose),
         UNCHANGED <<chatKey, watches, minted, presented, followed, crossed>>
  PROVE  StoreGoesOn(p)
<1>1. Calm' => Calm
  BY CalmBefore
<1>2. link' = [link EXCEPT ![t] = whose] \/ link' = link
  BY DEF WriteLink
<1>3. ASSUME NEW u \in Tokens  PROVE LinkGoesOn(p, u)
  <2>1. CASE u = t
    BY <1>2, <2>1 DEF LinkGoesOn, Order, Typed, TypeOK
  <2>2. CASE u # t
    BY <1>2, <2>2 DEF LinkGoesOn, Order, Typed, TypeOK
  <2> QED  BY <2>1, <2>2
<1> QED  BY <1>1, <1>3 DEF StoreGoesOn, Order, Named, KeysNamed

\* What is let go leaves the set.
LEMMA SetLeft ==
  ASSUME Order, NEW p \in Processes, proc[p].at \in LeaveSteps,
         \E r \in Replies : CountFault(r) /\ Leave(r, proc[p].other),
         UNCHANGED <<link, chatKey, minted, presented, followed, crossed>>
  PROVE  StoreGoesOn(p)
<1>1. Calm' => Calm
  BY CalmBefore
<1> QED
  BY <1>1 DEF Leave, Lets, StoreGoesOn, LinkGoesOn, Order, Named, KeysNamed

LEMMA MintStore ==
  ASSUME Order, NEW p \in Processes, Mint(p)
  PROVE  StoreGoesOn(p)
<1>1. PICK t \in Tokens \ minted, r \in Replies :
        minted' = minted \cup {t} /\ CountFault(r) /\ WriteLink(r, t, NoChat)
  BY DEF Mint
<1>2. \A u \in Tokens : LinkGoesOn(p, u)
  BY <1>1 DEF LinkGoesOn, WriteLink, Order, Typed, TypeOK
<1>3. Calm' => Calm
  BY <1>1, CalmBefore
<1> QED
  BY <1>1, <1>2, <1>3 DEF Mint, history, StoreGoesOn, Order, Named, KeysNamed

-----------------------------------------------------------------------------
(***************************************************************************)
(* The actions that go on.                                                 *)
(***************************************************************************)
LEMMA ReadAnswered ==
  ASSUME Order, NEW p \in Processes, UNCHANGED <<stored, site, history>>,
         UNCHANGED spent \/ Request \/ CountFault("lost")
  PROVE  StoreGoesOn(p)
BY CalmBefore, ReadsOnly DEF stored, site, history, Replies

LEMMA ForgetGoesOn ==
  ASSUME Order, NEW p \in Processes, Forget(p)
  PROVE  Moves(p) /\ GoesOn(p) /\ StoreGoesOn(p)
<1>0. Typed
  BY DEF Order
<1>1. CASE ForgetRead(p)
  BY <1>0, <1>1, ForgetReadMoves, ForgetReadOn, ReadAnswered DEF ForgetRead
<1>2. CASE ForgetKey(p)
  BY <1>0, <1>2, ForgetKeyMoves, ForgetKeyOn, ReadAnswered DEF ForgetKey
<1>3. CASE ForgetDelKey(p)
  BY <1>0, <1>3, ForgetDelKeyMoves, ForgetDelKeyOn, KeyWritten DEF ForgetDelKey, site,
     history
<1>4. CASE ForgetDel(p)
  <2>1. Lets(proc[p], proc[p].other)
    BY <1>4 DEF ForgetDel, Lets, LeaveSteps, ForgetSteps
  <2> QED  BY <1>0, <1>4, <2>1, ForgetDelMoves, ForgetDelOn,
     RecordWritten DEF ForgetDel, site
<1>5. CASE ForgetLeave(p)
  <2>1. proc[p].at \in LeaveSteps /\ \E r \in Replies : CountFault(r) /\ Leave(r, proc[p].other)
    BY <1>5 DEF ForgetLeave, LeaveSteps, ForgetSteps
  <2> QED  BY <1>0, <1>5, <2>1, ForgetLeaveMoves, ForgetLeaveOn,
     SetLeft DEF ForgetLeave, site
<1> QED  BY <1>1, <1>2, <1>3, <1>4, <1>5 DEF Forget

LEMMA ServeGoesOn ==
  ASSUME Order, NEW h \in Handlers, Serve(h), ~ClaimWrite(h), ~ClaimAdd(h)
  PROVE  Moves(h) /\ GoesOn(h) /\ StoreGoesOn(h)
<1>1. h \in Processes /\ Typed /\ Stands(h) /\ Knows(proc[h])
  BY OrderStands DEF Processes, Order
<1>2. CASE Forget(h)
  BY <1>1, <1>2, ForgetGoesOn
<1>3. CASE Mint(h)
  BY <1>1, <1>3, MintMoves, MintOn, MintStore
<1>4. CASE ClaimGet(h)
  BY <1>1, <1>4, ClaimGetMoves, ClaimGetOn, ReadAnswered DEF ClaimGet
<1>5. CASE ClaimCount(h)
  BY <1>1, <1>5, ClaimCountMoves, ClaimCountOn, ReadAnswered DEF ClaimCount
<1>6. CASE ClaimKey(h)
  <2>1. <<proc[h].token, proc[h].chat>> \in presented
    BY <1>1, <1>6 DEF ClaimKey, Stands, Shape, Knows, AddSteps
  <2>2. \E r \in Replies : CountFault(r) /\ SetKey(r, proc[h].chat, proc[h].token)
    BY <1>6 DEF ClaimKey
  <2> QED  BY <1>1, <1>6, <2>1, <2>2, ClaimKeyMoves, ClaimKeyOn,
     KeyWritten DEF ClaimKey, site, history
<1>7. CASE ClaimAgain(h)
  <2>1. proc[h].chat \in Chats =>
          proc[h].token = NoToken \/ <<proc[h].token, proc[h].chat>> \in presented
    BY <1>1 DEF Stands, ProcessState, Knows
  <2> QED  BY <1>1, <1>7, <2>1, ClaimAgainMoves, ClaimAgainOn,
     KeyWritten DEF ClaimAgain, site, history
<1>8. CASE FindLink(h)
  BY <1>1, <1>8, FindLinkMoves, FindLinkOn, ReadAnswered DEF FindLink
<1>9. CASE FindDelKey(h)
  BY <1>1, <1>9, FindDelKeyMoves, FindDelKeyOn, KeyWritten DEF FindDelKey, site, history
<1>10. CASE FindBuilt(h)
  BY <1>1, <1>10, FindBuiltMoves, FindBuiltOn, ReadAnswered DEF FindBuilt
<1>11. CASE FindMembers(h)
  BY <1>1, <1>11, FindMembersMoves, FindMembersOn, ReadAnswered DEF FindMembers
<1>12. ASSUME NEW t \in Tokens, FindRead(h, t)  PROVE Moves(h) /\ GoesOn(h) /\ StoreGoesOn(h)
  BY <1>1, <1>12, WalkReadMoves, WalkReadOn, ReadAnswered DEF FindRead, WalkRead
<1>13. CASE FindDrop(h)
  <2>1. proc[h].at \in LeaveSteps
    BY <1>13 DEF FindDrop, LeaveSteps
  <2> QED
    BY <1>1, <1>13, <2>1, WalkDropMoves, WalkDropOn, SetLeft DEF FindDrop, WalkDrop,
       site, history
<1>14. CASE FindEnds(h)
  BY <1>1, <1>14, FindEndsMoves, FindEndsOn, ReadAnswered DEF FindEnds
<1>15. CASE FindKey(h)
  <2>1. <<proc[h].token, proc[h].chat>> \in presented
    BY <1>1, <1>15 DEF FindKey, Knows, RememberSteps
  <2> QED  BY <1>1, <1>15, <2>1, FindKeyMoves, FindKeyOn, KeyWritten DEF FindKey, site,
     history
<1>16. CASE Stop(h)
  <2>1. StoreGoesOn(h)
    <3>1. CASE \E r \in Replies : CountFault(r) /\ SetKey(r, proc[h].chat, NoToken)
      BY <1>1, <1>16, <3>1, KeyWritten DEF Stop, site
    <3>2. CASE CountFault("lost") /\ UNCHANGED <<chatKey, followed>>
      BY <1>1, <1>16, <3>2, CalmBefore, ReadsOnly DEF Stop, site, Replies
    <3> QED  BY <1>16, <3>1, <3>2 DEF Stop
  <2> QED  BY <1>1, <1>16, <2>1, StopMoves, StopOn
<1>17. CASE Toggle(h)
  <2>1. proc[h].held \in Chats /\ Mine(proc[h].token, proc[h].held)
    BY <1>1, <1>17 DEF Toggle, Knows, Mine, Remembers, RememberSteps
  <2> QED  BY <1>1, <1>17, <2>1, ToggleMoves, ToggleOn, RecordWritten DEF Toggle, site,
     history
<1> QED
  BY <1>2, <1>3, <1>4, <1>5, <1>6, <1>7, <1>8, <1>9, <1>10, <1>11, <1>12, <1>13,
     <1>14, <1>15, <1>16, <1>17 DEF Serve

LEMMA AskGoesOn ==
  ASSUME Order, NEW h \in Handlers,
         \/ \E b \in Browsers : Connect(h, b) \/ Disconnect(h, b)
         \/ \E c \in Chats, what \in Commands : Command(h, c, what)
  PROVE  Moves(h) /\ GoesOn(h) /\ StoreGoesOn(h)
<1>1. h \in Processes /\ Typed
  BY DEF Processes, Order
<1>2. ASSUME NEW b \in Browsers, Connect(h, b)  PROVE Moves(h) /\ GoesOn(h) /\ StoreGoesOn(h)
  <2>1. followed' \subseteq followed /\ crossed \subseteq crossed'
    BY <1>2 DEF Connect, MintsFor, Undone
  <2> QED
    BY <1>1, <1>2, <2>1, ConnectMoves, ConnectOn, CalmBefore, ReadsOnly DEF Connect,
       MintsFor, stored, site
<1>3. ASSUME NEW b \in Browsers, Disconnect(h, b)  PROVE Moves(h) /\ GoesOn(h) /\ StoreGoesOn(h)
  <2>1. followed' \subseteq followed /\ crossed \subseteq crossed'
    BY <1>3 DEF Disconnect, Undone
  <2> QED
    BY <1>1, <1>3, <2>1, DisconnectMoves, DisconnectOn, CalmBefore,
       ReadsOnly DEF Disconnect, stored
<1>4. ASSUME NEW c \in Chats, NEW what \in Commands, Command(h, c, what)
      PROVE  Moves(h) /\ GoesOn(h) /\ StoreGoesOn(h)
  <2>1. followed' \subseteq followed /\ crossed \subseteq crossed'
    BY <1>4 DEF Command
  <2> QED
    BY <1>1, <1>4, <2>1, CommandMoves, CommandOn, CalmBefore, ReadsOnly DEF Command,
       stored, site
<1> QED  BY <1>2, <1>3, <1>4

LEMMA WalkGoesOn ==
  ASSUME Order, NEW p \in Processes, Walk(p) \/ PassStart(p)
  PROVE  Moves(p) /\ GoesOn(p) /\ StoreGoesOn(p)
<1>1. Typed /\ Stands(p) /\ Knows(proc[p])
  BY OrderStands DEF Order
<1>2. proc[p].at \in RememberSteps =>
        /\ <<proc[p].token, proc[p].chat>> \in presented
        /\ proc[p].chat \in Chats /\ Mine(proc[p].token, proc[p].chat)
  BY <1>1 DEF Knows, Mine, Remembers
<1>3. CASE Forget(p)
  BY <1>3, ForgetGoesOn
<1>4. CASE IndexGet(p)
  BY <1>1, <1>4, IndexGetMoves, IndexGetOn, ReadAnswered DEF IndexGet
<1>5. CASE IndexOther(p)
  BY <1>1, <1>5, IndexOtherMoves, IndexOtherOn, ReadAnswered DEF IndexOther
<1>6. CASE IndexTake(p)
  <2>1. proc[p].at \in RememberSteps
    BY <1>6 DEF IndexTake, RememberSteps, IndexSteps
  <2> QED
    BY <1>1, <1>2, <1>6, <2>1, IndexTakeMoves, IndexTakeOn, KeyWritten DEF IndexTake,
       site, history
<1>7. CASE IndexSet(p)
  <2>1. proc[p].at \in RememberSteps
    BY <1>7 DEF IndexSet, RememberSteps, IndexSteps
  <2> QED
    BY <1>1, <1>2, <1>7, <2>1, IndexSetMoves, IndexSetOn, KeyWritten DEF IndexSet,
       site, history
<1>8. CASE BuildMembers(p)
  BY <1>1, <1>8, BuildMembersMoves, BuildMembersOn, ReadAnswered DEF BuildMembers
<1>9. ASSUME NEW t \in Tokens, BuildRead(p, t)  PROVE Moves(p) /\ GoesOn(p) /\ StoreGoesOn(p)
  BY <1>1, <1>9, BuildReadMoves, BuildReadOn, ReadAnswered DEF BuildRead
<1>10. CASE BuildDrop(p)
  <2>1. proc[p].at \in LeaveSteps
    BY <1>10 DEF BuildDrop, LeaveSteps
  <2> QED
    BY <1>1, <1>10, <2>1, WalkDropMoves, WalkDropOn, SetLeft DEF BuildDrop, WalkDrop,
       site, history
<1>11. CASE BuildMark(p)
  <2>1. UNCHANGED spent \/ \E r \in Replies : CountFault(r)
    BY <1>11 DEF BuildMark
  <2> QED
    BY <1>1, <1>11, <2>1, BuildMarkMoves, BuildMarkOn, CalmBefore,
       ReadsOnly DEF BuildMark, site, history
<1>12. CASE PassMembers(p)
  BY <1>1, <1>12, PassMembersMoves, PassMembersOn, ReadAnswered DEF PassMembers
<1>13. ASSUME NEW t \in Tokens, PassRead(p, t)  PROVE Moves(p) /\ GoesOn(p) /\ StoreGoesOn(p)
  BY <1>1, <1>13, WalkReadMoves, WalkReadOn, ReadAnswered DEF PassRead, WalkRead
<1>14. CASE PassDrop(p)
  <2>1. proc[p].at \in LeaveSteps
    BY <1>14 DEF PassDrop, LeaveSteps
  <2> QED
    BY <1>1, <1>14, <2>1, WalkDropMoves, WalkDropOn, SetLeft DEF PassDrop, WalkDrop,
       site, history
<1>15. CASE PassAllRead(p)
  BY <1>1, <1>15, PassAllReadMoves, PassAllReadOn, ReadAnswered DEF PassAllRead
<1>16. ASSUME NEW t \in Tokens, PassIndex(p, t)  PROVE Moves(p) /\ GoesOn(p) /\ StoreGoesOn(p)
  BY <1>1, <1>16, PassIndexMoves, PassIndexOn, ReadAnswered DEF PassIndex
<1>17. CASE PassIndexed(p)
  BY <1>1, <1>17, PassIndexedMoves, PassIndexedOn, ReadAnswered DEF PassIndexed
<1>18. ASSUME NEW t \in Tokens, Follow(p, t)  PROVE Moves(p) /\ GoesOn(p) /\ StoreGoesOn(p)
  BY <1>1, <1>18, FollowMoves, FollowOn, ReadAnswered DEF Follow
<1>19. CASE Digest(p)
  <2>1. proc[p].at \in RememberSteps
    BY <1>19 DEF Digest, RememberSteps
  <2> QED
    BY <1>1, <1>2, <1>19, <2>1, DigestMoves, DigestOn, RecordWritten DEF Digest, site,
       history
<1>20. CASE Positions(p)
  BY <1>1, <1>20, PositionsMoves, PositionsOn, ReadAnswered DEF Positions
<1>21. CASE Snapshot(p)
  <2>1. proc[p].at \in RememberSteps
    BY <1>21 DEF Snapshot, RememberSteps
  <2> QED
    BY <1>1, <1>2, <1>21, <2>1, SnapshotMoves, SnapshotOn, RecordWritten DEF Snapshot,
       site, history
<1>22. CASE PassEnds(p)
  BY <1>1, <1>22, PassEndsMoves, PassEndsOn, ReadAnswered DEF PassEnds
<1>23. CASE PassStart(p)
  BY <1>1, <1>23, PassStartMoves, PassStartOn, ReadAnswered DEF PassStart
<1> QED
  BY <1>3, <1>4, <1>5, <1>6, <1>7, <1>8, <1>9, <1>10, <1>11, <1>12, <1>13, <1>14,
     <1>15, <1>16, <1>17, <1>18, <1>19, <1>20, <1>21, <1>22, <1>23 DEF Walk

-----------------------------------------------------------------------------
(***************************************************************************)
(* The actions that begin a claim, write it, and end it.                   *)
(***************************************************************************)
\* A claim's write, answered or not: the record is its chat's from here.
LEMMA ClaimWriteKeepsOrder ==
  ASSUME Order, Typed', NEW h \in Handlers, ClaimWrite(h)
  PROVE  Order'
<1> DEFINE t == proc[h].token  c == proc[h].chat
<1>1. /\ h \in Processes /\ Typed /\ Stands(h) /\ Knows(proc[h]) /\ proc[h].at = "claimWrite"
      /\ Handlers \subseteq Processes
  BY OrderStands DEF Processes, Order, ClaimWrite
<1>2. /\ t \in Tokens /\ c \in Chats /\ <<t, c>> \in presented
      /\ Busy(proc[h], c)
  BY <1>1 DEF Stands, Shape, Knows, AddSteps, Busy
<1>3. PICK r \in Replies :
        /\ CountFault(r)
        /\ WriteLink(r, t, c)
        /\ IF Answered(r) THEN Goes(h, "claimAdd") ELSE Ends(h)
  BY DEF ClaimWrite
<1>4. UNCHANGED <<chatKey, watches, minted, presented, followed, crossed>>
  BY DEF ClaimWrite, site, history
<1>5. link' = link \/ link' = [link EXCEPT ![t] = c]
  BY <1>3 DEF WriteLink
<1>6. \A q \in Processes \ {h} : proc'[q] = proc[q]
  BY <1>3 DEF Goes, Ends, Order, Typed, TypeOK
<1>7. proc'[h] = Idle \/ proc'[h] = [proc[h] EXCEPT !.at = "claimAdd"]
  BY <1>1, <1>3 DEF Goes, Ends, Stands
<1>8. /\ proc'[h].at \in {"idle", "claimAdd"}
      /\ proc'[h].todo \subseteq proc[h].todo
      /\ \A u \in Tokens : proc'[h].kept[u] \in {proc[h].kept[u], NoLink}
      /\ proc'[h].at = "claimAdd" => proc'[h].token = t /\ proc'[h].chat = c
  BY <1>1, <1>7 DEF Idle, Nothing, Stands, ProcessState
<1>9. \A u \in Tokens, q \in Processes : Lets(proc'[q], u) => Lets(proc[q], u)
  BY <1>6, <1>8 DEF Lets, LeaveSteps, ForgetSteps
<1>10. \A u \in Tokens, d \in Chats : Mine(u, d)' => Mine(u, d) \/ (u = t /\ d = c)
  <2>1. \A u \in Tokens, d \in Chats : link'[u] = d => link[u] = d \/ (u = t /\ d = c)
    BY <1>1, <1>2, <1>5 DEF Stands
  <2>2. \A u \in Tokens, d \in Chats, q \in Processes :
          Remembers(proc'[q], u, d) => Remembers(proc[q], u, d)
    BY <1>6, <1>8, NullAssumption DEF Remembers, RememberSteps, IndexSteps
  <2> QED  BY <2>1, <2>2 DEF Mine
<1>11. \A u \in Tokens, d \in Chats : Mine(u, d) => <<u, d>> \in presented
  BY MineIsPresented
<1>12. Named'
  <2>1. LinksNamed' /\ KeysNamed'
    BY <1>1, <1>2, <1>4, <1>5 DEF Order, Named, LinksNamed, KeysNamed, Stands
  <2>2. Knows(proc'[h])
    <3>1. CASE proc'[h] = Idle
      BY <3>1, NullAssumption DEF Idle, Nothing, Knows, AddSteps, FindSteps, IndexSteps,
         RememberSteps, SetAgainst
    <3>2. CASE proc'[h] = [proc[h] EXCEPT !.at = "claimAdd"]
      BY <1>1, <3>2 DEF Knows, AddSteps, FindSteps, IndexSteps, RememberSteps,
         SetAgainst, Stands, ProcessState
    <3> QED  BY <1>7, <3>1, <3>2
  <2>3. \A q \in Processes : Knows(proc'[q])
    BY <1>6, <2>2 DEF Order, Named
  <2>4. \A q \in Processes : Knows(proc[q])'
    BY <1>4, <2>3 DEF Knows
  <2> QED  BY <2>1, <2>4 DEF Named
<1>13. AllMinted'
  <2>1. \A u \in Tokens : link'[u] # NoLink => u \in minted
    BY <1>1, <1>2, <1>5 DEF Order, AllMinted, Stands
  <2>2. \A q \in Processes : proc'[q].todo \subseteq minted
    BY <1>1, <1>6, <1>8 DEF Order, AllMinted
  <2> QED  BY <1>4, <2>1, <2>2 DEF Order, AllMinted
<1>14. ASSUME NEW u \in Tokens, Untouched(u)  PROVE Untouched(u)'
  BY <1>4, <1>6, <1>8, <1>14 DEF Untouched
<1>15. PendingUntouched'
  <2> SUFFICES ASSUME NEW u \in Tokens, link'[u] = NoChat  PROVE Untouched(u)'
    BY DEF PendingUntouched, Untouched
  <2>1. link[u] = NoChat
    BY <1>1, <1>2, <1>5, NullAssumption DEF Stands
  <2> QED  BY <1>14, <2>1 DEF Order, PendingUntouched
<1>16. \A u \in Tokens : link[u] # NoChat => link'[u] # NoChat
  BY <1>1, <1>2, <1>5, NullAssumption DEF Stands
<1>17. proc'[h].at = "claimAdd" => link' = [link EXCEPT ![t] = c]
  BY <1>1, <1>3, IdleIs DEF WriteLink, Applied, Answered, Ends, Stands
<1>18. AddingClaimed'
  <2> SUFFICES ASSUME NEW k \in Handlers, Claimant(proc'[k])
               PROVE  link'[proc'[k].token] # NoChat
    BY DEF AddingClaimed, Claimant
  <2>1. CASE k # h
    <3>1. proc'[k] = proc[k] /\ proc[k].token \in Tokens
      BY <1>1, <1>6, <2>1 DEF Order, Typed, Shape, Claimant
    <3> QED  BY <1>16, <3>1 DEF Order, AddingClaimed
  <2>2. CASE k = h
    <3>1. proc'[h].at = "claimAdd" /\ proc'[h].token = t
      BY <1>8, <2>2 DEF Claimant, AddSteps
    <3>2. link' = [link EXCEPT ![t] = c]
      BY <1>17, <3>1
    <3> QED  BY <1>1, <1>2, <2>2, <3>1, <3>2, NullAssumption DEF Stands
  <2> QED  BY <2>1, <2>2
<1>19. Alone'
  BY <1>4 DEF Order, Alone
<1>20. Single'
  <2>1. \A k \in Handlers, d \in Chats : Busy(proc'[k], d) => Busy(proc[k], d)
    BY <1>1, <1>6, <1>7, <1>8, NullAssumption DEF Busy, Idle, ForgetSteps, Stands, ProcessState
  <2> QED  BY <1>4, <2>1 DEF Order, Single, Busy
<1>21. ASSUME NEW d \in Chats \ crossed, <<t, d>> \in presented  PROVE d = c
  BY <1>2, <1>21 DEF Order, Alone
<1>22. ClaimsLast'
  <2> SUFFICES ASSUME NEW d \in Chats \ crossed, NEW k \in Handlers,
                      proc'[k].at \in AddSteps, proc'[k].chat = d
               PROVE  /\ \A u \in Tokens : <<u, d>> \in presented => u <= proc'[k].token
                      /\ \A q \in Processes : ~Lets(proc'[q], proc'[k].token)
                      /\ Claimant(proc'[k]) => link'[proc'[k].token] = d
                      /\ ~Claimant(proc'[k]) =>
                           /\ proc'[k].token \notin watches
                           /\ \A q \in Processes : /\ proc'[k].token \notin proc'[q].todo
                                                   /\ proc'[q].kept[proc'[k].token] = NoLink
    BY <1>4 DEF ClaimsLast, Lets, Claimant, Untouched
  <2> DEFINE v == proc[k].token
  <2>1. /\ proc'[k].token = v /\ proc[k].at \in AddSteps /\ proc[k].chat = d
        /\ v \in Tokens /\ <<v, d>> \in presented
        /\ k = h \/ Claimant(proc'[k]) = Claimant(proc[k])
        /\ k = h => Claimant(proc'[k]) /\ d = c /\ v = t /\ proc'[h].at = "claimAdd"
    <3>1. CASE k # h
      BY <1>1, <1>6, <3>1 DEF Order, Named, Knows, Typed, Shape
    <3>2. CASE k = h
      BY <1>1, <1>2, <1>8, <3>2 DEF Claimant, AddSteps
    <3> QED  BY <3>1, <3>2
  <2>2. /\ \A u \in Tokens : <<u, d>> \in presented => u <= v
        /\ \A q \in Processes : ~Lets(proc[q], v)
        /\ Claimant(proc[k]) => link[v] = d
        /\ ~Claimant(proc[k]) => Untouched(v)
    BY <2>1 DEF Order, ClaimsLast
  <2>3. Claimant(proc'[k]) => link'[v] = d
    BY <1>1, <1>2, <1>5, <1>21, <1>17, <2>1, <2>2 DEF Stands
  <2>4. ~Claimant(proc'[k]) => Untouched(v)'
    BY <1>14, <2>1, <2>2
  <2> QED  BY <1>4, <1>9, <2>1, <2>2, <2>3, <2>4 DEF Untouched
<1>23. HasCurrent'
  <2> SUFFICES ASSUME Calm', NEW d \in followed \ crossed
               PROVE  \E u \in Tokens : Current(u, d)'
    BY <1>4 DEF HasCurrent
  <2>1. Answered(r) /\ Calm /\ d \in Chats
    BY <1>1, <1>3 DEF Calm, CountFault, Typed, TypeOK
  <2>2. /\ proc' = [proc EXCEPT ![h].at = "claimAdd"] /\ link' = [link EXCEPT ![t] = c]
        /\ proc'[h].at = "claimAdd" /\ proc'[h].token = t /\ proc'[h].chat = c
    BY <1>1, <1>3, <2>1 DEF WriteLink, Applied, Answered, Goes, Stands, ProcessState
  <2>3. CASE d = c
    <3>1. /\ \A u \in Tokens : <<u, c>> \in presented => u <= t
          /\ \A q \in Processes : ~Lets(proc[q], t)
      BY <1>1, <1>2, <2>1, <2>3 DEF Order, ClaimsLast, AddSteps
    <3>2. \A u \in Tokens : Mine(u, d)' => u <= t
      <4>1. \A u \in Tokens : Mine(u, d)' => u = t \/ <<u, d>> \in presented
        BY <1>2, <1>10, <1>11, <2>1
      <4> QED  BY <1>2, <2>3, <3>1, <4>1, TokensAssumption
    <3>3. \A q \in Processes : ~Lets(proc'[q], t)
      BY <1>2, <1>9, <3>1
    <3>4. link'[t] = c
      BY <1>1, <1>2, <2>2 DEF Stands
    <3> QED  BY <1>2, <2>2, <2>3, <3>2, <3>3, <3>4 DEF Current, Lets
  <2>4. CASE d # c
    <3>1. PICK u \in Tokens : Current(u, d)
      BY <2>1 DEF Order, HasCurrent
    <3>2. u # t
      BY <1>21, <2>1, <2>4, <3>1 DEF Current, Order, Named, LinksNamed
    <3>3. link'[u] = d
      BY <1>1, <2>2, <3>1, <3>2 DEF Current, Stands
    <3>4. \A w \in Tokens : Mine(w, d)' => w <= u
      BY <1>10, <2>1, <2>4, <3>1 DEF Current
    <3>5. \A q \in Processes : ~Lets(proc'[q], u)
      BY <1>9, <3>1 DEF Current
    <3>6. u \in watches'
            \/ \E k \in Handlers :
                 proc'[k].at = "claimAdd" /\ proc'[k].chat = d /\ proc'[k].token = u
      <4>1. ASSUME NEW k \in Handlers, proc[k].at = "claimAdd", proc[k].chat = d, proc[k].token = u
            PROVE  proc'[k] = proc[k]
        BY <1>1, <1>6, <4>1
      <4> QED  BY <1>4, <3>1, <4>1 DEF Current
    <3> QED  BY <3>3, <3>4, <3>5, <3>6 DEF Current, Lets
  <2> QED  BY <2>3, <2>4
<1> QED
  BY <1>12, <1>13, <1>15, <1>18, <1>19, <1>20, <1>22, <1>23 DEF Order

\* A claim's end: its token is in the set, and what its chat's key named before
\* is let go.
LEMMA ClaimAddKeepsOrder ==
  ASSUME Order, Typed', NEW h \in Handlers, ClaimAdd(h)
  PROVE  Order'
<1> DEFINE t == proc[h].token  c == proc[h].chat  other == proc[h].other
<1>1. /\ h \in Processes /\ Typed /\ Stands(h) /\ Knows(proc[h]) /\ proc[h].at = "claimAdd"
      /\ Handlers \subseteq Processes
  BY OrderStands DEF Processes, Order, ClaimAdd
<1>2. /\ t \in Tokens /\ c \in Chats /\ <<t, c>> \in presented
      /\ Busy(proc[h], c)
      /\ other \in Tokens => <<other, c>> \in presented
      /\ link[t] # NoChat
  BY <1>1 DEF Stands, Shape, Knows, AddSteps, SetAgainst, Busy, Order, AddingClaimed, Claimant
<1>3. PICK r \in Replies :
        /\ CountFault(r)
        /\ watches' = IF Applied(r) THEN watches \cup {t} ELSE watches
        /\ followed' = IF Answered(r) THEN followed \cup {c} ELSE followed
        /\ IF Answered(r) /\ other \notin {NoToken, t}
           THEN Forgets(h, other, "claimAgain")
           ELSE Ends(h)
  BY DEF ClaimAdd
<1>4. UNCHANGED <<link, chatKey, minted, presented, crossed>>
  BY DEF ClaimAdd, site
<1>5. \A q \in Processes \ {h} : proc'[q] = proc[q]
  BY <1>3 DEF Forgets, Ends, Order, Typed, TypeOK
<1>6. \/ proc'[h] = Idle
      \/ /\ proc'[h] = [proc[h] EXCEPT !.at = "forgetRead", !.other = other, !.back = "claimAgain"]
         /\ other \in Tokens \ {t}
  <2>1. other \in Tokens \cup {NoToken}
    BY <1>1 DEF Stands, ProcessState
  <2> QED  BY <1>1, <1>3, <2>1 DEF Forgets, Ends, Stands
<1>7. /\ proc'[h].at \in {"idle", "forgetRead"}
      /\ proc'[h].todo \subseteq proc[h].todo
      /\ \A u \in Tokens : proc'[h].kept[u] \in {proc[h].kept[u], NoLink}
      /\ proc'[h].at = "forgetRead" =>
           proc'[h].chat = c /\ proc'[h].other = other /\ other \in Tokens \ {t}
  <2>1. CASE proc'[h] = Idle
    BY <2>1 DEF Idle, Nothing
  <2>2. CASE /\ proc'[h] = [proc[h] EXCEPT !.at = "forgetRead", !.other = other,
                                          !.back = "claimAgain"]
             /\ other \in Tokens \ {t}
    BY <1>1, <2>2 DEF Stands, ProcessState
  <2> QED  BY <1>6, <2>1, <2>2
<1>8. \A u \in Tokens, q \in Processes :
        Lets(proc'[q], u) => Lets(proc[q], u) \/ (u = other /\ u # t /\ other \in Tokens)
  BY <1>5, <1>7 DEF Lets, LeaveSteps, ForgetSteps
<1>9. \A u \in Tokens, d \in Chats : Mine(u, d)' => Mine(u, d)
  <2>1. \A u \in Tokens, d \in Chats, q \in Processes :
          Remembers(proc'[q], u, d) => Remembers(proc[q], u, d)
    BY <1>5, <1>7, NullAssumption DEF Remembers, RememberSteps, IndexSteps
  <2> QED  BY <1>4, <2>1 DEF Mine
<1>10. Named'
  <2>1. LinksNamed' /\ KeysNamed'
    BY <1>4 DEF Order, Named, LinksNamed, KeysNamed
  <2>2. Knows(proc'[h])
    <3>1. CASE proc'[h] = Idle
      BY <3>1, NullAssumption DEF Idle, Nothing, Knows, AddSteps, FindSteps, IndexSteps,
         RememberSteps, SetAgainst
    <3>2. CASE proc'[h] =
                 [proc[h] EXCEPT !.at = "forgetRead", !.other = other, !.back = "claimAgain"]
      BY <1>1, <3>2 DEF Knows, AddSteps, FindSteps, IndexSteps, RememberSteps,
         SetAgainst, Stands, ProcessState
    <3> QED  BY <1>6, <3>1, <3>2
  <2>3. \A q \in Processes : Knows(proc'[q])
    BY <1>5, <2>2 DEF Order, Named
  <2>4. \A q \in Processes : Knows(proc[q])'
    BY <1>4, <2>3 DEF Knows
  <2> QED  BY <2>1, <2>4 DEF Named
<1>11. AllMinted'
  <2>1. \A q \in Processes : proc'[q].todo \subseteq minted
    BY <1>1, <1>5, <1>7 DEF Order, AllMinted
  <2> QED  BY <1>2, <1>3, <1>4, <2>1 DEF Order, AllMinted
<1>12. ASSUME NEW u \in Tokens, Untouched(u), u # t  PROVE Untouched(u)'
  BY <1>3, <1>5, <1>7, <1>12 DEF Untouched
<1>13. PendingUntouched'
  <2> SUFFICES ASSUME NEW u \in Tokens, link'[u] = NoChat  PROVE Untouched(u)'
    BY DEF PendingUntouched, Untouched
  <2> QED  BY <1>2, <1>4, <1>12 DEF Order, PendingUntouched
<1>14. \A k \in Handlers : proc'[k].at \in AddSteps => k # h /\ proc'[k] = proc[k]
  BY <1>1, <1>5, <1>7 DEF AddSteps
<1>15. AddingClaimed'
  BY <1>4, <1>14 DEF Order, AddingClaimed, Claimant
<1>16. Alone'
  BY <1>4 DEF Order, Alone
<1>17. ASSUME NEW d \in Chats \ crossed, other \in Tokens, <<other, d>> \in presented
       PROVE  d = c
  BY <1>2, <1>17 DEF Order, Alone
<1>18. Single'
  <2>1. \A k \in Handlers, d \in Chats \ crossed : Busy(proc'[k], d) => Busy(proc[k], d)
    BY <1>1, <1>2, <1>5, <1>6, <1>7, <1>17, NullAssumption
       DEF Busy, Idle, ForgetSteps, Stands, ProcessState
  <2> QED  BY <1>4, <2>1 DEF Order, Single, Busy
<1>19. ClaimsLast'
  <2> SUFFICES ASSUME NEW d \in Chats \ crossed, NEW k \in Handlers,
                      proc'[k].at \in AddSteps, proc'[k].chat = d
               PROVE  /\ \A u \in Tokens : <<u, d>> \in presented => u <= proc'[k].token
                      /\ \A q \in Processes : ~Lets(proc'[q], proc'[k].token)
                      /\ Claimant(proc'[k]) => link[proc'[k].token] = d
                      /\ ~Claimant(proc'[k]) =>
                           /\ proc'[k].token \notin watches'
                           /\ \A q \in Processes : /\ proc'[k].token \notin proc'[q].todo
                                                   /\ proc'[q].kept[proc'[k].token] = NoLink
    BY <1>4 DEF ClaimsLast, Lets, Claimant, Untouched
  <2> DEFINE v == proc[k].token
  <2>1. /\ k # h /\ proc'[k] = proc[k] /\ proc[k].at \in AddSteps /\ proc[k].chat = d
        /\ v \in Tokens /\ <<v, d>> \in presented
    BY <1>1, <1>14 DEF Order, Named, Knows, Typed, Shape
  <2>2. /\ \A u \in Tokens : <<u, d>> \in presented => u <= v
        /\ \A q \in Processes : ~Lets(proc[q], v)
        /\ Claimant(proc[k]) => link[v] = d
        /\ ~Claimant(proc[k]) => Untouched(v)
    BY <2>1 DEF Order, ClaimsLast
  <2>3. d # c
    <3>1. Busy(proc[k], d)
      BY <2>1 DEF Busy, AddSteps
    <3> QED  BY <1>2, <2>1, <3>1 DEF Order, Single
  <2>4. v # t /\ (other \in Tokens => v # other)
    BY <1>2, <1>17, <2>1, <2>3 DEF Order, Alone
  <2>5. ~Claimant(proc[k]) => Untouched(v)'
    BY <1>12, <2>1, <2>2, <2>4
  <2> QED  BY <1>8, <2>1, <2>2, <2>4, <2>5 DEF Untouched
<1>20. HasCurrent'
  <2> SUFFICES ASSUME Calm', NEW d \in followed' \ crossed
               PROVE  \E u \in Tokens : Current(u, d)'
    BY <1>4 DEF HasCurrent
  <2>1. Answered(r) /\ Calm /\ d \in Chats /\ followed' = followed \cup {c}
        /\ watches' = watches \cup {t}
    BY <1>1, <1>2, <1>3 DEF Calm, CountFault, Typed, TypeOK, Applied, Answered
  <2>2. CASE d = c
    <3>1. /\ \A u \in Tokens : <<u, c>> \in presented => u <= t
          /\ \A q \in Processes : ~Lets(proc[q], t)
          /\ link[t] = c
      BY <1>1, <1>2, <2>1, <2>2 DEF Order, ClaimsLast, AddSteps, Claimant
    <3>2. \A u \in Tokens : Mine(u, d)' => u <= t
      BY <1>9, <2>1, <2>2, <3>1, MineIsPresented
    <3>3. \A q \in Processes : ~Lets(proc'[q], t)
      BY <1>2, <1>8, <3>1
    <3>4. link'[t] = d /\ t \in watches'
      BY <1>4, <2>1, <2>2, <3>1
    <3> QED  BY <1>2, <3>2, <3>3, <3>4 DEF Current, Lets
  <2>3. CASE d # c
    <3>1. PICK u \in Tokens : Current(u, d)
      BY <2>1, <2>3 DEF Order, HasCurrent
    <3>2. <<u, d>> \in presented
      BY <2>1, <3>1 DEF Current, Order, Named, LinksNamed
    <3>3. link'[u] = d
      BY <1>4, <3>1 DEF Current
    <3>4. \A w \in Tokens : Mine(w, d)' => w <= u
      BY <1>9, <2>1, <3>1 DEF Current
    <3>5. \A q \in Processes : ~Lets(proc'[q], u)
      BY <1>8, <1>17, <2>1, <2>3, <3>1, <3>2 DEF Current
    <3>6. u \in watches'
            \/ \E k \in Handlers :
                 proc'[k].at = "claimAdd" /\ proc'[k].chat = d /\ proc'[k].token = u
      <4>1. ASSUME NEW k \in Handlers, proc[k].at = "claimAdd", proc[k].chat = d, proc[k].token = u
            PROVE  proc'[k] = proc[k]
        BY <1>1, <1>5, <2>3, <4>1
      <4> QED  BY <2>1, <3>1, <4>1 DEF Current
    <3> QED  BY <3>3, <3>4, <3>5, <3>6 DEF Current, Lets
  <2> QED  BY <2>2, <2>3
<1> QED
  BY <1>10, <1>11, <1>13, <1>15, <1>16, <1>18, <1>19, <1>20 DEF Order

\* A link nobody claimed lapses: it was nobody's current one.
LEMMA ExpireKeepsOrder ==
  ASSUME Order, Typed', NEW t \in Tokens, Expire(t)
  PROVE  Order'
<1>1. /\ link[t] = NoChat /\ link' = [link EXCEPT ![t] = NoLink] /\ link \in [Tokens -> Link]
      /\ UNCHANGED <<chatKey, watches, minted, proc, presented, followed, crossed, spent>>
  BY DEF Expire, site, history, Order, Typed, TypeOK
<1>2. /\ \A u \in Tokens \ {t} : link'[u] = link[u]
      /\ link'[t] = NoLink
      /\ \A u \in Tokens, c \in Chats : link'[u] = c <=> link[u] = c
      /\ \A u \in Tokens : link'[u] = NoChat => link[u] = NoChat
      /\ \A u \in Tokens : link[u] # NoChat => link'[u] # NoChat
      /\ \A u \in Tokens : link'[u] # NoLink => link[u] # NoLink
  BY <1>1, NullAssumption
<1>3. \A p \in Processes : Knows(proc[p])' <=> Knows(proc[p])
  BY <1>1 DEF Knows
<1>4. Named'
  BY <1>1, <1>2, <1>3 DEF Order, Named, LinksNamed, KeysNamed
<1>5. AllMinted'
  BY <1>1, <1>2 DEF Order, AllMinted
<1>6. PendingUntouched'
  BY <1>1, <1>2 DEF Order, PendingUntouched, Untouched
<1>7. \A h \in Handlers : proc[h].at \in AddSteps => proc[h].token \in Tokens
  BY DEF Order, Typed, Shape, Processes
<1>8. AddingClaimed'
  BY <1>1, <1>2, <1>7 DEF Order, AddingClaimed, Claimant
<1>9. Alone' /\ Single'
  BY <1>1 DEF Order, Alone, Single, Busy
<1>10. ClaimsLast'
  BY <1>1, <1>2, <1>7 DEF Order, ClaimsLast, Claimant, Lets, Untouched
<1>11. HasCurrent'
  <2>1. \A u \in Tokens, c \in Chats : Mine(u, c)' <=> Mine(u, c)
    BY <1>1, <1>2 DEF Mine, Remembers
  <2>2. followed \subseteq Chats
    BY DEF Order, Typed, TypeOK
  <2>3. \A u \in Tokens, c \in Chats : Current(u, c) => Current(u, c)'
    BY <1>1, <1>2, <2>1 DEF Current, Lets
  <2> QED  BY <1>1, <2>2, <2>3 DEF Order, HasCurrent, Calm
<1> QED  BY <1>4, <1>5, <1>6, <1>8, <1>9, <1>10, <1>11 DEF Order

\* A restart leaves nobody remembering anything, and the promise ends there.
LEMMA CrashKeepsOrder ==
  ASSUME Order, Typed', Crash
  PROVE  Order'
<1>1. /\ proc' = [p \in Processes |-> Idle]
      /\ UNCHANGED <<link, chatKey, watches, minted, presented, followed, crossed>>
      /\ Handlers \subseteq Processes
  BY DEF Crash, stored, site, history, Processes
<1>2. /\ \A p \in Processes : proc'[p] = Idle
      /\ Idle.at = "idle" /\ Idle.todo = {} /\ \A t \in Tokens : Idle.kept[t] = NoLink
  BY <1>1 DEF Idle, Nothing
<1>3. Knows(Idle)
  BY NullAssumption DEF Idle, Nothing, Knows, AddSteps, FindSteps, IndexSteps, RememberSteps,
     SetAgainst
<1>4. \A p \in Processes : Knows(proc[p])'
  BY <1>1, <1>2, <1>3 DEF Knows
<1>5. Named'
  BY <1>1, <1>4 DEF Order, Named, LinksNamed, KeysNamed
<1>6. AllMinted'
  BY <1>1, <1>2 DEF Order, AllMinted
<1>7. PendingUntouched'
  BY <1>1, <1>2 DEF Order, PendingUntouched, Untouched
<1>8. AddingClaimed' /\ ClaimsLast'
  BY <1>1, <1>2 DEF AddingClaimed, ClaimsLast, Claimant, AddSteps
<1>9. Alone' /\ Single'
  BY <1>1, <1>2 DEF Order, Alone, Single, Busy, ForgetSteps
<1>10. HasCurrent'
  BY DEF HasCurrent, Calm, Crash, Order, Typed, TypeOK
<1> QED  BY <1>5, <1>6, <1>7, <1>8, <1>9, <1>10 DEF Order

\* A chat presents a token.  If it had presented a later one, or another chat
\* had presented this one, or the token is being let go, or another request is
\* about the chat, it is crossed from here.
LEMMA PresentKeepsOrder ==
  ASSUME Order, Typed', NEW h \in Handlers, NEW c \in Chats, NEW t \in Tokens, Present(h, c, t)
  PROVE  Order'
<1>1. /\ h \in Processes /\ Typed /\ Stands(h) /\ proc[h] = Idle
      /\ Handlers \subseteq Processes /\ link[t] \in {NoChat, c}
  BY OrderStands DEF Processes, Order, Present, Knows
<1>2. /\ UNCHANGED <<link, chatKey, watches, minted, followed>>
      /\ presented' = presented \cup {<<t, c>>}
      /\ crossed \subseteq crossed'
  BY DEF Present, stored, site
<1>3. \A q \in Processes \ {h} : proc'[q] = proc[q]
  BY DEF Present, Order, Typed, TypeOK
<1>4. proc'[h] = [Idle EXCEPT !.at = "claimGet", !.chat = c, !.token = t, !.held = link[t]]
  BY <1>1 DEF Present, Stands
<1>5. /\ proc'[h].at = "claimGet" /\ proc'[h].chat = c /\ proc'[h].token = t
      /\ proc'[h].held = link[t] /\ proc'[h].other = NoToken /\ proc'[h].todo = {}
      /\ proc'[h].kept = Nothing
      /\ \A u \in Tokens : proc'[h].kept[u] = NoLink
      /\ \A u \in Tokens : proc[h].kept[u] = NoLink
      /\ proc[h].at = "idle" /\ proc[h].todo = {}
  BY <1>1, <1>4 DEF Idle, Nothing
<1>6. ASSUME c \notin crossed'
      PROVE  /\ \A k \in Handlers : ~Busy(proc[k], c)
             /\ \A q \in Processes : ~Lets(proc[q], t)
             /\ \A u \in Tokens : <<u, c>> \in presented => u <= t
             /\ link[t] = NoChat => Presenters(t) \subseteq {c}
  <2>1. ~Serving(c) /\ ~Leaving(t)
    BY <1>6 DEF Present, Served
  <2>2. \A u \in Tokens : <<u, c>> \in presented => ~(u > t)
    BY <1>6 DEF Present
  <2>3. link[t] = NoChat => Presenters(t) \subseteq {c}
    BY <1>6 DEF Present
  <2>4. \A k \in Handlers : ~Busy(proc[k], c)
    BY <2>1 DEF Serving, Busy, ForgetSteps
  <2>5. \A q \in Processes : ~Lets(proc[q], t)
    BY <2>1 DEF Leaving, Lets, LeaveSteps
  <2> QED  BY <2>2, <2>3, <2>4, <2>5, TokensAssumption
<1>7. ASSUME NEW d \in Chats \ crossed', <<t, d>> \in presented  PROVE d = c
  <2>1. CASE link[t] = NoChat
    BY <1>7, <2>1 DEF Present, Presenters
  <2>2. CASE link[t] = c
    BY <1>2, <1>7, <2>2 DEF Order, Named, LinksNamed, Alone
  <2> QED  BY <1>1, <2>1, <2>2
<1>8. ASSUME c \notin crossed', NEW d \in Chats, <<t, d>> \in presented  PROVE d = c
  <2>1. CASE link[t] = NoChat
    BY <1>6, <1>8, <2>1 DEF Presenters
  <2>2. CASE link[t] = c
    BY <1>2, <1>8, <2>2 DEF Order, Named, LinksNamed, Alone
  <2> QED  BY <1>1, <2>1, <2>2
<1>9. \A u \in Tokens, q \in Processes : Lets(proc'[q], u) => Lets(proc[q], u)
  BY <1>3, <1>5 DEF Lets, LeaveSteps, ForgetSteps
<1>10. \A u \in Tokens, d \in Chats : Mine(u, d)' => Mine(u, d)
  BY <1>2, <1>3, <1>5, NullAssumption DEF Mine, Remembers, RememberSteps, IndexSteps
<1>11. Named'
  <2>1. LinksNamed' /\ KeysNamed'
    BY <1>2 DEF Order, Named, LinksNamed, KeysNamed
  <2>2. ASSUME NEW q \in Processes \ {h}  PROVE Knows(proc[q])'
    <3>1. proc'[q] = proc[q] /\ presented \subseteq presented' /\ Knows(proc[q])
      BY <1>2, <1>3 DEF Order, Named
    <3> QED  BY <3>1 DEF Knows
  <2>3. Knows(proc[h])'
    BY <1>1, <1>2, <1>5, NullAssumption DEF Knows, AddSteps, FindSteps, IndexSteps,
       RememberSteps, SetAgainst
  <2> QED  BY <2>1, <2>2, <2>3 DEF Named
<1>12. AllMinted'
  <2>1. t \in minted
    BY <1>1, NullAssumption DEF Order, AllMinted
  <2> QED  BY <1>2, <1>3, <1>5, <2>1 DEF Order, AllMinted
<1>13. ASSUME NEW u \in Tokens, Untouched(u)  PROVE Untouched(u)'
  BY <1>2, <1>3, <1>5, <1>13 DEF Untouched
<1>14. PendingUntouched'
  <2> SUFFICES ASSUME NEW u \in Tokens, link'[u] = NoChat  PROVE Untouched(u)'
    BY DEF PendingUntouched, Untouched
  <2> QED  BY <1>2, <1>13 DEF Order, PendingUntouched
<1>15. AddingClaimed'
  BY <1>2, <1>3, <1>5 DEF Order, AddingClaimed, Claimant, Processes
<1>16. Alone'
  BY <1>2, <1>7, <1>8 DEF Order, Alone
<1>17. Single'
  <2>1. ASSUME NEW k \in Handlers \ {h}, NEW d \in Chats \ crossed', Busy(proc[k], d)'
        PROVE  Busy(proc[k], d)
    <3>1. proc'[k] = proc[k]
      BY <1>1, <1>3
    <3>2. CASE d = c /\ Lets(proc[k], t)
      BY <1>1, <1>6, <3>2
    <3>3. CASE ~(d = c /\ Lets(proc[k], t))
      BY <1>2, <2>1, <3>1, <3>3 DEF Busy, Lets, LeaveSteps
    <3> QED  BY <3>2, <3>3
  <2>2. \A d \in Chats \ crossed' : Busy(proc[h], d)' => d = c
    BY <1>5 DEF Busy, ForgetSteps
  <2>3. c \notin crossed' => \A k \in Handlers : ~Busy(proc[k], c)
    BY <1>6
  <2> QED  BY <1>2, <2>1, <2>2, <2>3 DEF Order, Single
<1>18. ClaimsLast'
  <2> SUFFICES ASSUME NEW d \in Chats \ crossed', NEW k \in Handlers,
                      proc'[k].at \in AddSteps, proc'[k].chat = d
               PROVE  /\ \A u \in Tokens : <<u, d>> \in presented' => u <= proc'[k].token
                      /\ \A q \in Processes : ~Lets(proc'[q], proc'[k].token)
                      /\ Claimant(proc'[k]) => link[proc'[k].token] = d
                      /\ ~Claimant(proc'[k]) =>
                           /\ proc'[k].token \notin watches
                           /\ \A q \in Processes : /\ proc'[k].token \notin proc'[q].todo
                                                   /\ proc'[q].kept[proc'[k].token] = NoLink
    BY <1>2 DEF ClaimsLast, Lets, Claimant, Untouched
  <2>1. CASE k = h
    <3>1. d = c /\ proc'[k].token = t
      BY <1>5, <2>1
    <3>2. \A u \in Tokens : <<u, c>> \in presented' => u <= t
      <4>1. \A u \in Tokens : <<u, c>> \in presented => u <= t
        BY <1>6, <3>1
      <4> QED  BY <1>2, <4>1, TokensAssumption
    <3>3. \A q \in Processes : ~Lets(proc'[q], t)
      BY <1>6, <1>9, <3>1
    <3>4. Claimant(proc'[h]) => link[t] = c
      BY <1>1, <1>5 DEF Claimant
    <3>5. ~Claimant(proc'[h]) => Untouched(t)'
      BY <1>5, <1>13 DEF Claimant, AddSteps, Order, PendingUntouched
    <3> QED  BY <1>2, <2>1, <3>1, <3>2, <3>3, <3>4, <3>5 DEF Untouched
  <2>2. CASE k # h
    <3> DEFINE v == proc[k].token
    <3>1. /\ proc'[k] = proc[k] /\ proc[k].at \in AddSteps /\ proc[k].chat = d
          /\ v \in Tokens /\ <<v, d>> \in presented
      BY <1>1, <1>3, <2>2 DEF Order, Named, Knows, Typed, Shape
    <3>2. d # c
      <4>1. Busy(proc[k], d)
        BY <3>1 DEF Busy, AddSteps
      <4> QED  BY <1>6, <4>1
    <3>3. /\ \A u \in Tokens : <<u, d>> \in presented => u <= v
          /\ \A q \in Processes : ~Lets(proc[q], v)
          /\ Claimant(proc[k]) => link[v] = d
          /\ ~Claimant(proc[k]) => Untouched(v)
      BY <1>2, <3>1 DEF Order, ClaimsLast
    <3>4. ~Claimant(proc[k]) => Untouched(v)'
      BY <1>13, <3>1, <3>3
    <3> QED  BY <1>2, <1>9, <3>1, <3>2, <3>3, <3>4 DEF Untouched
  <2> QED  BY <2>1, <2>2
<1>19. HasCurrent'
  <2> SUFFICES ASSUME Calm', NEW d \in followed \ crossed'
               PROVE  \E u \in Tokens : Current(u, d)'
    BY <1>2 DEF HasCurrent
  <2>1. Calm /\ d \in Chats /\ d \notin crossed
    BY <1>1, <1>2, CalmBefore DEF Present, Typed, TypeOK
  <2>2. PICK u \in Tokens : Current(u, d)
    BY <2>1 DEF Order, HasCurrent
  <2>3. link'[u] = d
    BY <1>2, <2>2 DEF Current
  <2>4. \A w \in Tokens : Mine(w, d)' => w <= u
    BY <1>10, <2>1, <2>2 DEF Current
  <2>5. \A q \in Processes : ~Lets(proc'[q], u)
    BY <1>9, <2>2 DEF Current
  <2>6. u \in watches'
          \/ \E k \in Handlers : proc'[k].at = "claimAdd" /\ proc'[k].chat = d /\ proc'[k].token = u
    <3>1. ASSUME NEW k \in Handlers, proc[k].at = "claimAdd", proc[k].chat = d, proc[k].token = u
          PROVE  proc'[k] = proc[k]
      BY <1>1, <1>3, <1>5, <3>1
    <3> QED  BY <1>2, <2>2, <3>1 DEF Current
  <2> QED  BY <2>3, <2>4, <2>5, <2>6 DEF Current, Lets
<1> QED
  BY <1>11, <1>12, <1>14, <1>15, <1>16, <1>17, <1>18, <1>19 DEF Order

LEMMA InitOrder == ASSUME Init, Typed PROVE Order
<1>1. PICK owner \in [Legacy -> Chats] :
        /\ link = [t \in Tokens |-> IF t \in Legacy THEN owner[t] ELSE NoLink]
        /\ presented = {<<t, owner[t]>> : t \in Legacy}
  BY DEF Init
<1>2. /\ \A p \in Processes : proc[p] = Idle
      /\ Idle.at = "idle" /\ Idle.todo = {} /\ \A t \in Tokens : Idle.kept[t] = NoLink
      /\ Handlers \subseteq Processes
  BY DEF Init, Idle, Nothing, Processes
<1>3. Knows(Idle)
  BY NullAssumption DEF Idle, Nothing, Knows, AddSteps, FindSteps, IndexSteps, RememberSteps,
     SetAgainst
<1>4. Named
  BY <1>1, <1>2, <1>3, NullAssumption DEF Init, Named, LinksNamed, KeysNamed
<1>5. AllMinted
  BY <1>1, <1>2 DEF Init, AllMinted
<1>6. PendingUntouched
  BY <1>1, NullAssumption DEF PendingUntouched
<1>7. AddingClaimed /\ ClaimsLast
  BY <1>2 DEF AddingClaimed, ClaimsLast, Claimant, AddSteps
<1>8. Alone
  BY <1>1 DEF Alone
<1>9. Single
  BY <1>2 DEF Single, Busy, ForgetSteps
<1>10. HasCurrent
  BY DEF Init, HasCurrent
<1> QED  BY <1>4, <1>5, <1>6, <1>7, <1>8, <1>9, <1>10 DEF Order

\* Whatever a step does, it goes on as above or is one of the five that do not.
LEMMA OrderKept ==
  ASSUME Order, Typed', [Next]_vars
  PROVE  Order'
<1>1. ASSUME NEW h \in Handlers, Serve(h)  PROVE Order'
  <2>1. h \in Processes
    BY DEF Processes
  <2>2. CASE ClaimWrite(h)
    BY <2>2, ClaimWriteKeepsOrder
  <2>3. CASE ClaimAdd(h)
    BY <2>3, ClaimAddKeepsOrder
  <2>4. CASE ~ClaimWrite(h) /\ ~ClaimAdd(h)
    BY <1>1, <2>1, <2>4, ServeGoesOn, GoesOnKeeps
  <2> QED  BY <2>2, <2>3, <2>4
<1>2. ASSUME NEW h \in Handlers, Ask(h)  PROVE Order'
  <2>1. h \in Processes
    BY DEF Processes
  <2>2. ASSUME NEW c \in Chats, NEW t \in Tokens, Present(h, c, t)  PROVE Order'
    BY <2>2, PresentKeepsOrder
  <2>3. ASSUME \/ \E b \in Browsers : Connect(h, b) \/ Disconnect(h, b)
               \/ \E c \in Chats, what \in Commands : Command(h, c, what)
        PROVE  Order'
    BY <2>1, <2>3, AskGoesOn, GoesOnKeeps
  <2> QED  BY <1>2, <2>2, <2>3 DEF Ask
<1>3. ASSUME NEW p \in Passes, Walk(p) \/ PassStart(p)  PROVE Order'
  <2>1. p \in Processes
    BY DEF Processes
  <2> QED  BY <1>3, <2>1, WalkGoesOn, GoesOnKeeps
<1>4. ASSUME NEW t \in Tokens, Expire(t)  PROVE Order'
  BY <1>4, ExpireKeepsOrder
<1>5. CASE Crash
  BY <1>5, CrashKeepsOrder
<1>6. CASE UNCHANGED vars
  <2> USE <1>6 DEF vars, stored, site, history
  <2>1. Named' /\ AllMinted'
    BY DEF Order, Named, LinksNamed, KeysNamed, Knows, AllMinted
  <2>2. PendingUntouched' /\ AddingClaimed' /\ Alone' /\ Single'
    BY DEF Order, PendingUntouched, Untouched, AddingClaimed, Alone, Single, Busy
  <2>3. ClaimsLast'
    BY DEF Order, ClaimsLast, Lets, Untouched
  <2>4. HasCurrent'
    BY DEF Order, HasCurrent, Calm, Current, Mine, Remembers, Lets
  <2> QED  BY <2>1, <2>2, <2>3, <2>4 DEF Order
<1> QED  BY <1>1, <1>2, <1>3, <1>4, <1>5, <1>6 DEF Next

\* A chat told it is linked keeps a watched link, whatever other chats, browsers,
\* commands and passes do meanwhile, as long as its own requests follow one
\* another, its claims come in the order their tokens were minted, no other chat
\* presents its token, and no command of the store goes unanswered (claimLink,
\* indexLink, forgetLink, recordSnapshot).  A pass that holds an older link of
\* the chat lets go that one, never the one claimed last.
THEOREM LinkedStaysFollowed == Spec => []InOrderStaysFollowed
<1>1. Init => Order
  BY InitHolds, InitOrder DEF IInv
<1>2. Order /\ IInv' /\ [Next]_vars => Order'
  BY OrderKept DEF IInv
<1>3. Order => InOrderStaysFollowed
  BY DEF Order, HasCurrent, Calm, Current, InOrderStaysFollowed, HasWatchedLink,
         StillAdding, Typed, TypeOK
<1> QED  BY <1>1, <1>2, <1>3, InvariantHolds, PTL DEF Spec
=============================================================================
