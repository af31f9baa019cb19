----------------------------- MODULE Lab8Session -----------------------------
(***************************************************************************)
(* lab8: the sessions between client.c and a thread of server.c.           *)
(*                                                                         *)
(* The client sends a command and its newline with two calls, and reads    *)
(* lines until one that looks like a prompt.  The server takes what one    *)
(* recv() returns for one command: up to the first newline, and nothing    *)
(* behind it.  TCP keeps the order of the bytes and no boundaries, so that *)
(* recv() may return any beginning of what is under way, and cut a line    *)
(* again and again; each part is then taken for a line.                    *)
(*                                                                         *)
(* A command is a record; what the server says is a line.  Texts are left  *)
(* out but for their last character and for "BYE".                         *)
(* extra and dropped are not in the program: they count how often the two  *)
(* sides got out of step.                                                  *)
(***************************************************************************)
EXTENDS Integers, FiniteSets, SequencesExt

CONSTANTS
  Clients,
  Typed,          \* lines the user, or a script, may give to a client
  Fragments,      \* lines that the parts of these are taken for
  Cuts,           \* how a line may be cut in two, which is up to its text
  Tree,           \* paths below the root directory of the server, with the root
  Beside,         \* directories next to the root whose names begin with its name:
                  \* what follows, <<"b">> for /srv/ab beside /srv/a
  MAX_COMMANDS    \* bound of the model on the lines the clients are given

Verbs == {"ECHO", "QUIT", "INFO", "CD", "LIST", "blank", "unknown"}
Command(verb, arg) == [verb |-> verb, arg |-> arg]

\* What a send() of the client puts under way: a line or a newline.
Newline == Command("newline", "")
Requests == Typed \cup Fragments
Tokens == Requests \cup {Newline}

\* A line, the part of it that recv() returns and the part it leaves.  Nobody can cut
\* a newline.
Cut(line, first, rest) == [line |-> line, first |-> first, rest |-> rest]
Uncut == Cut(Newline, Newline, Newline)

\* Lines of the server.  A prompt shows the working directory.
Line(kind, cwd) == [kind |-> kind, cwd |-> cwd]
Text == Line("text", <<>>)
TextGt == Line("textGt", <<>>)
Bye == Line("BYE", <<>>)
Prompt(cwd) == Line("prompt", cwd)
Paths == Tree \cup Beside
Lines == {Text, TextGt, Bye} \cup {Prompt(dir) : dir \in Paths}

ASSUME RequestsAssumption ==
  \A t \in Requests : /\ t.verb \in Verbs
                      /\ t = Command(t.verb, t.arg)
                      /\ t.verb = "ECHO" => t.arg \in {Text, TextGt, Bye}
ASSUME CutsAssumption ==
  \A cut \in Cuts : /\ cut = Cut(cut.line, cut.first, cut.rest)
                    /\ {cut.line, cut.first, cut.rest} \subseteq Requests
ASSUME TreeAssumption == <<>> \in Tree /\ \A dir \in Paths : dir # <<>> => Front(dir) \in Paths
ASSUME BoundAssumption == MAX_COMMANDS \in Nat

VARIABLES
  client,     \* where the client is
  prompt,     \* the line it shows as its prompt
  given,      \* how many lines the clients were given
  toServer,   \* sent by the client, not yet received
  alive,      \* does the server process run?
  thread,     \* where the thread of the client is in the server
  cwd,        \* its working directory
  out,        \* what it has still to send before it calls recv()
  reset,      \* has it sent something after the client was gone?
  toClient,   \* sent by the server, not yet read
  extra,      \* answers beyond one for each command: fake prompts, cut commands
  dropped     \* commands that the server has passed over

clientVars == <<client, prompt, given>>
threadVars == <<thread, cwd, out, reset>>
ghosts == <<extra, dropped>>
vars == <<clientVars, toServer, alive, threadVars, toClient, ghosts>>

Init ==
  /\ client = [c \in Clients |-> "start"]
  /\ prompt = [c \in Clients |-> Text]
  /\ given = 0
  /\ toServer = [c \in Clients |-> <<>>]
  /\ alive = TRUE
  /\ thread = [c \in Clients |-> "none"]
  /\ cwd = [c \in Clients |-> <<>>]
  /\ out = [c \in Clients |-> <<>>]
  /\ reset = [c \in Clients |-> FALSE]
  /\ toClient = [c \in Clients |-> <<>>]
  /\ extra = [c \in Clients |-> 0]
  /\ dropped = [c \in Clients |-> 0]

Gone(c) == client[c] \in {"closed", "killed"}
Disconnected(c) == ~alive \/ thread[c] = "closed"

-----------------------------------------------------------------------------
(***************************************************************************)
(* The client.                                                             *)
(***************************************************************************)

\* connect(); the connection then waits to be accepted.
Connect(c) ==
  /\ client[c] = "start"
  /\ client' = [client EXCEPT ![c] = IF alive THEN "reading" ELSE "closed"]
  /\ UNCHANGED <<prompt, given, toServer, alive, threadVars, toClient, ghosts>>

\* Seeded fault: any line of text ends the answer.
FaultIsPrompt(line) == line.kind \in {"text", "textGt", "prompt"}

\* is_prompt(): the line ends in '>'.
IsPrompt(line) == line.kind \in {"textGt", "prompt"}

\* read_line() in handle_server().
ReadLine(c) ==
  /\ client[c] = "reading"
  /\ toClient[c] # <<>>
  /\ LET line == Head(toClient[c])
     IN /\ prompt' = IF IsPrompt(line) THEN [prompt EXCEPT ![c] = line] ELSE prompt
        /\ client' = [client EXCEPT ![c] = IF IsPrompt(line) THEN "prompt"
                                           ELSE IF line = Bye THEN "closed" ELSE @]
  /\ toClient' = [toClient EXCEPT ![c] = Tail(@)]
  /\ UNCHANGED <<given, toServer, alive, threadVars, ghosts>>

\* read_line() returns NULL, and the client goes on with the prompt it had.
ReadEnd(c) ==
  /\ client[c] = "reading"
  /\ toClient[c] = <<>>
  /\ Disconnected(c)
  /\ client' = [client EXCEPT ![c] = "prompt"]
  /\ UNCHANGED <<prompt, given, toServer, alive, threadVars, toClient, ghosts>>

\* A line typed, or read from the file behind '@', and the first send() of
\* send_cmd().  An empty line is not sent.
SendCommand(c) ==
  /\ client[c] = "prompt"
  /\ given < MAX_COMMANDS
  /\ given' = given + 1
  /\ \E t \in Typed :
       toServer' = IF Disconnected(c) THEN toServer ELSE [toServer EXCEPT ![c] = Append(@, t)]
  /\ client' = [client EXCEPT ![c] = "newline"]
  /\ UNCHANGED <<prompt, alive, threadVars, toClient, ghosts>>

\* Seeded fault: the client ends after its last command without reading the answer.
FaultSendNewline(c) ==
  /\ client[c] = "newline"
  /\ client' = [client EXCEPT ![c] = IF given = MAX_COMMANDS THEN "closed" ELSE "reading"]
  /\ toServer' = [toServer EXCEPT ![c] = Append(@, Newline)]
  /\ UNCHANGED <<prompt, given, alive, threadVars, toClient, ghosts>>

\* The second send(); if the server is gone, it may end the client with SIGPIPE.
SendNewline(c) ==
  /\ client[c] = "newline"
  /\ IF Disconnected(c)
       THEN /\ \E next \in {"reading", "killed"} : client' = [client EXCEPT ![c] = next]
            /\ UNCHANGED toServer
       ELSE /\ client' = [client EXCEPT ![c] = "reading"]
            /\ toServer' = [toServer EXCEPT ![c] = Append(@, Newline)]
  /\ UNCHANGED <<prompt, given, alive, threadVars, toClient, ghosts>>

\* The end of the input.
EndOfInput(c) ==
  /\ client[c] = "prompt"
  /\ client' = [client EXCEPT ![c] = "closed"]
  /\ UNCHANGED <<prompt, given, toServer, alive, threadVars, toClient, ghosts>>

\* The client is interrupted, anywhere.
Kill(c) ==
  /\ ~Gone(c)
  /\ client' = [client EXCEPT ![c] = "killed"]
  /\ UNCHANGED <<prompt, given, toServer, alive, threadVars, toClient, ghosts>>

-----------------------------------------------------------------------------
(***************************************************************************)
(* The thread of a client in the server.                                   *)
(***************************************************************************)

\* accept() and the greeting.
Accept(c) ==
  /\ alive
  /\ thread[c] = "none"
  /\ client[c] # "start"
  /\ thread' = [thread EXCEPT ![c] = "sending"]
  /\ out' = [out EXCEPT ![c] = <<Text, Prompt(<<>>)>>]
  /\ UNCHANGED <<clientVars, toServer, alive, cwd, reset, toClient, ghosts>>

\* Arguments of CD are paths: from the root, from above it, or from where the thread is.
Root == <<"/">>
Up == <<"..">>
FromRoot(path) == Root \o path
FromAbove(path) == <<"/..">> \o path   \* "/../ab", whose last name is the root's and path

\* build_path() and the cut of the root from what it finds.  The real path has to begin
\* with the characters of the root, and so do those of the directories beside it; what
\* is left of their names is then taken for a path below the root.
BuildPath(dir, target) ==
  {path \in Tree : target = FromRoot(path) \/ dir \o target = path}
    \cup {path \in Beside : target = FromAbove(path)}

\* CD: to the root, one up, or to what build_path() finds.
Changed(dir, arg) ==
  CASE arg = Root -> <<>>
    [] arg = Up -> IF dir = <<>> THEN dir ELSE Front(dir)
    [] OTHER -> IF BuildPath(dir, arg) = {} THEN dir
                ELSE CHOOSE path \in BuildPath(dir, arg) : TRUE

\* What the server may say to a command before the prompt.  The names of LIST end as
\* they like.
Answers(command) ==
  CASE command.verb = "ECHO" -> {<<command.arg>>}
    [] command.verb = "LIST" -> {<<>>, <<Text>>, <<TextGt>>}
    [] command.verb = "CD" -> {<<>>}
    [] OTHER -> {<<Text>>}

\* Seeded fault: no prompt after CD.
FaultReply(c, command) ==
  /\ cwd' = IF command.verb = "CD" THEN [cwd EXCEPT ![c] = Changed(@, command.arg)] ELSE cwd
  /\ IF command.verb = "QUIT"
       THEN /\ out' = [out EXCEPT ![c] = <<Bye>>]
            /\ thread' = [thread EXCEPT ![c] = "leaving"]
       ELSE \E answer \in Answers(command) :
              /\ out' = [out EXCEPT ![c] = IF command.verb = "CD" THEN <<Text>>
                                           ELSE answer \o <<Prompt(cwd'[c])>>]
              /\ thread' = [thread EXCEPT ![c] = "sending"]

\* The branches of client_thread(); all but QUIT end with the prompt.
Reply(c, command) ==
  /\ cwd' = IF command.verb = "CD" THEN [cwd EXCEPT ![c] = Changed(@, command.arg)] ELSE cwd
  /\ IF command.verb = "QUIT"
       THEN /\ out' = [out EXCEPT ![c] = <<Bye>>]
            /\ thread' = [thread EXCEPT ![c] = "leaving"]
       ELSE \E answer \in Answers(command) :
              /\ out' = [out EXCEPT ![c] = answer \o <<Prompt(cwd'[c])>>]
              /\ thread' = [thread EXCEPT ![c] = "sending"]

\* How many items of a stream are in a set.
Positions(stream, set) == {i \in DOMAIN stream : stream[i] \in set}
Count(stream, set) == Cardinality(Positions(stream, set))

\* Lines that the client takes for the end of an answer.
Ends(lines) == Count(lines, Lines \ {Text})

\* Those among them that are no prompt and not the BYE to QUIT.
FakeLines(command) == IF command.verb = "QUIT" THEN {TextGt} ELSE {TextGt, Bye}
Fakes(command, lines) == Count(lines, FakeLines(command))

Commands(tokens) == Count(tokens, Tokens \ {Newline})

\* recv() returns n tokens, and the first part of the next if that is cut.
Received(tokens, n, cut) == SubSeq(tokens, 1, n) \o IF cut = Uncut THEN <<>> ELSE <<cut.first>>
Left(tokens, n, cut) ==
  IF cut = Uncut THEN SubSeq(tokens, n + 1, Len(tokens))
                 ELSE <<cut.rest>> \o SubSeq(tokens, n + 2, Len(tokens))
MayReceive(tokens, n, cut) ==
  IF cut = Uncut THEN n > 0 ELSE n < Len(tokens) /\ tokens[n + 1] = cut.line

\* recv(), the cut at the first newline and trim(); nothing is said to an empty line.
Recv(c) ==
  /\ alive
  /\ thread[c] = "receiving"
  /\ \E n \in 0 .. Len(toServer[c]), cut \in Cuts \cup {Uncut} :
       /\ MayReceive(toServer[c], n, cut)
       /\ LET received == Received(toServer[c], n, cut)
              empty == Head(received).verb \in {"newline", "blank"}
          IN /\ toServer' = [toServer EXCEPT ![c] = Left(@, n, cut)]
             /\ IF empty THEN UNCHANGED <<thread, cwd, out>> ELSE Reply(c, Head(received))
             /\ dropped' = [dropped EXCEPT ![c] =
                              @ + Commands(received) - IF empty THEN 0 ELSE 1]
             /\ extra' = [extra EXCEPT ![c] =
                            @ + (IF cut = Uncut THEN 0 ELSE 1)
                              + (IF empty THEN 0 ELSE Fakes(Head(received), out'[c]))]
  /\ UNCHANGED <<clientVars, alive, reset, toClient>>

\* sendall() of one line; what a client that is gone is sent is lost.  After the last
\* line the thread calls recv() again or, after QUIT, ends.
Send(c) ==
  /\ alive
  /\ thread[c] \in {"sending", "leaving"}
  /\ toClient' = IF Gone(c) THEN toClient ELSE [toClient EXCEPT ![c] = Append(@, Head(out[c]))]
  /\ reset' = [reset EXCEPT ![c] = Gone(c)]
  /\ out' = [out EXCEPT ![c] = Tail(@)]
  /\ thread' = IF Len(out[c]) > 1 THEN thread
               ELSE [thread EXCEPT ![c] = IF @ = "leaving" THEN "closed" ELSE "receiving"]
  /\ UNCHANGED <<clientVars, toServer, alive, cwd, ghosts>>

\* Lines that are sent with one call of send(); the others take two or more.
InOneCall(line) == line \in {Prompt(<<>>), Bye}

\* A send() after one that the gone client has answered with a reset: SIGPIPE ends the
\* server with all its threads.
BrokenPipe(c) ==
  /\ alive
  /\ thread[c] \in {"sending", "leaving"}
  /\ Gone(c)
  /\ reset[c] \/ ~InOneCall(Head(out[c]))
  /\ alive' = FALSE
  /\ UNCHANGED <<clientVars, toServer, threadVars, toClient, ghosts>>

\* Seeded fault: recv() returns 0, and is called again.
FaultRecvEnd(c) == thread[c] = "receiving" /\ Gone(c) /\ UNCHANGED vars

\* recv() returns 0 or -1.
RecvEnd(c) ==
  /\ alive
  /\ thread[c] = "receiving"
  /\ Gone(c)
  /\ thread' = [thread EXCEPT ![c] = "closed"]
  /\ UNCHANGED <<clientVars, toServer, alive, cwd, out, reset, toClient, ghosts>>

-----------------------------------------------------------------------------
Server(c) == Accept(c) \/ Recv(c) \/ Send(c) \/ BrokenPipe(c) \/ RecvEnd(c)

\* What a client does without its user.
Client(c) == ReadLine(c) \/ ReadEnd(c) \/ SendNewline(c)

User(c) == Connect(c) \/ SendCommand(c) \/ EndOfInput(c) \/ Kill(c)

Next == \E c \in Clients : Server(c) \/ Client(c) \/ User(c)

Spec == Init /\ [][Next]_vars

\* The threads of the server and the clients are scheduled, and what is sent arrives.
FairSpec == Spec /\ \A c \in Clients : WF_vars(Server(c)) /\ WF_vars(Client(c))

-----------------------------------------------------------------------------
(***************************************************************************)
(* Properties.                                                             *)
(***************************************************************************)

\* Client, streams and threads are in the states of their code.
TypeOK ==
  /\ client \in [Clients -> {"start", "reading", "prompt", "newline", "closed", "killed"}]
  /\ given \in 0 .. MAX_COMMANDS
  /\ alive \in BOOLEAN
  /\ thread \in [Clients -> {"none", "sending", "receiving", "leaving", "closed"}]
  /\ cwd \in [Clients -> Paths]
  /\ prompt \in [Clients -> Lines]
  /\ toServer \in [Clients -> Seq(Tokens)]
  /\ toClient \in [Clients -> Seq(Lines)]
  /\ out \in [Clients -> Seq(Lines)]
  /\ \A c \in Clients : (out[c] # <<>>) <=> thread[c] \in {"sending", "leaving"}
  /\ reset \in [Clients -> BOOLEAN]
  /\ extra \in [Clients -> Nat]
  /\ dropped \in [Clients -> Nat]

\* Answers a client can still expect, and those it waits for.
Expected(c) ==
  Commands(toServer[c]) + Ends(out[c]) + Ends(toClient[c]) + IF thread[c] = "none" THEN 1 ELSE 0
Awaited(c) == IF client[c] = "prompt" THEN 0 ELSE 1

\* Client and server count the same: what is under way answers what the client waits
\* for, up to the answers that were too many and the commands that were passed over.
\* QUIT leaves what comes after it unanswered.
InConversation(c) == alive /\ ~Gone(c) /\ thread[c] # "closed"
AnswersBalance ==
  \A c \in Clients :
    InConversation(c) => Expected(c) + dropped[c] = Awaited(c) + extra[c]

\* "cwd>": as long as no answer was too many, the prompt the user sees is that of the
\* directory the next command will be executed in, and no answer is still to come.
PromptIsCurrent ==
  \A c \in Clients :
    InConversation(c) /\ client[c] = "prompt" /\ extra[c] = 0 =>
      prompt[c] = Prompt(cwd[c]) /\ Expected(c) = 0

\* Clients that end at their prompt, or by the BYE to their QUIT, do not take the server
\* with them.
ServerSurvives ==
  (\A c \in Clients : client[c] # "killed" /\ extra[c] = 0) => alive

\* handle_server() comes back, or the client has ended, unless a command was passed over.
Answered ==
  \A c \in Clients : (client[c] = "reading") ~> (client[c] # "reading" \/ dropped[c] > 0)

\* The thread of a client that is gone ends.
SessionEnds == \A c \in Clients : (Gone(c) /\ thread[c] # "none") ~> Disconnected(c)
=============================================================================
