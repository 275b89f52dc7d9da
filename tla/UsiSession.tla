------------------------------ MODULE UsiSession ------------------------------
(***************************************************************************)
(* The session of a GUI with the engine (USIEngine::Run): commands in any  *)
(* order, one at a time, each carried out to its end.  The Search object   *)
(* outlives commands and games, with its own copy of the configuration, a  *)
(* pointer to the networks, and the tree and cache of the searches it made. *)
(* What happens within one `go` is the subject of UsiGo.                   *)
(***************************************************************************)
EXTENDS Integers

CONSTANTS
  None,
  Values,        \* values of an option that SearchConfig holds
  Limits,        \* node limits
  NetFiles, Readable,       \* network files, and those that load
  BookFiles, ReadableBooks, \* book files, and those that load
  Random         \* the networks `bench` makes up

Configs ==
  [option : Values, leaf : {0, 1, 3, 5, 7}, nodes : Limits \cup {0}, info : BOOLEAN]

AllNets == NetFiles \cup {Random}

Searches == [config : Configs, nets : AllNets]

ASSUME SessionAssumption ==
  /\ None \notin Searches
  /\ Readable \subseteq NetFiles /\ ReadableBooks \subseteq BookFiles
  /\ None \notin NetFiles \cup {Random} /\ None \notin BookFiles \cup Limits
  /\ Random \notin NetFiles

VARIABLES
  config,      \* search_config_
  search,      \* search_: its snapshot of the configuration, and nets_
  nets,        \* nets_
  netPath,     \* value_net_path_, policy_net_path_
  maxNodes,    \* max_nodes_
  prepared,    \* new_game_prepared_
  bookPath, gotePath,      \* book_path_, gote_exit_book_path_; None if empty
  useGoteExit, \* use_gote_exit_book_
  dirty,       \* books_dirty_
  book, goteBook,          \* the books that are open
  memory,      \* ghost: which searches left nodes or evaluations in search_
  opened,      \* ghost: the last of isready and usinewgame was usinewgame
  reply       \* how the command just carried out was answered

netVars  == <<nets, netPath>>
bookVars == <<bookPath, gotePath, useGoteExit, dirty, book, goteBook>>
sessionVars == <<config, search, netVars, maxNodes, prepared, bookVars, memory, opened, reply>>

KeepSearch == UNCHANGED <<search, memory>>  \* a mutant: the search stays

(* search_.reset().                                                        *)
ResetSearch == search' = None /\ memory' = {}

Snapshot(c, n) == [config |-> c, nets |-> n]

(* EnsureSearch: what search_ is afterwards.                               *)
EnsureSearch(c, n) == IF search # None \/ n = None THEN search ELSE Snapshot(c, n)

(* EnsureNetworks: nets_ afterwards.                                       *)
EnsureNetworks ==
  IF nets # None THEN nets ELSE IF netPath \in Readable THEN netPath ELSE None

-----------------------------------------------------------------------------
(* setoption.                                                              *)

Silent == reply' = "none"

(* An option of SearchConfig.                                              *)
SetSearchOption(v) ==
  /\ config' = [config EXCEPT !.option = v]
  /\ ResetSearch
  /\ UNCHANGED <<netVars, maxNodes, prepared, bookVars, opened>> /\ Silent

(* LeafMateMode.  The retired mode does not reset the search.              *)
SetLeafMateMode(mode) ==
  LET d == config.leaf
  IN  /\ config' = [config EXCEPT !.leaf =
                      IF mode # "shallow" THEN 0
                      ELSE IF d <= 0 \/ d % 2 = 0 THEN 5 ELSE d]
      /\ IF mode = "dfpn" THEN UNCHANGED <<search, memory>> ELSE ResetSearch
      /\ UNCHANGED <<netVars, maxNodes, prepared, bookVars, opened>> /\ Silent

AsGiven(d) == d            \* a mutant: an even depth is taken

OddDepth(d) == IF d % 2 = 0 THEN d - 1 ELSE d

(* LeafMateDepth.                                                          *)
SetLeafMateDepth(d) ==
  /\ config' = [config EXCEPT !.leaf = OddDepth(d)]
  /\ ResetSearch
  /\ UNCHANGED <<netVars, maxNodes, prepared, bookVars, opened>> /\ Silent

(* MaxNodes and the others that the engine keeps for itself.               *)
SetMaxNodes(n) ==
  /\ maxNodes' = n
  /\ UNCHANGED <<config, search, netVars, prepared, bookVars, memory, opened>> /\ Silent

ResetInference == nets' = None /\ ResetSearch

(* ValueNet, PolicyNet.                                                    *)
SetNet(f) ==
  /\ netPath' = f /\ ResetInference
  /\ UNCHANGED <<config, maxNodes, prepared, bookVars, opened>> /\ Silent

(* BookFile, GoteExitBookFile.                                             *)
SetBookFile(f) ==
  /\ bookPath' = f /\ dirty' = TRUE
  /\ UNCHANGED <<config, search, netVars, maxNodes, prepared, gotePath, useGoteExit, book,
                 goteBook, memory, opened>> /\ Silent

SetGoteExitBookFile(f) ==
  /\ gotePath' = f /\ dirty' = TRUE
  /\ UNCHANGED <<config, search, netVars, maxNodes, prepared, bookPath, useGoteExit, book,
                 goteBook, memory, opened>> /\ Silent

NeverDirty(b) == dirty     \* a mutant: the toggle loads no book

DirtyAfterToggle(b) == dirty \/ b # useGoteExit

UseGoteExitBook(b) ==
  /\ dirty' = DirtyAfterToggle(b) /\ useGoteExit' = b
  /\ UNCHANGED <<config, search, netVars, maxNodes, prepared, bookPath, gotePath, book,
                 goteBook, memory, opened>> /\ Silent

-----------------------------------------------------------------------------
(* OpeningBook::Load.                                                      *)
Opened(f) == IF f \in ReadableBooks THEN f ELSE None

OpenedGoteExit == IF useGoteExit THEN Opened(gotePath) ELSE None

(* isready.  Networks that do not load end it before the books are read.   *)
CmdIsReady ==
  /\ nets' = EnsureNetworks
  /\ opened' = FALSE
  /\ IF nets' = None THEN UNCHANGED <<search, prepared, dirty, book, goteBook, memory>>
     ELSE /\ search' = EnsureSearch(config, nets') /\ memory' = {}
          /\ prepared' = TRUE
          /\ dirty' = FALSE
          /\ IF ~dirty THEN UNCHANGED <<book, goteBook>>
             ELSE /\ book' = Opened(bookPath)
                  /\ goteBook' = OpenedGoteExit
  /\ UNCHANGED <<config, netPath, maxNodes, bookPath, gotePath, useGoteExit>> /\ Silent

StaysPrepared == prepared  \* a mutant: one isready prepares all games

PreparedInGame == FALSE

(* usinewgame.  A search that isready has not prepared is cleared now.     *)
CmdUsiNewGame ==
  /\ memory' = IF search # None /\ ~prepared THEN {}
               ELSE {IF m = "game" THEN "old" ELSE m : m \in memory}
  /\ prepared' = PreparedInGame
  /\ opened' = TRUE
  /\ UNCHANGED <<config, search, netVars, maxNodes, bookVars>> /\ Silent

(* ChooseOpeningBook.                                                      *)
ChooseOpeningBook(gote) == IF gote /\ useGoteExit THEN goteBook ELSE book

(* SetMaxNodes, SetMaxTime, SetTimeBudget.                                 *)
Push(s, n) == [s EXCEPT !.config.nodes = n]

(* ParseGoParameters: `go nodes`, or else the option.                      *)
NodesLimit(asked) == IF asked = None THEN maxNodes ELSE asked

(* go: resignation without networks, a book move, or a search.             *)
CmdGo(n, gote) ==
  /\ nets' = EnsureNetworks
  /\ \/ /\ nets' = None /\ reply' = "resign"
        /\ UNCHANGED <<config, search, memory>>
     \/ /\ nets' # None /\ ChooseOpeningBook(gote) # None /\ reply' = "book"
        /\ UNCHANGED <<config, search, memory>>
     \/ /\ nets' # None /\ reply' = "search"
        /\ config' = [config EXCEPT !.nodes = n, !.info = TRUE]
        /\ search' = Push(EnsureSearch(config', nets'), n)
        /\ memory' = memory \cup {IF opened THEN "game" ELSE "stray"}
  /\ UNCHANGED <<netPath, maxNodes, prepared, bookVars, opened>>

(* bench searches with a Search of its own, and random networks if those   *)
(* of the options do not load; they stay.                                  *)
CmdBench ==
  /\ nets' = IF EnsureNetworks # None THEN EnsureNetworks ELSE Random
  /\ UNCHANGED <<config, search, netPath, maxNodes, prepared, bookVars, memory, opened>>
  /\ Silent

-----------------------------------------------------------------------------
SessionInit ==
  /\ config \in [option : Values, leaf : {5}, nodes : {0}, info : {FALSE}]
  /\ search = None /\ nets = None /\ netPath \in NetFiles /\ maxNodes \in Limits
  /\ prepared = FALSE
  /\ bookPath = None /\ gotePath \in BookFiles /\ useGoteExit = FALSE
  /\ dirty = TRUE /\ book = None /\ goteBook = None
  /\ memory = {} /\ opened = FALSE /\ reply = "none"

CmdSetOption ==
  \/ \E v \in Values : SetSearchOption(v)
  \/ \E mode \in {"off", "shallow", "dfpn"} : SetLeafMateMode(mode)
  \/ \E d \in 1..7 : SetLeafMateDepth(d)
  \/ \E n \in Limits : SetMaxNodes(n)
  \/ \E f \in NetFiles : SetNet(f)
  \/ \E f \in BookFiles \cup {None} : SetBookFile(f) \/ SetGoteExitBookFile(f)
  \/ \E b \in BOOLEAN : UseGoteExitBook(b)

SessionNext ==
  \/ CmdSetOption \/ CmdIsReady \/ CmdUsiNewGame \/ CmdBench
  \/ \E asked \in Limits \cup {None}, gote \in BOOLEAN : CmdGo(NodesLimit(asked), gote)

SessionSpec == SessionInit /\ [][SessionNext]_sessionVars

-----------------------------------------------------------------------------
SessionTypeOK ==
  /\ config \in Configs
  /\ search \in Searches \cup {None}
  /\ nets \in AllNets \cup {None} /\ netPath \in NetFiles /\ maxNodes \in Limits
  /\ prepared \in BOOLEAN
  /\ bookPath \in BookFiles \cup {None} /\ gotePath \in BookFiles \cup {None}
  /\ useGoteExit \in BOOLEAN /\ dirty \in BOOLEAN
  /\ book \in BookFiles \cup {None} /\ goteBook \in BookFiles \cup {None}
  /\ memory \subseteq {"game", "stray", "old"} /\ opened \in BOOLEAN
  /\ reply \in {"none", "resign", "book", "search"}

(* A Search that lives on never works with an option that was changed      *)
(* since, nor with networks that were freed or replaced, nor with the      *)
(* limits of an earlier go.  The one exception is the retired              *)
(* LeafMateMode, which only turns leaf mates off.                          *)
OptionsInForce ==
  /\ nets \in NetFiles => nets = netPath
  /\ search # None =>
       /\ search.nets = nets
       /\ search.config.option = config.option
       /\ search.config.nodes = config.nodes
       /\ config.leaf \in {search.config.leaf, 0}

(* Between games nothing is carried over, whether the GUI sends isready    *)
(* before each game or never again after the first.  Searches that were    *)
(* made outside of a game ("stray") are not covered.                       *)
GamesIsolated == "old" \notin memory

(* Once isready has read the books, they are those the options name.       *)
BooksInForce ==
  ~dirty => book = Opened(bookPath) /\ goteBook = OpenedGoteExit

(* What the session works with, options, networks, limits and books, is    *)
(* what its commands have set.                                             *)
SettingsInForce == OptionsInForce /\ BooksInForce
=============================================================================
