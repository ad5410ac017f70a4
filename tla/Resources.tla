----------------------------- MODULE Resources -----------------------------
(***************************************************************************)
(* The components that hold something of the system's for their callers:   *)
(* mappings and descriptors, files, streams, the log, loaded libraries,    *)
(* sockets and libcurl handles.  They do not call one another while a      *)
(* caller's operation is under way, so a behaviour is about one of them,   *)
(* `part', and the others stay as they are.                                *)
(***************************************************************************)
EXTENDS Mappings

CONSTANTS
  Null,
  ReaderSlots, Blocks, Caller, ReaderSizes, Amounts, Word,         \* Readers
  WriterSlots, Paths, Counts, Capacity, SpanSize, MaxCursor,       \* Writers
  Clients, Lengths,                                                \* Files
  Handles, RegionSlots, RegionAddrs, MaxEnd,                       \* Regions
  Threads, MaxLines,                                               \* Logger
  LibrarySlots, Libs, MaxSymbols,                                  \* Libraries
  ClientSlots, Curls, Codes,                                       \* HttpClient
  Socks, SockNames, Users                                          \* Sockets

VARIABLES
  part,
  live, readers,                             \* Readers
  disk, span, writers, owed, told, excused,  \* Writers
  file, fileCall, claim, got,                \* Files
  fileSize, handles, regionMaps, regions,    \* Regions
  users, g_core_init_count, m_log_level, m_log_file,
  logDisk, logCall, lines, target, due, mixed,    \* Logger
  handle, loads, symbols,                    \* Libraries
  clients, curlHandles, request, answers,    \* HttpClient
  s_init_count, started, using, state, path, name, robbed  \* Sockets

Readers == INSTANCE Readers WITH Slots <- ReaderSlots, Sizes <- ReaderSizes

Writers == INSTANCE Writers WITH Slots <- WriterSlots, None <- Null

Files == INSTANCE Files WITH Absent <- Null, call <- fileCall

Regions == INSTANCE Regions WITH
  Slots <- RegionSlots, Addrs <- RegionAddrs, Absent <- Null,
  size <- fileSize, live <- regionMaps

Logger == INSTANCE Logger WITH None <- Null, disk <- logDisk, call <- logCall

Libraries == INSTANCE Libraries WITH Slots <- LibrarySlots, count <- loads

HttpClient == INSTANCE HttpClient WITH
  Slots <- ClientSlots, handles <- curlHandles, call <- request

Sockets == INSTANCE Sockets WITH Names <- SockNames, None <- Null

ASSUME ResourcesAssumption ==
  /\ MappingsAssumption /\ Readers!ReadersAssumption
  /\ Writers!WritersAssumption /\ Files!FilesAssumption
  /\ Regions!RegionsAssumption /\ Logger!LoggerAssumption
  /\ Libraries!LibrariesAssumption
  /\ HttpClient!HttpClientAssumption /\ Sockets!SocketsAssumption

Parts == {"Mappings", "Readers", "Writers", "Files", "Regions", "Logger", "Libraries",
          "HttpClient", "Sockets"}

(* A part that stays as it is starts in one state only.                    *)
ResourcesInit ==
  /\ part \in Parts
  /\ Init /\ Readers!Init /\ Writers!Init /\ Libraries!Init
  /\ Logger!Init /\ HttpClient!Init /\ Sockets!Init
  /\ Files!Init /\ (part = "Files" \/ file = Null)
  /\ Regions!Init /\ (part = "Regions" \/ fileSize = [p \in Paths |-> Null])

readerVars == <<live, readers>>
writerVars == <<disk, span, writers, owed, told, excused>>
fileVars == <<file, fileCall, claim, got>>
regionVars == <<fileSize, handles, regionMaps, regions>>
logVars == <<users, g_core_init_count, m_log_level, m_log_file, logDisk, logCall, lines,
             target, due, mixed>>
libraryVars == <<handle, loads, symbols>>
httpVars == <<clients, curlHandles, request, answers>>
socketVars == <<s_init_count, started, using, state, path, name, robbed>>
resourceVars == <<part, vars, readerVars, writerVars, fileVars, regionVars, logVars, libraryVars,
                  httpVars, socketVars>>

ResourcesNext ==
  /\ UNCHANGED part
  /\ IF part = "Mappings" THEN Next ELSE UNCHANGED vars
  /\ IF part = "Readers" THEN Readers!Next ELSE UNCHANGED readerVars
  /\ IF part = "Writers" THEN Writers!Next ELSE UNCHANGED writerVars
  /\ IF part = "Files" THEN Files!Next ELSE UNCHANGED fileVars
  /\ IF part = "Regions" THEN Regions!Next ELSE UNCHANGED regionVars
  /\ IF part = "Logger" THEN Logger!Next ELSE UNCHANGED logVars
  /\ IF part = "Libraries" THEN Libraries!Next ELSE UNCHANGED libraryVars
  /\ IF part = "HttpClient" THEN HttpClient!Next ELSE UNCHANGED httpVars
  /\ IF part = "Sockets" THEN Sockets!Next ELSE UNCHANGED socketVars

ResourcesSpec == ResourcesInit /\ [][ResourcesNext]_resourceVars

-----------------------------------------------------------------------------
(* FileOps, map_file, map_shared_memory and MemoryMappedRegion::map: what  *)
(* is behind a mapping stays as large as the mapping, so that no access to *)
(* it faults, whoever grows or removes it, or creates another of its name, *)
(* unless a caller asked for more than there was, made anew an object that *)
(* was there, or truncated a file that somebody maps.                      *)
EveryMappingIsBacked == Backed /\ Regions!WithinFile

(* StreamReader: the bytes that a read copies are all in one live block,   *)
(* through any sequence of moves, whatever was mapped at an address that   *)
(* the reader had before, unless the sum of the read's check wraps.        *)
ReadsInside == Readers!ReadsInside

(* The destructors and move operations of StreamReader, DynamicLib, Http-  *)
(* Client and MemoryMappedRegion, and the count of SocketOps: whatever was *)
(* acquired has exactly one holder that will release it, once.             *)
EachReleasedOnce ==
  /\ Readers!OneOwner /\ Regions!OneRegion /\ HttpClient!OneClient
  /\ Libraries!CountsHolders /\ Libraries!SymbolsLive
  /\ Sockets!StartedWhileUsed

(* StreamWriter: what a writer accepted is in its buffer, inside the room  *)
(* it has, and in the end in its file, or the writer said that it is not,  *)
(* until it is used after flush(), and unless fclose failed unnoticed.     *)
WritersKeepAll == Writers!RoomIsReal /\ Writers!BufferIsLog /\ Writers!FileGetsAll

(* write_text_file and write_binary_file that must not overwrite: one      *)
(* caller at most is told that it made the file.                           *)
OneCreator == Files!OneCreator

(* read_text_file and read_binary_file return bytes that the file held,    *)
(* through the writes of others; when it was cut between ftell and fread,  *)
(* the text still does, the bytes do not.                                  *)
FoundUnlessCut == Files!FoundUnlessCut

(* Logger and IACore: every file holds exactly the lines that were logged  *)
(* while it was the log's file, unless calls overlapped while it was.      *)
KeepsLog == Logger!KeepsLog

(* HttpClient: a transfer uses the body and headers of its own call, and a *)
(* json call parses the answer to its own request.                         *)
RequestsAreOwn == HttpClient!TransferUsesOwn /\ HttpClient!ParsesOwnAnswer

(* SocketOps: bind_unix_socket fails for no name left behind: a client is  *)
(* refused only when nobody listens at the name, or when the name of those *)
(* who do was taken from them, which a later bind does.                    *)
ListenersAreFound == Sockets!ListenersAreFound
=============================================================================
