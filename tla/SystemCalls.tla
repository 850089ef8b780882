---------------------------- MODULE SystemCalls ----------------------------
(****************************************************************************)
(* The calls on the host: terminals, the keychain, counters, streams, and   *)
(* files named from a directory's descriptor, as tables for Outcomes.       *)
(****************************************************************************)
LOCAL INSTANCE Sequences
LOCAL INSTANCE TLC

\* As in Outcomes.
LOCAL Try(types) == types \cup {<<"thrown">>}
LOCAL Maybe(types) == types \cup {<<"Absent">>}
LOCAL ListOf(type) == <<"list">> \o type

\* As in ImageCalls.
LOCAL Asks(reading) == <<"error">> \o reading

\* A family of calls that all cross alike.
LOCAL Each(calls, row) == [c \in calls |-> row]

-----------------------------------------------------------------------------
(* Terminals.  A pty comes as a pair, of which each getter takes a half.    *)

TerminalDoes == {
  "terminalWrite", "resizeFrom", "resizeSize", "resize", "setraw", "enableEcho", "disableEcho",
  "terminalClose", "terminalReset"}

TerminalReturns == Each(TerminalDoes, Try({<<"Void">>})) @@ [
  newTerminal |-> Try({<<"CzTerminal">>}),
  currentTerminal |-> Try({<<"CzTerminal">>}),
  createTerminal |-> Try({<<"parent and child">>}),
  terminalSize |-> Try({<<"Size">>})]

TerminalReads == Each(TerminalDoes, {Asks(<<>>)}) @@ [
  newTerminal |-> {Asks(<<"terminal">>)},
  currentTerminal |-> {Asks(<<"terminal">>)},
  createTerminal |-> {Asks(<<"parentTerminal">>), Asks(<<"childTerminal">>)},
  terminalSize |-> {Asks(<<"size">>)}]

-----------------------------------------------------------------------------
(* The keychain, names, files and counters.                                 *)

KeychainReturns == [
  save |-> Try({<<"Void">>}),
  delete |-> Try({<<"Void">>}),
  get |-> Try(Maybe({<<"KeychainQueryResult">>})),
  list |-> Try({ListOf(<<"RegistryInfo">>)}),
  exists |-> Try({<<"Bool">>})]

\* An entry is dated, and its dates may be ones Rust cannot hold.
KeychainQueryReads == [
  save |-> {Asks(<<>>)},
  delete |-> {Asks(<<>>)},
  get |-> {Asks(<<"optional", "keychainResult", "check">>)},
  list |-> {Asks(<<"list", "registryInfo", "check">>)},
  exists |-> {Asks(<<"boolean">>)}]

HostReturns == [
  parseCapabilityName |-> Try({<<"Text">>}),
  parseCapabilitySet |-> Try({<<"Text">>}),
  sysctlByName |-> Try({<<"Int64">>}),
  newProcNetSnmp |-> {<<"ProcNetSnmp">>},
  readProcNetSnmp |-> Try({<<"ProcNetSnmp">>}),
  fileInfo |-> Try({<<"CzFileInfo">>})]

CapabilityReads == [
  parseCapabilityName |-> {Asks(<<"text">>)},
  parseCapabilitySet |-> {Asks(<<"text">>)}]

SysctlReads == [sysctlByName |-> {Asks(<<"integer">>)}]

FileInfoReads == [fileInfo |-> {Asks(<<"fileInfo">>)}]

SnmpReads == [
  newProcNetSnmp |-> {Asks(<<"procNetSnmp">>)},
  readProcNetSnmp |-> {Asks(<<"procNetSnmp">>)}]

\* Seven counters in one list, of which the first four are always there; and
\* in each of them six numbers that need not be.
SnmpParts == [
  procNetSnmp |-> [required |-> {ListOf(<<"Counters">>)},
                   v6 |-> {ListOf(<<"Counters">>), ListOf(<<"Absent">>)}],
  counters |-> [optionalNumbers |-> {ListOf(<<"UInt64">>), ListOf(<<"Absent">>)}]]

SnmpFields == [
  procNetSnmp |-> [required |-> <<"list", "counters">>,
                   v6 |-> <<"list", "optional", "counters">>],
  counters |-> [optionalNumbers |-> <<"list", "optional", "number">>]]

HostCasts == [
  terminal |-> {<<"CzTerminal">>},
  parentTerminal |-> {<<"parent and child">>},
  childTerminal |-> {<<"parent and child">>},
  size |-> {<<"Size">>},
  fileInfo |-> {<<"CzFileInfo">>},
  keychainResult |-> {<<"KeychainQueryResult">>},
  procNetSnmp |-> {<<"ProcNetSnmp">>},
  counters |-> {<<"Counters">>}]

-----------------------------------------------------------------------------
(* Streams of bytes.                                                        *)

\* `next` cannot throw; a stream at its end gives nil.
StreamReturns == [
  newReadStream |-> {<<"CzReadStream">>},
  readStreamWithURL |-> Try({<<"CzReadStream">>}),
  readStreamWithData |-> {<<"CzReadStream">>},
  reset |-> Try({<<"Void">>}),
  nextChunk |-> Maybe({<<"Data">>})]

StreamReads == [
  newReadStream |-> {Asks(<<"readStream">>)},
  readStreamWithURL |-> {Asks(<<"readStream">>)},
  readStreamWithData |-> {Asks(<<"readStream">>)},
  reset |-> {Asks(<<>>)},
  nextChunk |-> {<<"optional", "bytes">>}]

StreamTakes == [readStreamWithURL |-> {"path", "count"}, readStreamWithData |-> {"count"}]

StreamCasts == [readStream |-> {<<"CzReadStream">>}]

-----------------------------------------------------------------------------
(* Files named from a directory's descriptor.                               *)

FdOpsDoes == {"makeDirectory", "unlink", "makeSymlink", "unlinkRecursive", "enumerate", "mkdir"}
FdOpsOpens == {"openDirectory", "openFile", "openFileRelativePath", "createFile"}

FdOpsReturns == Each(FdOpsDoes, Try({<<"Void">>})) @@ Each(FdOpsOpens, Try({<<"Int32">>})) @@ [
  entryType |-> Try(Maybe({<<"EntryType">>})),
  statusOf |-> Try({<<"FileStatus">>}),
  status |-> Try(Maybe({<<"FileStatus">>})),
  statusRelativePath |-> Try(Maybe({<<"FileStatus">>})),
  readSymlink |-> Try({<<"Text">>}),
  getCanonicalPath |-> Try({<<"Text">>})]

FdOpsReads == Each(FdOpsDoes, {Asks(<<>>)}) @@ Each(FdOpsOpens, {Asks(<<"int32">>)}) @@ [
  entryType |-> {Asks(<<"optional", "entryType">>)},
  statusOf |-> {Asks(<<"fileStatus">>)},
  status |-> {Asks(<<"optional", "fileStatus">>)},
  statusRelativePath |-> {Asks(<<"optional", "fileStatus">>)},
  readSymlink |-> {Asks(<<"text">>)},
  getCanonicalPath |-> {Asks(<<"text">>)}]

\* A name is refused if it is not UTF-8, as a path is, and rejected if it is
\* not one component of a path.
FdOpsTakes ==
  Each({"statusRelativePath", "openFileRelativePath", "mkdir"}, {"path"})
    @@ Each((FdOpsDoes \ {"enumerate", "mkdir"}) \cup (FdOpsOpens \ {"openFileRelativePath"})
              \cup {"entryType", "status", "readSymlink"}, {"path", "name"})

FdOpsCasts == [entryType |-> {<<"EntryType">>}, fileStatus |-> {<<"FileStatus">>}]

\* Each getter of the error takes some of its cases only.
FdOpsErrorGetters == [
  entryType |-> {"Conflict"}, operation |-> {"SystemError"}, number |-> {"SystemError"}]

FdOpsErrorCarries ==
  [c \in {"InvalidRelativePath", "InvalidPathComponent", "CannotFollowSymlink", "NotFound",
          "AlreadyExists", "Conflict", "SystemError"} |->
     {g \in DOMAIN FdOpsErrorGetters : c \in FdOpsErrorGetters[g]}]

FdOpsErrorInspects ==
  Each({"InvalidRelativePath", "InvalidPathComponent", "CannotFollowSymlink", "NotFound", "AlreadyExists"}, {})
    @@ [Conflict |-> {"entryType"}, SystemError |-> {"operation", "number"}]

SubpathReturns == [
  isSubpathMount |-> Try({<<"Bool">>}),
  extract |-> Try({<<"subpath and options">>})]

SubpathReads == [
  isSubpathMount |-> {Asks(<<"boolean">>)},
  extract |-> {Asks(<<"extracted">>)}]

\* Each getter of the error takes some of its cases only.
SubpathErrorGetters == [
  subpath |-> {"Invalid", "Resolve"}, reason |-> {"Invalid"}, options |-> {"Missing"}, number |-> {"Resolve"}]

SubpathErrorCarries ==
  [c \in {"Invalid", "Missing", "NotBind", "Resolve"} |->
     {g \in DOMAIN SubpathErrorGetters : c \in SubpathErrorGetters[g]}]

SubpathErrorInspects == [
  Invalid |-> {"subpath", "reason"}, Missing |-> {"options"}, NotBind |-> {},
  Resolve |-> {"subpath", "number"}]

SubpathCasts == [extracted |-> {<<"subpath and options">>}]

-----------------------------------------------------------------------------

SystemCallsReturns == [
  Host |-> TerminalReturns @@ HostReturns, Keychain |-> KeychainReturns, Streams |-> StreamReturns,
  FdOps |-> FdOpsReturns, Subpath |-> SubpathReturns]

SystemCallsReads == [
  Host |-> TerminalReads @@ CapabilityReads @@ SysctlReads @@ FileInfoReads @@ SnmpReads,
  Keychain |-> KeychainQueryReads, Streams |-> StreamReads, FdOps |-> FdOpsReads,
  Subpath |-> SubpathReads]

SystemCallsTakes == [Host |-> [fileInfo |-> {"path"}], Streams |-> StreamTakes, FdOps |-> FdOpsTakes]

SystemCallsCasts == HostCasts @@ StreamCasts @@ FdOpsCasts @@ SubpathCasts
=============================================================================
