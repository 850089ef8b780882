---------------------------- MODULE ArchiveCalls ----------------------------
(****************************************************************************)
(* The calls on archives and EXT4 filesystems, as tables for Outcomes.      *)
(****************************************************************************)
LOCAL INSTANCE Sequences
LOCAL INSTANCE TLC

\* As in Outcomes.
LOCAL Try(types) == types \cup {<<"thrown">>}
LOCAL Maybe(types) == types \cup {<<"Absent">>}
LOCAL Plainly(types) == types \cup {<<"thrown", "plainly">>}
LOCAL ListOf(type) == <<"list">> \o type

\* As in ImageCalls.
LOCAL Asks(reading) == <<"error">> \o reading

-----------------------------------------------------------------------------
(* Archives.                                                                *)

\* An entry comes alone, or in a pair with its data or with a reader of it.
EntryAndData == <<"WriteEntry and Data">>
EntryAndReader == <<"WriteEntry and ArchiveEntryReader">>

ArchiveWriterReturns == [
  xattrFormatDescription |-> Try({<<"Text">>}),
  newWriteEntry |-> {<<"CzWriteEntry">>},
  xattrs |-> {<<"map", "Data">>},
  newArchiveWriter |-> Try({<<"CzArchiveWriter">>}),
  archiveWriterWithFile |-> Try({<<"CzArchiveWriter">>}),
  open |-> Try({<<"Void">>}),
  openWithFileDescriptor |-> Try({<<"Void">>}),
  finishEncoding |-> Try({<<"Void">>}),
  writeEntry |-> Try({<<"Void">>}),
  archiveDirectory |-> Try({<<"Void">>}),
  archive |-> Try({<<"Void">>}),
  writeHeader |-> Try({<<"Void">>}),
  writeChunk |-> Try({<<"Void">>}),
  finish |-> Try({<<"Void">>})]

\* `next` cannot throw: an iterator that fails ends, and says why in
\* `throwIfStreamFailed`.  What `read` throws is a BridgeError.
ArchiveReaderReturns == [
  openArchiveReader |-> Try({<<"CzArchiveReader">>}),
  archiveReaderWithFormat |-> Try({<<"CzArchiveReader">>}),
  archiveReaderWithFileHandle |-> Try({<<"CzArchiveReader">>}),
  archiveReaderWithBundle |-> Try({<<"CzArchiveReader">>}),
  throwIfStreamFailed |-> Try({<<"Void">>}),
  extractContents |-> Try({ListOf(<<"Text">>)}),
  extractFile |-> Try({EntryAndData}),
  next |-> Maybe({EntryAndData}),
  nextStreaming |-> Maybe({EntryAndReader}),
  read |-> Plainly({ListOf(<<"UInt8">>)})]

ArchiveWriterReads == [
  newArchiveWriter |-> {Asks(<<"archiveWriter">>)},
  archiveWriterWithFile |-> {Asks(<<"archiveWriter">>)},
  open |-> {Asks(<<>>)},
  openWithFileDescriptor |-> {Asks(<<>>)},
  finishEncoding |-> {Asks(<<>>)},
  writeEntry |-> {Asks(<<>>)},
  archiveDirectory |-> {Asks(<<>>)},
  archive |-> {Asks(<<>>)}]

TransactionReads == [
  writeHeader |-> {Asks(<<>>)},
  writeChunk |-> {Asks(<<>>)},
  finish |-> {Asks(<<>>)}]

XattrFormatReads == [xattrFormatDescription |-> {Asks(<<"text">>)}]

WriteEntryReads == [
  newWriteEntry |-> {Asks(<<"writeEntry">>)},
  xattrs |-> {<<"dataMap">>}]

\* The two iterators ask only whether there is an entry.
ArchiveReaderReads == [
  openArchiveReader |-> {Asks(<<"archiveReader">>)},
  archiveReaderWithFormat |-> {Asks(<<"archiveReader">>)},
  archiveReaderWithFileHandle |-> {Asks(<<"archiveReader">>)},
  archiveReaderWithBundle |-> {Asks(<<"archiveReader">>)},
  throwIfStreamFailed |-> {Asks(<<>>)},
  extractContents |-> {Asks(<<"strings">>)},
  extractFile |-> {Asks(<<"writeEntry">>), Asks(<<"entryData">>)},
  next |-> {<<"optional", "writeEntry">>, <<"optional", "entryData">>},
  nextStreaming |-> {<<"optional", "writeEntry">>, <<"optional", "archiveEntryReader">>}]

\* `io::Read` has an error of its own, made of the message alone.
EntryReaderReads == [read |-> {<<"message", "bytes">>}]

ArchiveTakes == [
  archiveWriterWithFile |-> {"path"}, open |-> {"path"}, archiveDirectory |-> {"path"},
  archive |-> {"path"}, openArchiveReader |-> {"path"}, archiveReaderWithFormat |-> {"path"},
  extractContents |-> {"path"}]

ArchiveCasts == [
  archiveWriter |-> {<<"CzArchiveWriter">>},
  archiveReader |-> {<<"CzArchiveReader">>},
  writeEntry |-> {<<"CzWriteEntry">>, EntryAndData, EntryAndReader},
  entryData |-> {EntryAndData},
  archiveEntryReader |-> {EntryAndReader},
  dataMap |-> {<<"map", "Data">>}]

-----------------------------------------------------------------------------
(* EXT4.                                                                    *)

\* `stat` and `scanArchiveHeaders` are rebuilt without their labels.  A file
\* is read as Data or as bytes; the bridge names neither.
Ext4ReaderReturns == [
  openExt4Reader |-> Try({<<"CzExt4Reader">>}),
  stat |-> Try({<<"number and Inode">>}),
  listDirectory |-> Try({ListOf(<<"Text">>)}),
  readFile |-> Try({<<"Data">>, ListOf(<<"UInt8">>)}),
  export |-> Try({<<"Void">>}),
  readInlineExtendedAttributes |-> Try({ListOf(<<"ExtendedAttribute">>)}),
  readBlockExtendedAttributes |-> Try({ListOf(<<"ExtendedAttribute">>)}),
  readFileXattrs |-> Try({ListOf(<<"ExtendedAttribute">>)}),
  rootInode |-> {<<"Inode">>},
  compressExtendedAttributeName |-> {<<"id and str">>},
  decompressExtendedAttributeName |-> {<<"Text">>}]

Ext4FormatterReturns == [
  newExt4Formatter |-> Try({<<"CzExt4Formatter">>}),
  scanArchiveHeaders |-> Try({<<"size and items">>}),
  link |-> Try({<<"Void">>}),
  unlink |-> Try({<<"Void">>}),
  create |-> Try({<<"Void">>}),
  close |-> Try({<<"Void">>}),
  unpack |-> Try({<<"Void">>}),
  unpackReader |-> Try({<<"Void">>})]

Ext4UnpackerReturns == [
  unpackExt4 |-> Try({<<"Mount">>}),
  unpackExt4Archive |-> Try({<<"Void">>})]

\* Rust counts extended attributes and looks at none.
Ext4ReaderReads == [
  openExt4Reader |-> {Asks(<<"ext4Reader">>)},
  stat |-> {Asks(<<"inodeNumber">>), Asks(<<"inodeBytes">>)},
  listDirectory |-> {Asks(<<"strings">>)},
  readFile |-> {Asks(<<"bytes">>)},
  export |-> {Asks(<<>>)},
  readInlineExtendedAttributes |-> {Asks(<<"list">>)},
  readBlockExtendedAttributes |-> {Asks(<<"list">>)}]

ExtendedAttributeReads == [
  compressExtendedAttributeName |-> {Asks(<<"compressedName">>)},
  decompressExtendedAttributeName |-> {Asks(<<"text">>)}]

FileXattrsReads == [readFileXattrs |-> {Asks(<<"list">>)}]

InodeReads == [rootInode |-> {Asks(<<"inodeBytes">>)}]

Ext4FormatterReads == [
  newExt4Formatter |-> {Asks(<<"ext4Formatter">>)},
  scanArchiveHeaders |-> {Asks(<<"scanned">>)},
  link |-> {Asks(<<>>)},
  unlink |-> {Asks(<<>>)},
  create |-> {Asks(<<>>)},
  close |-> {Asks(<<>>)},
  unpack |-> {Asks(<<>>)},
  unpackReader |-> {Asks(<<>>)}]

Ext4UnpackerReads == [
  unpackExt4 |-> {Asks(<<"mount">>)},
  unpackExt4Archive |-> {Asks(<<>>)}]

Ext4Takes == [
  openExt4Reader |-> {"path"}, stat |-> {"path"}, listDirectory |-> {"path"},
  readFile |-> {"path", "count"}, export |-> {"path"}, readFileXattrs |-> {"count"},
  newExt4Formatter |-> {"path"}, scanArchiveHeaders |-> {"path"}, link |-> {"path"},
  unlink |-> {"path"}, create |-> {"path"}, unpack |-> {"path"}, unpackExt4 |-> {"path"},
  unpackExt4Archive |-> {"path"}]

Ext4Casts == [
  ext4Reader |-> {<<"CzExt4Reader">>},
  ext4Formatter |-> {<<"CzExt4Formatter">>},
  inodeNumber |-> {<<"number and Inode">>},
  inodeBytes |-> {<<"number and Inode">>, <<"Inode">>},
  compressedName |-> {<<"id and str">>},
  scanned |-> {<<"size and items">>}]

-----------------------------------------------------------------------------

ArchiveCallsReturns == [
  Archive |-> ArchiveWriterReturns @@ ArchiveReaderReturns,
  Ext4 |-> Ext4ReaderReturns @@ Ext4FormatterReturns @@ Ext4UnpackerReturns]

ArchiveCallsReads == [
  Archive |-> ArchiveWriterReads @@ TransactionReads @@ XattrFormatReads @@ WriteEntryReads
                @@ ArchiveReaderReads @@ EntryReaderReads,
  Ext4 |-> Ext4ReaderReads @@ ExtendedAttributeReads @@ FileXattrsReads @@ InodeReads
             @@ Ext4FormatterReads @@ Ext4UnpackerReads]

ArchiveCallsTakes == [Archive |-> ArchiveTakes, Ext4 |-> Ext4Takes]

ArchiveCallsCasts == ArchiveCasts @@ Ext4Casts
=============================================================================
