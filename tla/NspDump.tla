------------------------------ MODULE NspDump ------------------------------
(***************************************************************************)
(* Dumping a title as a Nintendo Submission Package: nspThreadFunc of       *)
(* code_templates/nxdt_rw_poc.c, which patches the title's NCAs while it    *)
(* sends them, renames what a patch gave a new hash and sends the package's *)
(* header last, and saveNintendoSubmissionPackage, which creates the        *)
(* thread, polls it and lets the user cancel.  The parts of core/nca.c,     *)
(* cnmt.c, nacp.c and pfs.c the thread relies on are modelled with it.      *)
(*                                                                          *)
(* NCAs are numbered as the thread keeps them, the meta NCA last.  An NCA   *)
(* is a sequence of blocks, and SHA-256 is taken to be without collisions:  *)
(* a hash, and the content ID cut from it, is what was hashed.  All other   *)
(* entries of the package, and its header, count as one block.              *)
(***************************************************************************)
EXTENDS Integers, Sequences, FiniteSets

CONSTANTS
  Type,          \* the type of each NCA, a sequence: its last element is "meta"
  Blocks,        \* the number of blocks of each
  HeaderBlocks,  \* the blocks each NCA's header and FS headers end in
  PatchBlocks,   \* the blocks a context patch of each ends in, one per hash region or level
  Icons,         \* the number of icons of each
  Protected,     \* the NCAs with a rights ID
  Faults         \* what the environment may do: a subset of FaultKinds

FaultKinds == {"spawn", "setup", "read", "write", "cancel"}

N == Len(Type)
Meta == N
Ncas == 1..N
Contents == 1..(N - 1)
Generating == {"program", "control", "legal"}   \* types with a content type context

ASSUME NspAssumption ==
  /\ N > 0
  /\ Type \in Seq(Generating \cup {"data", "meta"})
  /\ \A i \in Ncas : Type[i] = "meta" <=> i = Meta
  /\ Blocks \in [Ncas -> Nat \ {0}] /\ Icons \in [Ncas -> Nat]
  /\ HeaderBlocks \in [Ncas -> SUBSET Nat] /\ PatchBlocks \in [Ncas -> SUBSET Nat]
  /\ \A i \in Ncas : HeaderBlocks[i] \cup PatchBlocks[i] \subseteq 1..Blocks[i]
  /\ \A i \in Ncas : HeaderBlocks[i] # {} /\ PatchBlocks[i] # {}
  /\ Protected \subseteq Contents
  /\ Faults \subseteq FaultKinds

VARIABLES
  opts,                    \* the menu's options, the output, and whether the title's ticket is there
  tpc, mpc,                \* where nspThreadFunc and saveNintendoSubmissionPackage are
  nca, block, icon,        \* the thread's loop counters
  confirmed,               \* no_titlekey_confirmation
  ctx,                     \* the NCAs with a content_type_ctx
  dirty,                   \* the NCAs whose plaintext header was changed
  patch,                   \* the NCAs whose content_type_ctx_patch is set
  headerWritten,           \* header_written of the NCA being sent
  dirtyHeader,             \* dirty_header
  contentId, hash,         \* content_id and hash of each NCA's context
  records,                 \* the CNMT's content records: the hash of each content
  metaRecords,             \* the records the patch of the meta NCA was generated from
  names,                   \* the content ID each entry of pfs_img_ctx is named after
  sent,                    \* the blocks of each NCA that were sent
  stored,                  \* what was sent of the other entries: entry index to value
  header,                  \* the names of the header that was sent last, <<>> before
  lost,                    \* history: a local fwrite has stored less than it was given
  total, written,          \* NspThreadData: total_size, data_written
  error, cancelled,        \* NspThreadData: error, transfer_cancelled
  package,                 \* the file, or the host's
  success, result          \* what the thread, and then the main thread, make of it

contentVars == <<ctx, dirty, patch, headerWritten, dirtyHeader, contentId, hash>>
cnmtVars == <<records, metaRecords>>
outputVars == <<sent, stored, header, lost, package>>
sharedVars == <<total, written, error, cancelled>>
loopVars == <<nca, block, icon, confirmed>>
vars == <<opts, tpc, mpc, loopVars, contentVars, cnmtVars, names, outputVars, sharedVars,
          success, result>>

-----------------------------------------------------------------------------
\* Blocks, hashes and the package's entries

CleanBlock(i, k) == [nca |-> i, at |-> k, header |-> FALSE, patch |-> FALSE, records |-> <<>>]
Clean(i) == [k \in 1..Blocks[i] |-> CleanBlock(i, k)]
Zeros == <<>>   \* NcaContext.hash before ncaUpdateContentIdAndHash

\* The entries nspThreadFunc adds to pfs_img_ctx: each has a kind and the NCA it belongs to.
Entry(kind, i) == [kind |-> kind, nca |-> i]
IconEntries(i) == IF Type[i] = "control" THEN [j \in 1..Icons[i] |-> Entry("icon", i)] ELSE <<>>
CtxEntries(i, c) == IF i \in c THEN Append(IconEntries(i), Entry("xml", i)) ELSE <<>>

\* The NCAs without titlekey_retrieved: all NCAs of a title share one ticket.
Keyless == IF opts.ticket THEN {} ELSE Protected

\* retrieve_tik_cert
TicketKept == ~opts.removeCrypto /\ opts.ticket /\ Protected # {}

\* The entries of the contexts in c, in the order of their NCAs: those of the first i, for every i.
CtxEntriesUpTo(c) ==
  LET entries[i \in 0..(N - 1)] == IF i = 0 THEN <<>> ELSE entries[i - 1] \o CtxEntries(i, c)
  IN  entries

Layout == [i \in Ncas |-> Entry("nca", i)]
          \o (IF opts.authoring THEN <<Entry("cnmt", Meta)>> \o CtxEntriesUpTo(ctx)[N - 1] ELSE <<>>)
          \o (IF TicketKept THEN <<Entry("tik", 0), Entry("cert", 0)>> ELSE <<>>)

\* content_type_ctx_data_idx: the entry added first for the content type context of an NCA.
DataIdx(i) == CHOOSE k \in DOMAIN Layout :
                /\ Layout[k].nca = i /\ Layout[k].kind # "nca"
                /\ \A l \in 1..(k - 1) : Layout[l].nca # i \/ Layout[l].kind = "nca"

\* nsp_size: the header, the NCAs' blocks and one for each other entry.
BlocksUpTo[i \in 0..N] == IF i = 0 THEN 0 ELSE BlocksUpTo[i - 1] + Blocks[i]
NspSize == 1 + BlocksUpTo[N] + (Len(Layout) - N)

-----------------------------------------------------------------------------
Options == [usb : BOOLEAN, setDownload : BOOLEAN, removeCrypto : BOOLEAN, patchNacp : BOOLEAN,
            authoring : BOOLEAN, ticket : BOOLEAN]

\* saveNintendoSubmissionPackage ignores what utilsCreateThread returns.
Init == /\ opts \in Options
        /\ tpc \in {"start"} \cup (IF "spawn" \in Faults THEN {"none"} ELSE {})
        /\ mpc = "wait"
        /\ nca = 1 /\ block = 1 /\ icon = 0 /\ confirmed = FALSE
        /\ ctx = {} /\ dirty = {} /\ patch = {} /\ headerWritten = FALSE /\ dirtyHeader = FALSE
        /\ contentId = [i \in Ncas |-> Clean(i)]
        /\ hash = [i \in Ncas |-> Zeros]
        /\ records = [i \in Contents |-> Clean(i)]
        /\ metaRecords = <<>>
        /\ names = <<>>
        /\ sent = [i \in Ncas |-> <<>>] /\ stored = <<>> /\ header = <<>> /\ lost = FALSE
        /\ total = 0 /\ written = 0 /\ error = FALSE /\ cancelled = FALSE
        /\ package = "none" /\ success = FALSE /\ result = "running"

GoTo(pc) == tpc' = pc

\* Every failure of nspThreadFunc leaves for its end label.
Abandon == /\ GoTo("end")
           /\ UNCHANGED <<opts, mpc, loopVars, contentVars, cnmtVars, names, outputVars, sharedVars,
                          success, result>>

-----------------------------------------------------------------------------
\* nspThreadFunc: contexts and patches

\* Memory, output path, free space, the meta NCA and the CNMT.
ThreadStarts ==
  /\ tpc = "start"
  /\ \/ "setup" \in Faults /\ Abandon
     \/ /\ GoTo("context")
        /\ UNCHANGED <<opts, mpc, loopVars, contentVars, cnmtVars, names, outputVars, sharedVars,
                       success, result>>

\* Whether the context of an NCA is initialized for the options chosen.
CtxWanted(i) == \/ Type[i] \in {"program", "legal"} /\ opts.authoring
                \/ Type[i] = "control" /\ (opts.patchNacp \/ opts.authoring)

\* An NCA has no titlekey: the user may go on, and that is asked once.
AskTitlekey ==
  /\ tpc = "context" /\ nca \in Contents
  /\ nca \in Keyless /\ ~confirmed
  /\ \/ Abandon
     \/ /\ confirmed' = TRUE
        /\ nca' = nca + 1
        /\ UNCHANGED <<opts, tpc, mpc, block, icon, contentVars, cnmtVars, names, outputVars,
                       sharedVars, success, result>>

\* The changes to the header of an NCA: distribution type, titlekey crypto, hash of a patched section.
HeaderChanges(i) == \/ opts.setDownload
                    \/ opts.removeCrypto /\ i \in Protected \ Keyless
                    \/ Type[i] = "control" /\ opts.patchNacp

\* ncaInitializeContext and what follows it; a context needs the NCA's plaintext.
InitContext ==
  /\ tpc = "context" /\ nca \in Contents
  /\ nca \in Keyless => confirmed
  /\ \/ /\ "setup" \in Faults \/ (CtxWanted(nca) /\ nca \in Keyless)
        /\ Abandon
     \/ /\ ~(CtxWanted(nca) /\ nca \in Keyless)
        /\ ctx' = IF CtxWanted(nca) THEN ctx \cup {nca} ELSE ctx
        /\ dirty' = IF HeaderChanges(nca) THEN dirty \cup {nca} ELSE dirty
        /\ patch' = IF Type[nca] = "control" /\ opts.patchNacp THEN patch \cup {nca} ELSE patch
        /\ nca' = nca + 1
        /\ UNCHANGED <<opts, tpc, mpc, block, icon, confirmed, headerWritten, dirtyHeader, contentId,
                       hash, cnmtVars, names, outputVars, sharedVars, success, result>>

\* The first CNMT XML, ticket and certificates, and the entries: from here on their sizes are fixed.
BuildLayout ==
  /\ tpc = "context" /\ nca = Meta
  /\ \/ "setup" \in Faults /\ Abandon
     \/ /\ GoTo("announce")
        /\ names' = [k \in DOMAIN Layout |-> IF Layout[k].nca = 0 THEN Zeros
                                             ELSE contentId[Layout[k].nca]]
        /\ nca' = 1
        /\ UNCHANGED <<opts, mpc, block, icon, confirmed, contentVars, cnmtVars, outputVars,
                       sharedVars, success, result>>

\* usbSendNspProperties, or the local file of the full size with a placeholder header.  A
\* concatenation file that was created and cannot be opened stays, empty.
Announce ==
  /\ tpc = "announce"
  /\ \/ /\ "setup" \in Faults
        /\ GoTo("end")
        /\ package' \in IF opts.usb THEN {"none"} ELSE {"none", "empty"}
        /\ UNCHANGED total
     \/ /\ GoTo("startNca")
        /\ package' = "open"
        /\ total' = NspSize
  /\ UNCHANGED <<opts, mpc, loopVars, contentVars, cnmtVars, names, sent, stored, header, lost,
                 written, error, cancelled, success, result>>

-----------------------------------------------------------------------------
\* nspThreadFunc: the NCAs

\* What a failed call of the USB interface leaves: the interface has reset its transfer, so the
\* cancellation that follows is not sent, and the host, or the session, has given the file up.
UsbFails == /\ opts.usb /\ "write" \in Faults
            /\ GoTo("end")
            /\ package' = "abandoned"
            /\ UNCHANGED <<opts, mpc, loopVars, contentVars, cnmtVars, names, sent, stored, header,
                           lost, sharedVars, success, result>>

\* cnmtGenerateNcaPatch: only if the records are no longer the ones the meta NCA holds.
RecordsChanged == records # [i \in Contents |-> Clean(i)]
MetaPatched == nca = Meta /\ RecordsChanged

StartNca ==
  /\ tpc = "startNca" /\ nca \in Ncas
  /\ \/ nca = Meta /\ "setup" \in Faults /\ Abandon
     \/ UsbFails
     \/ /\ patch' = IF MetaPatched THEN patch \cup {Meta} ELSE patch
        /\ dirty' = IF MetaPatched THEN dirty \cup {Meta} ELSE dirty
        /\ metaRecords' = IF MetaPatched THEN records ELSE metaRecords
        /\ dirtyHeader' = (nca \in dirty')
        /\ headerWritten' = FALSE
        /\ block' = 1
        /\ GoTo("nextBlock")
        /\ UNCHANGED <<opts, mpc, nca, icon, confirmed, ctx, contentId, hash, records, names,
                       outputVars, sharedVars, success, result>>

\* A mutant, and the end of the loop over the blocks.
OneBlockMore == block > Blocks[nca] + 1
NoBlockLeft == block > Blocks[nca]

\* The head of the loop over the blocks: transfer_cancelled is read under the mutex.
NextBlock ==
  /\ tpc = "nextBlock"
  /\ GoTo(CASE NoBlockLeft -> "finishNca"
            [] ~NoBlockLeft /\ cancelled -> "end"
            [] OTHER -> "block")
  /\ UNCHANGED <<opts, mpc, loopVars, contentVars, cnmtVars, names, outputVars, sharedVars,
                 success, result>>

\* ncaWriteEncryptedHeaderDataToMemoryBuffer and the context's patch: a piece is written once
\* its last block is.
IsLastOf(k, pieces) == \A p \in pieces : p <= k
HeaderApplied == dirtyHeader /\ ~headerWritten /\ block \in HeaderBlocks[nca]
PatchApplied == dirtyHeader /\ nca \in patch /\ block \in PatchBlocks[nca]

SentBlock == [nca |-> nca, at |-> block, header |-> HeaderApplied, patch |-> PatchApplied,
              records |-> IF nca = Meta /\ PatchApplied THEN metaRecords ELSE <<>>]

\* A mutant, and dirty_header after a block.
StillDirtyForHeader(hdrWritten, patched) == ~hdrWritten
StillDirty(hdrWritten, patched) == ~hdrWritten \/ patched

\* Reading fails, and so does the check of the clean hash at the last block.
SendBlock ==
  /\ tpc = "block"
  /\ \/ "read" \in Faults /\ Abandon
     \/ UsbFails
     \/ /\ sent' = [sent EXCEPT ![nca] = Append(@, SentBlock)]
        /\ headerWritten' = (headerWritten \/ (dirtyHeader /\ IsLastOf(block, HeaderBlocks[nca])))
        /\ patch' = IF dirtyHeader /\ IsLastOf(block, PatchBlocks[nca]) THEN patch \ {nca} ELSE patch
        /\ dirtyHeader' = (dirtyHeader /\ StillDirty(headerWritten', nca \in patch'))
        /\ lost' \in IF ~opts.usb /\ "write" \in Faults THEN {lost, TRUE} ELSE {lost}
        /\ block' = block + 1
        /\ written' = written + 1
        /\ GoTo("nextBlock")
        /\ UNCHANGED <<opts, mpc, nca, icon, confirmed, ctx, dirty, contentId, hash, cnmtVars, names,
                       stored, header, package, total, error, cancelled, success, result>>

\* After the last NCA: the CNMT XML and the data of the contexts, or the ticket.
AfterNca == CASE nca < Meta -> "startNca"
              [] nca = Meta /\ opts.authoring -> "cnmtXml"
              [] OTHER -> "ticket"

\* A mutant: the records keep the hash the content had.
KeepRecord(i, h) == records
UpdateRecord(i, h) == [records EXCEPT ![i] = h]   \* cnmtUpdateContentInfo

\* A patched NCA has a new hash, and with it a new content ID, record and entry name.
NcaFinished ==
  /\ tpc = "finishNca"
  /\ IF sent[nca] # Clean(nca)
       THEN /\ contentId' = [contentId EXCEPT ![nca] = sent[nca]]
            /\ hash' = [hash EXCEPT ![nca] = sent[nca]]
            /\ records' = IF nca = Meta THEN records ELSE UpdateRecord(nca, sent[nca])
            /\ names' = [names EXCEPT ![nca] = sent[nca]]
       ELSE UNCHANGED <<contentId, hash, records, names>>
  /\ GoTo(AfterNca)
  /\ nca' = IF nca < Meta THEN nca + 1 ELSE 1
  /\ UNCHANGED <<opts, mpc, block, icon, confirmed, ctx, dirty, patch, headerWritten, dirtyHeader,
                 metaRecords, outputVars, sharedVars, success, result>>

\* The update of the record fails, or that of the entry name: what one of them had changed by then is
\* freed without being read again, and left as it was here.
FinishNca == \/ NcaFinished
             \/ /\ tpc = "finishNca" /\ sent[nca] # Clean(nca) /\ "setup" \in Faults
                /\ Abandon

-----------------------------------------------------------------------------
\* nspThreadFunc: the other entries

\* Sends entry k, announced under the name it has at that time.
Send(k, value) ==
  /\ stored' = [j \in DOMAIN stored \cup {k} |-> IF j = k THEN value ELSE stored[j]]
  /\ lost' \in IF ~opts.usb /\ "write" \in Faults THEN {lost, TRUE} ELSE {lost}
  /\ written' = written + 1
  /\ UNCHANGED <<opts, mpc, confirmed, block, contentVars, cnmtVars, sent, header, package, total,
                 error, cancelled, success, result>>

\* pfsUpdateEntryNameFromImageContext
Rename(k, i) == names' = [names EXCEPT ![k] = contentId[i]]

\* What the CNMT XML says of each NCA: its content ID and its hash.
CnmtXml == [i \in Ncas |-> <<contentId[i], hash[i]>>]

SendCnmtXml ==
  /\ tpc = "cnmtXml"
  /\ \/ "setup" \in Faults /\ Abandon
     \/ UsbFails
     \/ /\ Send(DataIdx(Meta), CnmtXml)
        /\ Rename(DataIdx(Meta), Meta)
        /\ GoTo("ctxData")
        /\ UNCHANGED <<nca, icon>>

SkipCtxData ==
  /\ tpc = "ctxData" /\ nca \notin ctx
  /\ GoTo(IF nca < Meta THEN "ctxData" ELSE "ticket")
  /\ nca' = IF nca < Meta THEN nca + 1 ELSE nca
  /\ UNCHANGED <<opts, mpc, block, icon, confirmed, contentVars, cnmtVars, names, outputVars,
                 sharedVars, success, result>>

SendIcon ==
  /\ tpc = "ctxData" /\ nca \in ctx /\ icon < Len(IconEntries(nca))
  /\ \/ UsbFails
     \/ /\ Send(DataIdx(nca) + icon, Entry("icon", nca))
        /\ Rename(DataIdx(nca) + icon, nca)
        /\ icon' = icon + 1
        /\ UNCHANGED <<tpc, nca>>

\* A mutant, and the index the XML of a context ends up at: data_idx after the icons.
XmlAtFirst(i) == DataIdx(i)
XmlIdx(i) == DataIdx(i) + Len(IconEntries(i))

SendXml ==
  /\ tpc = "ctxData" /\ nca \in ctx /\ icon = Len(IconEntries(nca))
  /\ \/ UsbFails
     \/ /\ Send(XmlIdx(nca), Entry("xml", nca))
        /\ Rename(XmlIdx(nca), nca)
        /\ icon' = 0
        /\ nca' = nca + 1
        /\ UNCHANGED tpc

\* The last two entries but one, and but none.
SendTicket ==
  /\ tpc = "ticket" /\ TicketKept
  /\ \/ UsbFails
     \/ /\ Send(Len(Layout) - 1, Entry("tik", 0))
        /\ GoTo("cert")
        /\ UNCHANGED <<names, nca, icon>>

SendCert ==
  /\ tpc = "cert"
  /\ \/ UsbFails
     \/ /\ Send(Len(Layout), Entry("cert", 0))
        /\ GoTo("header")
        /\ UNCHANGED <<names, nca, icon>>

NoTicket ==
  /\ tpc = "ticket" /\ ~TicketKept
  /\ GoTo("header")
  /\ UNCHANGED <<opts, mpc, loopVars, contentVars, cnmtVars, names, outputVars, sharedVars,
                 success, result>>

\* usbSendNspHeader, or the placeholder overwritten.
SendHeader ==
  /\ tpc = "header"
  /\ \/ "setup" \in Faults /\ Abandon
     \/ UsbFails
     \/ /\ header' = names
        /\ package' = "closed"
        /\ lost' \in IF ~opts.usb /\ "write" \in Faults THEN {lost, TRUE} ELSE {lost}
        /\ written' = written + 1
        /\ success' = TRUE
        /\ GoTo("end")
        /\ UNCHANGED <<opts, mpc, loopVars, contentVars, cnmtVars, names, sent, stored, total, error,
                       cancelled, result>>

\* The end label: the error is told under the mutex, then the file is removed or the host told.
\* A mutant, and whether a failure is told.
OnlyOnceAnnounced == ~success /\ ~cancelled /\ total > 0
FailureTold == ~success /\ ~cancelled

ThreadTells ==
  /\ tpc = "end"
  /\ error' = (error \/ FailureTold)
  /\ GoTo("clean")
  /\ UNCHANGED <<opts, mpc, loopVars, contentVars, cnmtVars, names, outputVars, total, written,
                 cancelled, success, result>>

\* A mutant, and the package a dump that failed leaves.
KeepCancelled == IF package = "open" /\ error THEN "discarded" ELSE package
Discard == IF package = "open" THEN "discarded" ELSE package

ThreadCleans ==
  /\ tpc = "clean"
  /\ package' = IF success THEN package ELSE Discard
  /\ GoTo("none")
  /\ UNCHANGED <<opts, mpc, loopVars, contentVars, cnmtVars, names, sent, stored, header, lost,
                 sharedVars, success, result>>

Prepares == ThreadStarts \/ AskTitlekey \/ InitContext \/ BuildLayout \/ Announce
SendsNcas == StartNca \/ NextBlock \/ SendBlock \/ FinishNca
SendsEntries == \/ SendCnmtXml \/ SkipCtxData \/ SendIcon \/ SendXml
                \/ SendTicket \/ SendCert \/ NoTicket \/ SendHeader
nspThreadFunc == Prepares \/ SendsNcas \/ SendsEntries \/ ThreadTells \/ ThreadCleans

-----------------------------------------------------------------------------
\* saveNintendoSubmissionPackage

MainGoes(pc) == mpc' = pc

\* total_size and error are polled without the mutex.
MainSeesSize ==
  /\ mpc = "wait" /\ (total # 0 \/ error)
  /\ MainGoes(IF error THEN "refused" ELSE "loop")
  /\ UNCHANGED <<opts, tpc, loopVars, contentVars, cnmtVars, names, outputVars, sharedVars,
                 success, result>>

\* B was held for three seconds, or the applet is being closed: decided on sizes read before.
MainDecidesToCancel ==
  /\ mpc = "loop" /\ written < total /\ ~error /\ "cancel" \in Faults
  /\ MainGoes("cancel")
  /\ UNCHANGED <<opts, tpc, loopVars, contentVars, cnmtVars, names, outputVars, sharedVars,
                 success, result>>

MainCancels ==
  /\ mpc = "cancel"
  /\ cancelled' = TRUE
  /\ MainGoes("join")
  /\ UNCHANGED <<opts, tpc, loopVars, contentVars, cnmtVars, names, outputVars, total, written,
                 error, success, result>>

MainLeaves ==
  /\ mpc = "loop" /\ (written >= total \/ error)
  /\ MainGoes("join")
  /\ UNCHANGED <<opts, tpc, loopVars, contentVars, cnmtVars, names, outputVars, sharedVars,
                 success, result>>

MainJoins ==
  /\ mpc \in {"join", "refused"} /\ tpc = "none"
  /\ MainGoes("done")
  /\ result' = CASE error -> "error" [] ~error /\ cancelled -> "cancelled" [] OTHER -> "success"
  /\ UNCHANGED <<opts, tpc, loopVars, contentVars, cnmtVars, names, outputVars, sharedVars, success>>

Main == MainSeesSize \/ MainDecidesToCancel \/ MainCancels \/ MainLeaves \/ MainJoins

Next == nspThreadFunc \/ Main

\* Both threads run; the user answers a question and never has to cancel.
Fairness == /\ WF_vars(nspThreadFunc)
            /\ WF_vars(MainSeesSize \/ MainCancels \/ MainLeaves \/ MainJoins)

Spec == Init /\ [][Next]_vars /\ Fairness

-----------------------------------------------------------------------------
\* Properties

ThreadPcs == {"none", "start", "context", "announce", "startNca", "nextBlock", "block",
              "finishNca", "cnmtXml", "ctxData", "ticket", "cert", "header", "end", "clean"}

\* The values the thread's counters, flags and verdicts keep to, NspThreadData's fields among them.
ThreadTypes == /\ tpc \in ThreadPcs /\ mpc \in {"wait", "refused", "loop", "cancel", "join", "done"}
               /\ package \in {"none", "empty", "open", "closed", "discarded", "abandoned"}
               /\ result \in {"running", "success", "error", "cancelled"}

CounterTypes == /\ nca \in Ncas /\ block \in Nat \ {0}
                /\ tpc \in {"nextBlock", "block", "finishNca"} => block <= Blocks[nca] + 1
                /\ icon \in Nat /\ total \in Nat /\ written \in Nat
                /\ ctx \subseteq Contents /\ dirty \subseteq Ncas /\ patch \subseteq Ncas

FlagTypes == /\ opts \in Options /\ confirmed \in BOOLEAN
             /\ headerWritten \in BOOLEAN /\ dirtyHeader \in BOOLEAN /\ lost \in BOOLEAN
             /\ error \in BOOLEAN /\ cancelled \in BOOLEAN /\ success \in BOOLEAN

TypeOK == ThreadTypes /\ CounterTypes /\ FlagTypes

\* The records the meta NCA carries, as it was sent.
SentRecords == IF \E k \in DOMAIN sent[Meta] : sent[Meta][k].patch THEN metaRecords
               ELSE [i \in Contents |-> Clean(i)]

\* A dump reported as successful is a package that agrees with itself, although its NCAs were
\* patched while they were sent and its names and records changed meanwhile: the header names each
\* NCA by the hash of what was sent of it and each other entry by its NCA, every entry holds its own
\* data, the CNMT that was sent lists the contents that were sent, and the sizes add up.
PackageConsistent ==
  result = "success" =>
    /\ success /\ package = "closed" /\ written = total /\ total = NspSize
    /\ \A i \in Ncas : header[i] = sent[i]
    /\ \A i \in Contents : SentRecords[i] = sent[i]
    /\ \A k \in (N + 1)..Len(Layout) :
         /\ Layout[k].nca # 0 => header[k] = sent[Layout[k].nca]
         /\ Layout[k].kind # "cnmt" => stored[k] = Layout[k]
         /\ Layout[k].kind = "cnmt" => \A i \in Ncas : stored[k][i][1] = sent[i]

\* No piece of a patch is left out by the flags that end the patching of an NCA early: in a package
\* that was completed, every block a header or a context patch touches was sent patched, and no other.
PatchesComplete ==
  success => \A i \in Ncas : \A k \in 1..Blocks[i] :
    /\ sent[i][k].header = (i \in dirty /\ k \in HeaderBlocks[i])
    /\ sent[i][k].patch = (/\ k \in PatchBlocks[i]
                           /\ \/ i = Meta /\ metaRecords # <<>>
                              \/ i \in ctx /\ Type[i] = "control" /\ opts.patchNacp)

\* Whatever failed, and whenever the user cancelled, the thread leaves no package that looks like one
\* being written: it is removed, or the host is told, unless the host is lost or dropped it itself.
FailureSettled == /\ tpc = "none" => package # "open"
                  /\ tpc = "none" /\ success => package = "closed"
                  /\ package = "closed" => success

\* A dump whose thread was created ends: the failure of any step reaches the main thread, which waits
\* for a size first and for the bytes written later.
NspDumpEnds == (tpc # "none") ~> (mpc = "done")

\* nca.c:205 calls the hash of a context a placeholder that has to be calculated; the CNMT XML that is
\* sent with the package should hold none.
XmlHashesKnown == \A k \in DOMAIN stored :
  Layout[k].kind = "cnmt" => \A i \in Ncas : stored[k][i][2] # Zeros

\* nxdt_rw_poc.c:6241 tells the user that going on without a titlekey disables NCA modifications.
KeylessUnmodified == confirmed => dirty \cap Keyless = {}
=============================================================================
