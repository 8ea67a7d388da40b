------------------------------- MODULE Inbox --------------------------------
(***************************************************************************)
(* The inbox of the frontend: how an uploaded file or a post becomes a     *)
(* Markdown document that a prompt names.                                  *)
(*   internal/feishufront/dispatcher_file.go   handleFileMessage, sweeps   *)
(*   internal/feishufront/dispatcher_post.go   handlePostMessage           *)
(*   internal/fileconvert/                     Convert, ConvertXlsx        *)
(*   internal/lark/rest.go                     DownloadResource            *)
(*                                                                         *)
(* Each message has a directory under the directory of its chat, with the  *)
(* raw upload and the document; the daily sweep removes directories by     *)
(* their age while messages are being handled.                             *)
(***************************************************************************)
EXTENDS Naturals, Sequences, FiniteSetsExt

CONSTANTS
    Messages,      \* uploads and posts of one chat
    Sources,       \* what a message may bring: its kind, its size, its parts
    MaxFileSize,   \* file_convert.max_file_size
    DownloadMax,   \* downloadMaxBytes
    MaxParts,      \* pptx_max_slides and xlsx_max_sheets; 0: no limit
    Retention,     \* file_convert.retention
    MaxAge,        \* bound on the day
    MaxMishaps     \* bound on calls that fail

(* The parts of a file are its body, its slides or its sheets: "text" or,  *)
(* when they cannot be parsed, "broken".  Those of a post are the sizes of *)
(* its images.                                                             *)
Source ==
    [kind : {"text"}, size : Nat, parts : {<< "text" >>}]
      \cup [kind : {"docx"}, size : Nat, parts : {<< "text" >>, << "broken" >>}]
      \cup [kind : {"pptx", "xlsx"}, size : Nat, parts : Seq({"text", "broken"})]
      \cup [kind : {"post"}, size : Nat, parts : Seq(Nat)]

(* With a larger MaxFileSize, which the configuration accepts, a download  *)
(* is cut at DownloadMax + 1 bytes and passes for the whole file.          *)
ASSUME InboxAssumption ==
    /\ MaxFileSize \in Nat /\ DownloadMax \in Nat /\ MaxFileSize <= DownloadMax
    /\ Retention \in Nat /\ MaxParts \in Nat /\ Sources \subseteq Source

VARIABLES
    source,     \* message -> what it brings
    step,       \* message -> where its handler stands
    dir,        \* the messages whose directory exists
    touched,    \* message -> modification time of its directory
    chatTime,   \* modification time of the chat's directory
    raw,        \* message -> bytes of the upload that were stored
    doc,        \* message -> the parts written so far, "mark" for a placeholder
    onDisk,     \* the messages whose document is in their directory
    images,     \* message -> the images stored beside its document
    prompted,   \* the messages a prompt was made for
    noted,      \* of these, the ones whose prompt says that sheets were left out
    sweep,      \* what the sweep has judged old: nothing, the chat, a message
    caught,     \* messages swept although their directory was not old
    day, mishaps

inboxVars == << source, step, dir, touched, chatTime, raw, doc, onDisk, images, prompted,
                noted, sweep, caught, day, mishaps >>

InboxStart ==
    /\ step = [m \in Messages |-> "new"] /\ dir = {} /\ touched = [m \in Messages |-> 0]
    /\ chatTime = 0 /\ raw = [m \in Messages |-> 0] /\ doc = [m \in Messages |-> << >>]
    /\ onDisk = {} /\ images = [m \in Messages |-> {}] /\ prompted = {} /\ noted = {}
    /\ sweep = {} /\ caught = {} /\ day = 0 /\ mishaps = 0

InboxInit == InboxStart /\ source \in [Messages -> Sources]

-----------------------------------------------------------------------------
Works == mishaps' = mishaps
Fails == mishaps < MaxMishaps /\ mishaps' = mishaps + 1
Advance(m, at) == step' = [step EXCEPT ![m] = at]
GiveNotice(m) == Advance(m, "done")
Touch(m) == touched' = [touched EXCEPT ![m] = day]

SweepKept == UNCHANGED << sweep, caught, day, chatTime, source >>

\* The handler up to the directory: without a route, with a file that has no
\* key or an extension that is not supported, or without a directory, the
\* user gets a notice and nothing is stored.
Begin(m, at) ==
    /\ step[m] = "new" /\ Works
    /\ \/ GiveNotice(m) /\ UNCHANGED << dir, touched, chatTime >>
       \/ Advance(m, at) /\ dir' = dir \cup {m} /\ Touch(m) /\ chatTime' = day
    /\ UNCHANGED << source, raw, doc, onDisk, images, prompted, noted, sweep, caught, day >>

BeginFile(m) == source[m].kind # "post" /\ Begin(m, "download")
BeginPost(m) == source[m].kind = "post" /\ Begin(m, "render")

DownloadFile(m) ==
    /\ step[m] = "download"
    /\ \/ Works /\ Advance(m, "save")
       \/ Fails /\ GiveNotice(m)
    /\ SweepKept
    /\ UNCHANGED << dir, touched, raw, doc, onDisk, images, prompted, noted >>

\* saveInboxFile through both limits; what went wrong or is too large is
\* removed again.
StoredBytes(size) == Min({size, DownloadMax + 1, MaxFileSize + 1})

SaveFile(m) ==
    /\ step[m] = "save"
    /\ \/ /\ m \in dir /\ StoredBytes(source[m].size) <= MaxFileSize
          /\ raw' = [raw EXCEPT ![m] = StoredBytes(source[m].size)]
          /\ Works /\ Advance(m, "convert")
       \/ /\ Works /\ (m \notin dir \/ StoredBytes(source[m].size) > MaxFileSize)
          /\ GiveNotice(m) /\ raw' = raw
       \/ Fails /\ GiveNotice(m) /\ raw' = raw
    /\ SweepKept
    /\ UNCHANGED << dir, touched, doc, onDisk, images, prompted, noted >>

\* The conversion creates the document beside the directory of the upload.
Creates(m, kind, at) ==
    /\ step[m] = "convert" /\ source[m].kind = kind /\ m \in dir
    /\ Touch(m) /\ onDisk' = onDisk \cup {m} /\ Advance(m, at) /\ Works
    /\ SweepKept /\ UNCHANGED << dir, raw, images, prompted, noted >>

Unreadable(m) == \E i \in DOMAIN source[m].parts : source[m].parts[i] = "broken"

\* A text is copied.
CopyText(m) == Creates(m, "text", "prompt") /\ doc' = [doc EXCEPT ![m] = source[m].parts]

\* A docx is rendered in memory and written at once.
RenderDocx(m) ==
    Creates(m, "docx", "prompt") /\ ~Unreadable(m) /\ doc' = [doc EXCEPT ![m] = source[m].parts]

\* Slides and sheets are written one by one into a document that exists from
\* the first.
OpenSlides(m) == Creates(m, "pptx", "write") /\ doc' = doc
OpenWorkbook(m) == Creates(m, "xlsx", "write") /\ doc' = doc

\* A docx without a readable document.xml, an upload that was swept, a budget
\* that is over or a file error: a notice, and no document is left.
ConvertFails(m) ==
    /\ step[m] = "convert" /\ GiveNotice(m)
    /\ \/ Fails
       \/ Works /\ m \notin dir
       \/ Works /\ source[m].kind = "docx" /\ Unreadable(m)
    /\ SweepKept /\ UNCHANGED << dir, touched, raw, doc, onDisk, images, prompted, noted >>

\* The parts that are converted.
Goal(m) == IF MaxParts = 0 THEN Len(source[m].parts)
           ELSE Min({Len(source[m].parts), MaxParts})
PartText(part) == IF part = "broken" THEN "mark" ELSE part

\* The next part, a placeholder for one that is broken, or the end.
Writes(m, kind) ==
    /\ step[m] = "write" /\ source[m].kind = kind /\ Works
    /\ \/ /\ Len(doc[m]) < Goal(m) /\ step' = step
          /\ doc' = [doc EXCEPT ![m] = Append(@, PartText(source[m].parts[Len(@) + 1]))]
       \/ Len(doc[m]) = Goal(m) /\ Advance(m, "prompt") /\ doc' = doc
    /\ SweepKept /\ UNCHANGED << dir, touched, raw, onDisk, images, prompted, noted >>

WriteSlide(m) == Writes(m, "pptx")
WriteSheet(m) == Writes(m, "xlsx")

\* Fault: the document that could not be written to its end is kept and named.
WriteBreaksOff(m) ==
    /\ step[m] = "write" /\ Fails /\ Advance(m, "prompt")
    /\ SweepKept /\ UNCHANGED << dir, touched, raw, doc, onDisk, images, prompted, noted >>

\* When the conversion runs out of time or a write fails the document is
\* removed.
WriteBreaks(m) ==
    /\ step[m] = "write" /\ Fails /\ GiveNotice(m)
    /\ Touch(m) /\ onDisk' = onDisk \ {m}
    /\ SweepKept /\ UNCHANGED << dir, raw, doc, images, prompted, noted >>

-----------------------------------------------------------------------------
\* materializeImage: the image is stored and referenced, or has a placeholder.
RenderImage(m) ==
    /\ step[m] = "render" /\ Len(doc[m]) < Len(source[m].parts)
    /\ LET i == Len(doc[m]) + 1
           n == StoredBytes(source[m].parts[i])
       IN  \/ /\ Works /\ m \in dir /\ n <= MaxFileSize /\ Touch(m)
              /\ images' = [images EXCEPT ![m] = @ \cup {[at |-> i, bytes |-> n]}]
              /\ doc' = [doc EXCEPT ![m] = Append(@, "image")]
           \/ /\ \/ Fails
                 \/ Works /\ (m \notin dir \/ n > MaxFileSize)
              /\ doc' = [doc EXCEPT ![m] = Append(@, "mark")]
              /\ UNCHANGED << images, touched >>
    /\ SweepKept
    /\ UNCHANGED << step, dir, raw, onDisk, prompted, noted >>

\* The rest of handlePostMessage: an empty post ends without a word, body.md
\* is written atomically.
WriteBody(m) ==
    /\ step[m] = "render" /\ Len(doc[m]) = Len(source[m].parts)
    /\ \/ /\ Works /\ m \in dir /\ Touch(m) /\ onDisk' = onDisk \cup {m} /\ Advance(m, "prompt")
       \/ /\ \/ Fails
             \/ Works /\ (m \notin dir \/ source[m].parts = << >>)
          /\ GiveNotice(m) /\ UNCHANGED << touched, onDisk >>
    /\ SweepKept
    /\ UNCHANGED << dir, raw, doc, images, prompted, noted >>

\* The prompt that names the document; a template that cannot be executed is
\* a notice.  The prompt of a workbook says when sheets were left out.
MakePrompt(m) ==
    /\ step[m] = "prompt"
    /\ \/ /\ Works /\ prompted' = prompted \cup {m}
          /\ noted' = IF source[m].kind = "xlsx" /\ Goal(m) < Len(source[m].parts)
                      THEN noted \cup {m} ELSE noted
       \/ Fails /\ UNCHANGED << prompted, noted >>
    /\ Advance(m, "done")
    /\ SweepKept
    /\ UNCHANGED << dir, touched, raw, doc, onDisk, images >>

-----------------------------------------------------------------------------
\* PruneInbox.  A directory is judged by its modification time, the chat's
\* before those in it, and removed afterwards with all that is in it then.
Old(t) == t + Retention < day

SweepJudges ==
    /\ sweep = {}
    /\ \/ dir # {} /\ Old(chatTime) /\ sweep' = Messages
       \/ ~Old(chatTime) /\ \E m \in dir : Old(touched[m]) /\ sweep' = {m}
    /\ UNCHANGED << source, step, dir, touched, chatTime, raw, doc, onDisk, images, prompted,
                    noted, caught, day, mishaps >>

SweepRemoves ==
    /\ sweep # {} /\ sweep' = {}
    /\ caught' = caught \cup {m \in sweep \cap dir : ~Old(touched[m])}
    /\ dir' = dir \ sweep /\ onDisk' = onDisk \ sweep
    /\ images' = [m \in Messages |-> IF m \in sweep THEN {} ELSE images[m]]
    /\ chatTime' = day
    /\ UNCHANGED << source, step, touched, raw, doc, prompted, noted, day, mishaps >>

\* A handler ends, by its timeouts, well within the retention.
InboxTick ==
    /\ day < MaxAge /\ day' = day + 1
    /\ \A m \in dir : step[m] # "done" => touched[m] + Retention >= day'
    /\ UNCHANGED << source, step, dir, touched, chatTime, raw, doc, onDisk, images, prompted,
                    noted, sweep, caught, mishaps >>

InboxNext ==
    \/ \E m \in Messages :
           \/ BeginFile(m) \/ DownloadFile(m) \/ SaveFile(m)
           \/ CopyText(m) \/ RenderDocx(m) \/ OpenSlides(m) \/ OpenWorkbook(m) \/ ConvertFails(m)
           \/ WriteSlide(m) \/ WriteSheet(m) \/ WriteBreaks(m)
           \/ BeginPost(m) \/ RenderImage(m) \/ WriteBody(m) \/ MakePrompt(m)
    \/ SweepJudges \/ SweepRemoves \/ InboxTick

InboxSpec == InboxInit /\ [][InboxNext]_inboxVars

-----------------------------------------------------------------------------
\* A prompt never names less than it seems to: until the retention is over,
\* the document is on disk with a text or a placeholder for every part that
\* was asked for, made from an upload that was stored whole; every image it
\* refers to is stored whole; and sheets left out are mentioned.  The one
\* exception is a directory made in the moment between the sweep's look at
\* the chat's directory and its removal (handleFileMessage,
\* handlePostMessage, convertPptx, convertXlsx, PruneInbox).
PromptedIsWhole ==
    \A m \in prompted \ caught : ~Old(touched[m]) =>
        /\ m \in onDisk
        /\ IF source[m].kind = "post"
           THEN /\ Len(doc[m]) = Len(source[m].parts)
                /\ \A i \in DOMAIN doc[m] : doc[m][i] = "image" =>
                       [at |-> i, bytes |-> source[m].parts[i]] \in images[m]
           ELSE /\ raw[m] = source[m].size
                /\ doc[m] = [i \in 1..Goal(m) |-> PartText(source[m].parts[i])]
                /\ source[m].kind = "xlsx" /\ Goal(m) < Len(source[m].parts) => m \in noted
=============================================================================
