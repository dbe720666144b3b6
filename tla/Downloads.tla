----------------------------- MODULE Downloads -----------------------------
(***************************************************************************)
(* Exports downloaded into the directory of a profile: streamed to a file,  *)
(* unpacked when it is an archive, listed, read and served over HTTP.       *)
(* Downloads overlap, also into one file; a file says which downloads have   *)
(* opened it for writing since it was made.                                *)
(***************************************************************************)
EXTENDS Integers

CONSTANTS Downloads, DlProfiles, NoProfile,
          Archives,      \* names that end in .gz
          Plain,         \* other names
          Unpacked,      \* archive -> the name without .gz
          MaxSize        \* AMAZON_ADS_DOWNLOAD_MAX_FILE_SIZE, in chunks

ASSUME DownloadsAssumption ==
    /\ Archives \cap Plain = {} /\ Unpacked \in [Archives -> Plain]
    /\ NoProfile \notin DlProfiles
    /\ MaxSize \in Nat

FileNames == Archives \cup Plain
Paths == DlProfiles \X FileNames
NoPath == <<>>
Absent == [openers |-> {}, size |-> 0]

DownloadStages ==
    {"new", "streaming", "received", "abandoned", "saved", "done", "failed", "aborted"}

VARIABLES
    active,     \* the active profile of the session
    file,       \* path -> who opened it and its size, or Absent
    progress,   \* download -> where it is
    path,       \* download -> the path it writes
    result,     \* download -> file_path of its answer
    handle,     \* download -> its open file is still the one at its path
    arrived     \* download -> chunks so far

dlVars == <<active, file, progress, path, result, handle, arrived>>

\* The sizes an archive unpacks to: more than it had, and possibly too much.
UnpackedSizes == {1, MaxSize + 1}

\* Types; nothing that is received is written beyond the limit.
DownloadsTypeOK ==
    /\ active \in DlProfiles \cup {NoProfile}
    /\ file \in [Paths -> [openers : SUBSET Downloads, size : 0..(MaxSize + 1)]]
    /\ \A q \in Paths : q[2] \in Archives => file[q].size <= MaxSize
    /\ progress \in [Downloads -> DownloadStages]
    /\ path \in [Downloads -> Paths \cup {NoPath}]
    /\ result \in [Downloads -> Paths \cup {NoPath}]
    /\ handle \in [Downloads -> BOOLEAN]
    /\ arrived \in [Downloads -> 0..(MaxSize + 1)]

DownloadsInit ==
    /\ active \in DlProfiles \cup {NoProfile}
    /\ file = [p \in Paths |-> Absent]
    /\ progress = [d \in Downloads |-> "new"]
    /\ path = [d \in Downloads |-> NoPath]
    /\ result = [d \in Downloads |-> NoPath]
    /\ handle = [d \in Downloads |-> FALSE]
    /\ arrived = [d \in Downloads |-> 0]

\* set_active_profile, by the same session.
SetProfile(p) ==
    /\ active # p /\ active' = p
    /\ UNCHANGED <<file, progress, path, result, handle, arrived>>

-----------------------------------------------------------------------------
(* download_export.                                                        *)

\* Where an export of the active profile goes: the name is that of the header, of
\* the URL, or made from the export's id and the time.
TargetPaths == {active} \X FileNames

\* The answer has begun and announces an acceptable size: the file is opened, and
\* emptied if it is there.
Open(d, p) ==
    /\ progress[d] = "new" /\ active # NoProfile /\ p \in TargetPaths
    /\ path' = [path EXCEPT ![d] = p]
    /\ file' = [file EXCEPT ![p] = [openers |-> @.openers \cup {d}, size |-> 0]]
    /\ handle' = [handle EXCEPT ![d] = TRUE]
    /\ progress' = [progress EXCEPT ![d] = "streaming"]
    /\ UNCHANGED <<active, result, arrived>>

\* Without a profile, with a bad URL, or a status or size that will not do.
RefuseDownload(d) ==
    /\ progress[d] = "new"
    /\ progress' = [progress EXCEPT ![d] = "failed"]
    /\ UNCHANGED <<active, file, path, result, handle, arrived>>

Larger(m, n) == IF m > n THEN m ELSE n

\* What a failure removes is the path, whoever else writes there.
Unlink(d) ==
    /\ file' = [file EXCEPT ![path[d]] = Absent]
    /\ handle' = [e \in Downloads |-> handle[e] /\ path[e] # path[d]]

\* With the next chunk the download is too large.
TooLarge(d) == arrived[d] + 1 > MaxSize

\* A chunk is counted, and written if the limit allows.
Receive(d) ==
    /\ progress[d] = "streaming"
    /\ arrived' = [arrived EXCEPT ![d] = @ + 1]
    /\ IF TooLarge(d)
       THEN /\ Unlink(d)
            /\ progress' = [progress EXCEPT ![d] = "failed"]
       ELSE /\ file' = IF handle[d]
                       THEN [file EXCEPT ![path[d]].size = Larger(@, arrived[d] + 1)] ELSE file
            /\ UNCHANGED <<progress, handle>>
    /\ UNCHANGED <<active, path, result>>

\* The connection breaks, or the task is cancelled.
Break(d) ==
    /\ progress[d] = "streaming"
    /\ Unlink(d)
    /\ progress' = [progress EXCEPT ![d] = "failed"]
    /\ UNCHANGED <<active, path, result, arrived>>

\* The stream ends and the file is closed; an archive is unpacked next, and then the
\* metadata is written.
EndOfStream(d) ==
    /\ progress[d] = "streaming"
    /\ IF path[d][2] \in Archives
       THEN progress' = [progress EXCEPT ![d] = "received"] /\ UNCHANGED result
       ELSE progress' = [progress EXCEPT ![d] = "saved"] /\ result' = [result EXCEPT ![d] = path[d]]
    /\ UNCHANGED <<active, file, path, handle, arrived>>

UnpackedPath(d) == <<path[d][1], Unpacked[path[d][2]]>>

\* Fault: the answer names the unpacked file although there is none.
ResultUnpacked(d, unpacked) == UnpackedPath(d)

\* The answer names the unpacked file, or the archive if that failed.
Result(d, unpacked) == IF unpacked THEN UnpackedPath(d) ELSE path[d]

\* The archive is kept. What cannot be unpacked is removed, and is no error. Nothing
\* limits what is unpacked: n is its size.
Unpack(d, unpacked, n) ==
    /\ progress[d] = "received"
    /\ unpacked => file[path[d]] # Absent
    /\ IF unpacked
       THEN /\ file' = [file EXCEPT ![UnpackedPath(d)] =
                           [openers |-> @.openers \cup {d}, size |-> n]]
            /\ UNCHANGED <<handle>>
       ELSE /\ file' = [file EXCEPT ![UnpackedPath(d)] = Absent]
            /\ handle' = [e \in Downloads |-> handle[e] /\ path[e] # UnpackedPath(d)]
    /\ result' = [result EXCEPT ![d] = Result(d, unpacked)]
    /\ progress' = [progress EXCEPT ![d] = "saved"]
    /\ UNCHANGED <<active, path, arrived>>

\* Cancelled while a thread unpacks, which goes on: "except Exception" is not reached.
AbandonUnpack(d) ==
    /\ progress[d] = "received"
    /\ progress' = [progress EXCEPT ![d] = "abandoned"]
    /\ UNCHANGED <<active, file, path, result, handle, arrived>>

\* What that thread has written when it ends, in whole or, if it fails, in part, stays.
UnpackAlone(d, n) ==
    /\ progress[d] = "abandoned" /\ file[path[d]] # Absent
    /\ file' = [file EXCEPT ![UnpackedPath(d)] = [openers |-> @.openers \cup {d}, size |-> n]]
    /\ progress' = [progress EXCEPT ![d] = "aborted"]
    /\ UNCHANGED <<active, path, result, handle, arrived>>

\* After the stream, closing the answer or writing the metadata fails, or is cancelled:
\* the caller sees a failure, and what is there stays.
Abort(d) ==
    /\ progress[d] \in {"received", "saved"}
    /\ progress' = [progress EXCEPT ![d] = "aborted"]
    /\ UNCHANGED <<active, file, path, result, handle, arrived>>

\* The metadata, if there is any, is written, and the path is returned.
SaveMetadata(d) ==
    /\ progress[d] = "saved"
    /\ progress' = [progress EXCEPT ![d] = "done"]
    /\ UNCHANGED <<active, file, path, result, handle, arrived>>

-----------------------------------------------------------------------------
(* A file listed, fetched over HTTP or read by a tool: nothing changes.     *)

\* list_downloads: the files under the directory of the active profile.
Listed == {p \in Paths : p[1] = active /\ file[p] # Absent}

\* get_download_url and read_download look in the directory of the active profile.
Reach(p) == active = p[1] /\ file[p] # Absent

\* GET /downloads/p/{profile_id}/{file_path}, of a name and type that is allowed:
\* the profile is that of the URL. A file that has grown too large is refused.
Served(p) == file[p] # Absent /\ file[p].size <= MaxSize

\* read_download from an offset: at the end of a file, also of an empty one, there
\* is nothing to read.
ReadFrom(p, offset) == Reach(p) /\ offset < file[p].size

DownloadsNext ==
    \/ \E p \in DlProfiles : SetProfile(p)
    \/ \E d \in Downloads :
        \/ \E p \in Paths : Open(d, p)
        \/ RefuseDownload(d) \/ Receive(d) \/ Break(d) \/ EndOfStream(d)
        \/ \E n \in UnpackedSizes : Unpack(d, TRUE, n)
        \/ Unpack(d, FALSE, 0)
        \/ AbandonUnpack(d) \/ \E n \in UnpackedSizes \cup {0} : UnpackAlone(d, n)
        \/ Abort(d) \/ SaveMetadata(d)

DownloadsSpec == DownloadsInit /\ [][DownloadsNext]_dlVars

-----------------------------------------------------------------------------
\* The names a download writes or removes.
Touches(d) == IF path[d] = NoPath THEN {}
              ELSE {path[d]} \cup IF path[d][2] \in Archives THEN {UnpackedPath(d)} ELSE {}

Alone(d) == \A e \in Downloads \ {d} : Touches(d) \cap Touches(e) = {}

\* The file a successful download names is there, has been written by nobody else
\* and, unless it has been unpacked, is what was received, if no other download had
\* that name too. ("Export downloaded to {file_path}".)
NamedFileIsThere == \A d \in Downloads : progress[d] = "done" /\ Alone(d) =>
    /\ file[result[d]].openers = {d}
    /\ result[d] = path[d] => file[result[d]].size = arrived[d]

\* What a download names, can be fetched from its URL whatever profile is active, if
\* it was not unpacked, and is read to the end by a session of its profile and by no
\* other: downloading, serving and reading agree on limits and directories.
DownloadedIsServed == \A d \in Downloads :
    progress[d] = "done" /\ Alone(d) /\ result[d] = path[d] =>
        /\ Served(result[d])
        /\ \A n \in 0..MaxSize : ReadFrom(result[d], n) <=> active = path[d][1] /\ n < arrived[d]

\* A download that fails while it streams leaves nothing at its names; one that fails
\* later leaves the whole of what it received, never a part of the stream, and its
\* file is listed and served although the caller was told of a failure. (download_export,
\* "except BaseException". What a cancelled unpacking leaves beside it may be a part.)
FailureLeavesNoPart == \A d \in Downloads : path[d] # NoPath /\ Alone(d) =>
    /\ progress[d] = "failed" => \A p \in Touches(d) : file[p] = Absent
    /\ progress[d] \in {"abandoned", "aborted"} =>
          file[path[d]] = [openers |-> {d}, size |-> arrived[d]]

\* What is reported is there, of what failed no part is, and what is there can be had.
DownloadsCorrect == NamedFileIsThere /\ DownloadedIsServed /\ FailureLeavesNoPart
=============================================================================
