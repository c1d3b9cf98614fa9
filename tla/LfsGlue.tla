------------------------------- MODULE LfsGlue -------------------------------
(***************************************************************************)
(* filesystem/lfs_c2000_fram.c: the flags bInit, bMount and bFileIsOpen    *)
(* that guard every call into littlefs, and the one static file.  The      *)
(* operations are pure operators on a record that also holds the handles   *)
(* ymodem.c keeps, pLfs and pFile (TRUE for not NULL), and one file:       *)
(*   stored   what the volume has under its name, if it exists             *)
(*   cache    what the open file has, pos the place in it                  *)
(* The contents are sequences of units.                                    *)
(*                                                                         *)
(* littlefs itself is external: each of its calls succeeds or fails as ok  *)
(* says.  It keeps what was written for itself until the file is closed.   *)
(* Mounting, unmounting and formatting begin or end the life of its lfs_t, *)
(* and with that of every open file:                                       *)
(*   lfs      "mounted" or "off"                                           *)
(*   file     "none", "live", or "dead" when its lfs_t has gone            *)
(*   stray    its list of open directories has one of a call of the glue   *)
(*            that has returned, so it points into a dead stack frame      *)
(*   broken   littlefs has been called against these rules, or with a stray*)
(*            directory, from where on nothing is known of it              *)
(***************************************************************************)
EXTENDS Integers, Sequences

NewVolume(contents) ==
    [bInit |-> FALSE, bMount |-> FALSE, bFileIsOpen |-> FALSE, pLfs |-> FALSE, pFile |-> FALSE,
     lfs |-> "off", file |-> "none", stray |-> FALSE, broken |-> FALSE,
     exists |-> TRUE, stored |-> contents, cache |-> <<>>, pos |-> 0]

(* Each returns the record and what the C function returns. *)
Returned(fs, ret) == [fs |-> fs, ret |-> ret]

(* A new life of the lfs_t, with an empty list, or its end. *)
Restarted(fs, lfs) ==
    [fs EXCEPT !.lfs = lfs, !.file = IF fs.file = "none" THEN "none" ELSE "dead",
               !.stray = FALSE, !.cache = <<>>, !.pos = 0]

(* A call that needs a mounted volume, and one that needs an open file. *)
OnVolume(fs) == [fs EXCEPT !.broken = @ \/ fs.lfs # "mounted" \/ fs.stray]
OnFile(fs) == [fs EXCEPT !.broken = @ \/ fs.lfs # "mounted" \/ fs.stray \/ fs.file # "live"]

lfs_c2000_init(fs) == [fs EXCEPT !.bInit = TRUE]

lfs_c2000_format(fs, ok) ==
    LET new == Restarted(lfs_c2000_init(fs), "off")
    IN  Returned(IF ok THEN [new EXCEPT !.exists = FALSE, !.stored = <<>>] ELSE new, ok)

lfs_c2000_mount(fs, ok) ==
    LET new == Restarted(lfs_c2000_init(fs), IF ok THEN "mounted" ELSE "off")
    IN  Returned(IF ok THEN [new EXCEPT !.bMount = TRUE] ELSE new, ok)

(* Its result is ignored by every caller in ymodem.c. *)
lfs_c2000_umount(fs) ==
    IF fs.bInit /\ fs.bMount THEN [Restarted(fs, "off") EXCEPT !.bMount = FALSE] ELSE fs

(* The calls that open, read (the first of them that fails, if any) and    *)
(* close the directory. After a failed read it is not closed.              *)
lfs_c2000_ls(fs, opened, read, closed) ==
    IF ~fs.bMount
    THEN Returned(fs, FALSE)
    ELSE IF opened /\ ~read
    THEN Returned([OnVolume(fs) EXCEPT !.stray = TRUE], FALSE)
    ELSE Returned(OnVolume(fs), opened /\ closed)

lfs_c2000_mkdir(fs, ok) ==
    IF ~fs.bMount THEN Returned(fs, FALSE) ELSE Returned(OnVolume(fs), ok)

(* Mutant: an open file is opened again. *)
lfs_c2000_fopen_again(fs, ok) ==
    IF ~fs.bMount
    THEN Returned(fs, FALSE)
    ELSE LET open == [OnVolume(fs) EXCEPT !.bFileIsOpen = ok]
         IN  IF ok
             THEN Returned([open EXCEPT !.broken = @ \/ fs.file = "live", !.file = "live",
                                        !.exists = TRUE, !.cache = fs.stored, !.pos = 0], TRUE)
             ELSE Returned(open, FALSE)

(* LFS_O_CREAT and LFS_O_RDWR: the file keeps what it has. *)
lfs_c2000_fopen(fs, ok) ==
    IF ~fs.bMount \/ fs.bFileIsOpen
    THEN Returned(fs, FALSE)
    ELSE LET open == [OnVolume(fs) EXCEPT !.bFileIsOpen = ok]
         IN  IF ok
             THEN Returned([open EXCEPT !.broken = @ \/ fs.file = "live", !.file = "live",
                                        !.exists = TRUE, !.cache = fs.stored, !.pos = 0], TRUE)
             ELSE Returned(open, FALSE)

(* What a file holds after data is written at a place of it. *)
Overwrite(contents, place, data) ==
    [n \in 1..(IF place + Len(data) > Len(contents) THEN place + Len(data) ELSE Len(contents)) |->
        IF n > place /\ n <= place + Len(data) THEN data[n - place] ELSE contents[n]]

lfs_c2000_fwrite(fs, data, ok) ==
    IF ~fs.bMount \/ ~fs.bFileIsOpen
    THEN Returned(fs, -1)
    ELSE IF ok
    THEN Returned([OnFile(fs) EXCEPT !.cache = Overwrite(@, fs.pos, data), !.pos = @ + Len(data)],
                  Len(data))
    ELSE Returned(OnFile(fs), -1)

(* lfs_file_read of littlefs, which ymodem.c calls itself: the next n      *)
(* units, as far as the file goes.                                         *)
lfs_file_read(fs, n) ==
    LET last == IF fs.pos + n > Len(fs.cache) THEN Len(fs.cache) ELSE fs.pos + n
    IN  Returned([OnFile(fs) EXCEPT !.pos = last], SubSeq(fs.cache, fs.pos + 1, last))

lfs_c2000_fread(fs, n, ok) ==
    IF ~fs.bMount \/ ~fs.bFileIsOpen
    THEN Returned(fs, <<>>)
    ELSE IF ok THEN lfs_file_read(fs, n) ELSE Returned(OnFile(fs), <<>>)

(* The file is given another name, or removed. *)
lfs_c2000_mv(fs, ok) ==
    IF ~fs.bMount
    THEN Returned(fs, FALSE)
    ELSE IF ok /\ fs.exists
    THEN Returned([OnVolume(fs) EXCEPT !.exists = FALSE, !.stored = <<>>], TRUE)
    ELSE Returned(OnVolume(fs), FALSE)

lfs_c2000_rm(fs, ok) == lfs_c2000_mv(fs, ok)

(* Mutant: bFileIsOpen is left set when littlefs fails. *)
lfs_c2000_fclose_stays_open(fs, ok) ==
    IF ~fs.bMount \/ ~fs.bFileIsOpen
    THEN fs
    ELSE [OnFile(fs) EXCEPT !.bFileIsOpen = ~ok, !.file = "none",
                            !.stored = IF ok /\ fs.exists THEN fs.cache ELSE @,
                            !.cache = <<>>, !.pos = 0]

(* Its result is ignored by its caller in ymodem.c. *)
lfs_c2000_fclose(fs, ok) ==
    IF ~fs.bMount \/ ~fs.bFileIsOpen
    THEN fs
    ELSE [OnFile(fs) EXCEPT !.bFileIsOpen = FALSE, !.file = "none",
                            !.stored = IF ok /\ fs.exists THEN fs.cache ELSE @,
                            !.cache = <<>>, !.pos = 0]

------------------------------------------------------------------------------
(* Mutant: the volume is left mounted. *)
lfs_cleanup_stays_mounted(fs, ok) ==
    IF fs.pFile THEN [lfs_c2000_fclose(fs, ok) EXCEPT !.pFile = FALSE] ELSE fs

(* Mutant: pLfs is kept. *)
lfs_cleanup_keeps_pLfs(fs, ok) ==
    LET closed ==
            IF fs.pFile THEN [lfs_c2000_fclose(fs, ok) EXCEPT !.pFile = FALSE] ELSE fs
    IN  IF closed.pLfs THEN lfs_c2000_umount(closed) ELSE closed

(* lfs_cleanup of ymodem.c. *)
lfs_cleanup(fs, ok) ==
    LET closed ==
            IF fs.pFile THEN [lfs_c2000_fclose(fs, ok) EXCEPT !.pFile = FALSE] ELSE fs
    IN  IF closed.pLfs
        THEN [lfs_c2000_umount(closed) EXCEPT !.pLfs = FALSE]
        ELSE closed
==============================================================================
