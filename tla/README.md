# TECHO5 Dot: a TLA+ model of how a unit boots, updates and recovers

TECHO5 Dot puts Linux on Amazon Echo speakers. Nobody can reach into a unit
that does not boot, so most of the code that is hard to get right is about one
thing: whatever fails (an update, a kernel, the power, a PC in mid-install),
the unit must come to a root filesystem that works or to a rescue environment
somebody can reach. This directory models that code, checks it with TLC and
proves its central safety properties with TLAPS.

Paths below are relative to `src/`; `sbin/` is `tools/linux/rootfs/usr/local/sbin/`.

## The system

| Component | Code | State it keeps | Operations |
| --- | --- | --- | --- |
| slotctl | `sbin/slotctl` | the store on the cache partition: `active`, `slots/a`, `slots/b`, their `.state` files, the rescue marker | next, install, commit, switch, rollback, rescue, status |
| initramfs | `tools/linux/init`, `init-donut` | the count of unhealthy boots in MISC | count a try, mount the store, adopt an old store, choose a slot, switch into it, stay in rescue, retry |
| boot.sh | `tools/linux/rootfs/etc/techo5/boot.sh` (and `rootfs-donut`) | the boot's reason, crash records | bring the unit up; watch the daemon, commit the slot, reset the count, reboot a failed trial |
| shutdown, init table | `etc/techo5/shutdown.sh`, `etc/inittab` | the restart reason | stop the daemon, sync, unmount |
| boot image tools | `tools/update-boot.py`, `sbin/to-twrp`, `tools/linux/back-to-linux.sh` | the recovery partition; `linux.img`, `linux-prev.img`, `linux-next.img`, `twrp.img` in the store | flash, read back, restore, reboot, wait for a healthy boot, keep the image |
| installer | `tools/install-dot.py`, `tools/techo5lib.py` | backups on the PC; the unit's store, MISC and recovery partition | back up, build, push, flash, unpack slot a, arm the boot, wait for the console |
| image building | `tools/dotimage.py`, `mkimage.py`, `mkrootfs.py`, `build-dot-rootfs.py` | none | put a boot image and a root filesystem together; choose the kernel |
| release verification | `tools/techo5lib.py` | a work folder of downloads, kept from run to run | fetch manifest and signature, download, hash, replace, take out |
| Wi-Fi | `sbin/techo5-net`, `sbin/wifi-set`, `tools/set-wifi.py` | `wpa_supplicant.conf`, `wifi.conf`, the supplicant, udhcpc, the lease | save a network, choose a configuration, associate, lease, restart; the console it is done over |
| Bluetooth | `sbin/techo5-bt` | the bridge, the bus lock, a call counter | start the bridge, the bus and bluetoothd; put a new hci0 right |
| wmtup | `cmd/wmtup` | the combo chip's driver | detect the chip, answer its patch search |
| supervision | `sbin/techo5-run`, `techo5-console`, `techo5-logs`, `techo5-firewall` | logs | respawn, keep logs short |

How they interact. The bootloader (external) starts the recovery partition's
image. Its initramfs counts a try in MISC, mounts the store and asks
`slotctl next` for a slot, which takes a try off a slot on trial. The slot's
boot.sh starts everything and watches the daemon (external); a daemon that
stays up leads to `slotctl commit` and a zero in MISC, and one that does not
reboots a slot on trial. The daemon's updater runs `slotctl install` and
reboots. A user on SSH or the console may run any slotctl command at any time,
in rescue too, `next`, `install` and `commit` among them.
The PC tools write the store and the recovery partition over adb or SSH. There
is no lock anywhere: two commands on one store interleave, and the power can
fail between any two steps and lose what was not synced.

The hard behaviours, and what makes each part correct:

* **slotctl, init, boot.sh** — crashes between two writes, writes lost for lack
  of a sync, two counters (tries of a slot, boots of the unit) that meet,
  commands racing an install. Correct when an image nobody saw running, or vouched for
  with a commit of their own, is never called good, trials and failed boots are bounded, the running root is never
  written to, and some working slot always remains.
* **Boot image tools, installer** — a partition written in place, read-back,
  restore, a wait that a user may race, runs that meet what failed runs left.
  Correct when the store always holds a Linux image to go back to, no tool
  reboots into a torn one, a reinstall loses neither TWRP nor a working root,
  and what the tool says at its end is true of the unit.
* **Downloads** — two requests that may meet two releases, caches and forgeries,
  `.partial` files of dead runs, files renamed into place unflushed. Correct when an
  image is built of one signed release and of a kernel for this very unit, and no
  debris stops the next run.
* **Wi-Fi and its console** — two techo5-net at once, a clock that goes back,
  files that a power cut takes back, addresses that come late, ports that change
  hands. Correct when the network saved is the one tried later, "Joined" is said of
  what was asked for and of the unit it was asked of, and rescue gets its SSH.
* **Bluetooth, wmtup** — a driver that blocks until it is answered and asks again
  after a chip reset; a bridge that restarts while earlier calls still put things
  right; a bus two programs start. Correct when every search is answered rightly,
  there is one bus, and the hci0 that stays ends up as it should.

## Modules

**`SlotCtl.tla`** — the store as a record and each slotctl command as a function
from store to store, one operator per write a power cut can separate from the
next (`NextMarked` then `NextStore`; `RollbackMarked` then `RollbackStore`;
`Gutted`, `TreeGone`, `StateGone`, `Unpacking`, `Unpacked`). A slot's root is
abstracted to *empty*, *part* or *whole*, and to what speaks for its contents: that they
came up healthy (`proven`), or that a user's own `slotctl commit` made the slot good
(`vouched`); both are history fields that no command reads.

**`DotBoot.tla`** — the unit. The initramfs is `CountTry`, `StoreFails`,
`RescueMarker`, `StoreReady`, `Adopt`, `AdoptSync`, `TakeNext`, `NoRoot` and
`SwitchRoot`; boot.sh's watch is `Healthy`, `Commit`, `ResetCount` and `Unhealthy`; the
updater, or a user's install, is `InstallBegin` to `UpdateReboot`; the user is `NextByHand`, `CommitByHand`,
`Switch`, `Rollback`, `ShellSync`, `Rescue`, `Reboot` and `Retry`, with the commands in `Commands`. A root that lost files to
a power cut may have lost boot.sh: `SwitchRoot` may then leave the unit *unwatched*, with neither watch nor daemon. `phase` is how far the boot is, `booted` is
`/run/techo5/slot`, `count` is `TECHO5-TRIES` in MISC.

*Durability.* `disk` is the store as programs read it and `survivors` the set of
stores a power cut may leave. A write adds to `survivors` each state between
its parts; `sync` leaves only `disk` in it; `PowerCut` picks one. Names are journalled in order, file
data is not, so before a sync a slot's new files, or a state file that replaced none, may come back empty
(`LostData`, `SwitchLost`). A state file that replaces another is flushed by the rename (ext4's
auto_da_alloc) and comes back old or new, not empty. MISC is written through a block device, flushed as dd closes it,
so the count has no such set.

**`BoundedBoot.tla`** — the abstract promise: at most so many attempts in a row
without a healthy boot, then rescue; at most so many runs of an image on trial.
`DotBoot` implements it (`KeepsBoundedBoot`) under a mapping in which the
abstract attempts are the count in MISC and the abstract runs are the trial
boots actually made, whatever the store still knows of them.

**`TrustedImage.tla`** — the abstract promise of the downloads: a run trusts at most one published release, settles which parts an image
is made of and makes it only while it has them all right; a fetched part is at hand from one step to the next, and goes wrong by a power cut
alone. `DotRelease` implements it (`KeepsTrustedImage`): requests, signatures, hashes, `.partial` files and the order of the plan are what the
mapping hides.

**`BootImage.tla`** — the recovery partition and the store's image files. An
image is a name: a build, the unit's TWRP, `"short"` (a file that begins right
and ends early) or `"torn"` (a partition being written). `update` follows
update-boot.py and its flash script, `swap` to-twrp and back-to-linux.sh,
`installer` steps 5 to 7 of install-dot.py. `Free` says the user runs one tool
at a time; `Impatient` drops that for update-boot.py's six-minute wait, in which the tool only looks.

**`Installer.tla`** — install-dot.py on one unit, run after run: the backup and
its refusal, the identity, the boot image, each command of `SLOT_SCRIPT`, name and
key, the boot count, the wait on the console; any step may fail (`Fail`), and
`UserFindsTwrp` is what the refusal asks for. The unit is DotBoot's with slot a
alone (`BootLinux`, `Healthy`), plus a user who goes back to adb and the owner of a
Dot that was given away (`OwnerSetsUp`). A root is *part*, *old* (an earlier
run's) or *new*; `Begin` makes new roots old. `disk` and `survivors` are as in `DotBoot`.

**`MkImage.tla`** — what the image builders do with their inputs: mkimage.py's archive
(the first copy of a path stays), mkrootfs.py's tree (the last does), `with_member`, and the command
line, read character by character as `cmdline_words` reads it, against a reference definition of what the kernel sees (`KernelWords`).

**`DotRelease.tla`** — the tools' way from a release to an image, over `MkImage`: `GetManifest` and `GetSignature`
are two requests; `Reuse`, `Download`, `Receive`, `Check` and `Replace` are download_checked; `TakeOut`
and `TakenOut` what is unpacked of the downloads; `Refuse` and `Build` the end. A file's content is whether it is what the
manifest names. `Die` ends a run anywhere, `PowerCut` may empty one file that was never flushed.

**`NetJoin.tla`** — techo5-net (`Decide` to `Leased`, for the boot's run and for wifi-set's), wifi-set (`Save`, `Sync`, `Kill`),
and beside them the supplicant, udhcpc, ntpd, the setup page and rescue's loop. A configuration file is its networks and its
time. `choice` is what the unit was last told, with the excuses it has for not doing so (below).

**`SetWifi.tla`** — set-wifi.py over a unit's USB console, over `NetJoin`: the search for the port, the command typed behind a test of the unit's
serial, a shell that reads lines when it comes to them, answers between markers, deadlines, units that come and go.

**`Wmtup.tla`** — wmtup: `Main` is main, `Serve` the goroutine that answers the driver. The driver is external: `Search` is its question,
`Take` what it makes of a write on the device.

**`Bluetooth.tla`** — techo5-bt over `Wmtup`, which shares the chip with it: the bridge's opening powers the chip, and a chip reset ends the
bridge and makes the driver ask. `Again(c)` is the c-th call of `again`, step by step; `LockStep(p)` the bus lock, for the script and
for the daemon alike; the rest of `Script` the order of the services. The bridge, bluetoothd, the pairing window and the daemon are external.

**`DotBootProofs.tla`** and **`LifelineProofs.tla`** — the theorems about `DotBoot`: the second extends the first, whose
invariants it builds on. **`InstallerProofs.tla`**, **`BootImageProofs.tla`**, **`MkImageProofs.tla`**, **`DotReleaseProofs.tla`** (which builds on the
one before), **`BluetoothProofs.tla`** and **`NetJoinProofs.tla`** — those about the modules they are named for, the last about `SetWifi` too.

## Runs

| Run | Configuration | Question | Result |
| --- | --- | --- | --- |
| `boot_safety` | MCDotBoot | all six slotctl commands that write, updates and power cuts at any time: are the safety properties and BoundedBoot kept? | holds, 4.5 million states |
| `unattended_updates` | MCUpdate | left alone, does the unit always keep a slot to come back to, keep BoundedBoot at the code's own limits, and does every boot loop end? | holds |
| `boot_image` | MCBootImage | two builds, bad writes, dead kernels, power cuts: does the store keep an image to go back to, and no tool boot a torn one? | holds, 0.7 million states |
| `installer` | MCInstaller | run after run, with failures and power cuts: are the backup, the earlier root and what the tool says at its end right? | holds, 0.5 million states |
| `downloads` | MCDownloads | two releases, torn and forged answers, dead runs, power cuts, all boards and options: is every image built of the right files? | holds, 1.3 million states |
| `wifi` | MCWifi | two techo5-net at once, the setup page, power cuts, a clock that goes back, another unit on the computer: is what was asked for what happens? | holds, 0.7 million states |
| `radio` | MCRadio | chip resets, a failing call, a bridge that ends twice, two starters of the bus: does the radio come right? | holds, 0.7 million states |
| `adopt_cut` | MCAdopt | does adopting an old store leave a slot to boot? | no |
| `short_twrp` | MCShortTwrp | is it TWRP that to-twrp reboots into? | no |
| `update_wait` | MCImpatient | is linux.img only replaced by an image that booted healthy? | no, if the user acts during the wait |
| `slot_rerun` | MCSetAside | is the earlier slot a kept until the new one has unpacked? | no, on a re-run after a failed tar |
| `wifi_forget` | MCForget | does `wifi-set --forget` go back to Fire OS's network? | no |

The properties:

* `GoodIsProven` — no slot is *good* on any store a power cut may leave unless
  its image came up healthy, or a user committed these very contents by hand (`slotctl commit` looks at nothing), or the slot is empty (its tree removed and its
  state not yet: booting it fails and goes to rescue).
* `TrialBounded` — an image on trial runs at most `TRIES` times before it is
  healthy once. It depends on a sync between the try and the switch: cmd_next has one, and init another (`init:179`); without them the try comes back.
* `StrikesBounded` — at most `TRIES_MAX` boots into slots in a row without a healthy one.
* `RunningRootKept` — install never touches the running root, even when a user
  makes the *other* slot active so that install's target is the running one.
* `NeverStranded` — with no user and updates only from a committed slot, each
  store a power cut may leave has a good, whole, proven slot that boots next or
  is fallen back to. Stores whose adoption was cut short are excepted; they are
  what `adopt_cut` shows.
* `BootLoopEnds` (liveness) — again and again the unit is in rescue, healthy, up in a committed slot, or in a root that lost its boot.sh to a
  power cut, where nothing loops and nothing falls back.
* `LinuxImgKept` — outside an installer run (and after one that completed)
  `linux.img` is, on any store a power cut may leave, a whole image that was installed or has booted healthy.
* `ReplacedOnceHealthy` — update-boot.py replaces `linux.img` only by an image that booted healthy.
* `RebootsIntoImage` — update-boot.py and the installer reboot only into a whole Linux image; so does back-to-linux.sh, and to-twrp
  into TWRP, unless an installer run was cut short (below).
* `BackupIsTwrp` — the PC holds the unit's own TWRP, never a Linux image, before
  anything is written, whatever earlier runs left in the partition.
* `EarlierRootKept` — a reinstall keeps a whole root on every disk a power cut may
  leave, until a run has failed; the one gap the code has, between the removal
  of the old root and the sync after it, is excepted by name.
* `DoneIsHealthy` — "Done: … healthy" is said only if the root of this run came up healthy.
* `RescueIsSpent` — the wait is given up for rescue only after five boots of this run's install, not for a count left in MISC.
* `KeyIsTheUnits` — the key shown at the end is the one on the unit, which has a
  name too, whatever runs were cut short between the name and the key.

* `BuiltIsSigned` — an image is built of one release's files, each as its signed manifest names it, however
  runs ended before and whatever the network answered.
* `KernelIsTheUnits` — no unit gets another board's kernel, nor the 3.18 one where the 6.1 one runs or was asked for, unless the user takes none or gives one.
* `CmdlineClean` — the kernel sees the donor's words without the dropped ones, the others whole and in order.
* `ImageIsOurs` — through an archive that keeps the first copy and a tree that keeps the last, the image has this repository's init, tools and supplicant.
* `KeepsTrustedImage` — the runs implement `TrustedImage`: the release is settled once and published, nothing but a power cut puts a file the manifest does not
  name in a download's place, and at the very step that makes the image all its parts are right.
* `RetriesSucceed` (liveness) — tools that are started again and again come to have everything, whatever is left in the folder.
* `ChoiceKept` — on every store a power cut may leave, the next techo5-net tries the network last saved. The code does not keep this in three
  cases, which are excepted by name: *clock* (the unit's clock was behind when it was saved, so the older configuration looks newer), *forget* (below)
  and *race* (another techo5-net or the setup page wrote its configuration between wifi-set's rename and its own).
* `JoinedIsChosen` — "Joined" is said of this run's network, never on the late answer to an earlier one, nor on that of another unit whose console came up
  on the port that was found (the command is typed behind a test of the unit's serial, and without it that unit would answer); and, unless another writer was at it
  (*meanwhile* included: a supplicant of the boot's techo5-net that runs already is kept), the address is from that network.
* `LateLeaseGetsSsh` (liveness) — in rescue, once udhcpc runs and the supplicant is associated, SSH comes. That udhcpc is started at all the code does
  not promise: one that associates after techo5-net's 45 s has none.
* `AnswerIsTrue` — with no call failing, a search is told "ok" with every patch wmtup announces (all there are, up to the driver's limit) in the driver's order if the unit has any, and "fail" if not, wherever the question falls between serve's reads.
* `SearchAnswered` (liveness) — every search is answered, after a chip reset too, unless wmtup is gone or a call of it failed. wmtup does go when
  the write to `/dev/wmtWifi` fails, and nothing starts it again.
* `OneBus` — bluetoothd starts on a bus that is there, and there is no second one, unless techo5-bt took the lock over from a dead holder: it then
  starts a bus without holding the lock, and a restarted daemon may do so too.
* `LastAdapterRight` (liveness) — an hci0 that stays, with a bluetoothd, ends up a loudspeaker and not findable by a pairing window that is over,
  however the calls of `again` interleave.

The five violated properties quote what the repository says of itself, and the
traces show the code doing otherwise:

1. **`AdoptionLasts`** (`init:160`). Marker first, state second, one sync: a power
   cut in between leaves a marked store with no state. It is never adopted
   again, so every boot goes to rescue.
2. **`TwrpInRecovery`** (`to-twrp:20`). The copy of TWRP is checked only to begin
   like an image; one that a re-run of the installer left short is written,
   matches itself on read-back, and is rebooted into.
3. **`ReplacedOnceHealthy`** in `update_wait` (`update-boot.py:173`). The new
   kernel does not boot; the user takes the way back the tool's own help
   describes, within the wait; the old image's healthy boot has a new boot id,
   and the image that never booted is moved over `linux.img`.
4. **`SetAside`** (`install-dot.py:166`). The slot script removes `a.old` first
   thing. After a run that failed in tar that is the only whole root; the re-run
   the tool asks for removes it and sets the half-unpacked slot aside.
5. **`ForgetGoesBack`** (`sbin/techo5-net:145`). `--forget` removes `wifi.conf`, and
   techo5-net then uses the configuration it built from it, since it looks only at whether there is one.

Three more disagreements met on the way are in the models as the code has them, without a run. `slotctl switch` leaves a slot on
`trial 0` as it is, and the next boot takes the other (`slotctl:159`; the usage says "boot this slot next"). `slotctl rollback` while an
install is removing the other slot finds its state still good and its tree gone, makes it active and marks the running one bad
(`slotctl:172`). An install syncs once, at its end (`slotctl:135`): a power cut before that may keep the names (the tree's, `trial 2`, `active`) and lose the
files behind them, and if boot.sh is one of these and `/sbin/init` is not, the unit switches into the slot and stays there, since the watch that would reboot it
is in the lost file (`boot.sh:379` says that a broken update "falls back to the good slot without anybody pulling the plug"). And two comments differ: techo5-bt says that techo5-run waits for it (`sbin/techo5-bt:18`), techo5-run that it does not (`sbin/techo5-run:4`), which is so.

### Bounds and why they are enough

There are two slots, in the code as in the model. `TRIES` is 2 and `TRIES_MAX` 5, as in the code, but in `boot_safety`, which has all the commands of a user's
shell and needs the room: one try and two boots. Both limits are still reached, in either order: a trial ends at the first boot and the slot fallen back to uses
the second, or a slot uses the first, the one put on trial the second or none, and the unit is in rescue with the try left; and techo5-retry begins the count
anew, so that one slot's trial outlasts several counts. A slot goes through all its states and every command meets every phase. `unattended_updates`
checks the abstract bound, which has both limits, at 2 and 5 as well; and the proofs cover every value of both and every set of commands. Nothing else in `DotBoot`
is unbounded: histories stop at the bounds the properties assert. Two builds are enough
for `BootImage` (the image kept and the one being tried); a third could only
repeat the roles. `Installer` has two keys (the PC's and
another) and two failed runs in a row (`MaxFailures`; one leaves the debris, the next meets
it, and a completed run starts the count anew). `DotRelease` has two releases, of which the first may lack the other
boards' kernels, and two failures (one leaves debris or a mixed answer, the next meets it); a power cut empties one unflushed file, since a second only repeats
the first. Command lines have up to five pieces, quotes in pairs, which has a dropped word and a quoted space in every order. `wifi` has two networks besides Fire OS's,
and two events (runs of wifi-set, setup pages, power cuts); one port, since the case is a cable that changes hands; both bounds were also
checked one higher, outside this run. `radio` has a cap of two patches and units with none or three, and two ends of the bridge or failing calls together:
two ends give two calls of `again` at once, which is what "newest" is about. No symmetry is used. Every run explores its whole state space.

### Fairness

`DotBoot` assumes weak fairness of the initramfs, of a running install and of boot.sh's watch where boot.sh started one (an *unwatched* root has
none): each is a sequential script with nothing to wait for but timeouts of its own. Users,
the start of updates, `techo5-retry` and power cuts are not fair. `BootImage` assumes it of the scripts
that run on the unit and of update-boot.py's bounded wait. `Installer` states
no liveness and assumes no fairness. `DotRelease` assumes it of a running tool's steps, not of anybody starting one: `RetriesSucceed`
has that as its premise, and failures are bounded. `NetJoin` assumes it of the scripts, of rescue's loop
and of a DHCP server that is asked; not of association, users, the setup page or ntpd. `Bluetooth` assumes it of wmtup, of
techo5-bt with its calls and its bridge's loop, and of a running bluetoothd's taking up of an adapter: each is a program that runs on, or a wait with an end.

### What is assumed of the world

* ext4 keeps changes of a directory in order, so a power cut takes back the last ones first; a file written over in place, or one renamed into place on the PC and never flushed, may be empty. The MISC
  write is flushed.
* The keys rescue's SSH needs are on userdata; Fire OS saved a network.
* The console answers in a slot after boot.sh, and in rescue before the network.
* In `Bluetooth`, which is not timed: five seconds are enough for bluetoothd to take up an hci0 that answers and for a live holder of the bus lock to
  let go, one second (the sleep beside which techo5-bt starts dbus-daemon in the background, before it lets go of the lock, `sbin/techo5-bt:98`) for the bus to be there, and a dozen tries (two minutes) for an hci0 that comes back at all. Its first hci0 is not set unfindable by techo5-bt: a window open when the power
  failed is not modelled.

## Proofs

`DotBootProofs` proves, for every `TRIES`, `TRIES_MAX`, set of commands and
choice of flags (assuming only their types, as `SlotCtl` and `DotBoot` state them):

| Theorem | Property |
| --- | --- |
| `TypeCorrect` | `TypeOK` |
| `GoodSlotsProven` | `GoodIsProven` |
| `RunningRootSafe` | `RunningRootKept` |
| `TrialsBounded` | `TrialBounded` |
| `BootsBounded` | `StrikesBounded` |
| `BootsProvenOrTrial` | the initramfs switches only into a root that came up healthy since it was unpacked, one a user's own commit made good since then, or one on trial with a boot of its `TRIES` left |
| `BootLoopRunsOut` | the safety part of `BootLoopEnds` |
| `BoundedBootKept` | `KeepsBoundedBoot`, the refinement of `BoundedBoot` |

*`SafetyInv`* carries the first three. `GoodIsProven` alone is not inductive:
an install that unpacks into a slot still marked good would break it, and so
would boot.sh's commit of a slot nobody saw healthy (a user's is what `vouched` records). So the invariant adds that the slot
an install works on is not marked good once its state is gone
(`InstallUnmarked`), that boot.sh commits only a slot it proved
(`CommitProven`), that the disk is among the survivors and an unadopted store's only slot is proven (`StoresSafe`), and what
each phase says of the slot booted (`PhaseSafe`). Type correctness needs these
too: `Healthy` indexes the store by the slot booted.

*`TrialInv`* relates history to the store: on every survivor, the tries left of
a slot on trial and the boots already made add up to at most `TRIES`; between
`slotctl next` and the switch, to less. That is why the sync before the switch
matters: after it no survivor has the try back.

*`StrikeInv`* says the boots so far are at most the count in MISC, and fewer
while the initramfs is between counting and switching; the count is reset only
when the history is zero as well.

`BootsProvenOrTrial` takes the first two together with what `slotctl next` can have chosen (*`BootChosen`*).

`BootLoopRunsOut` is `BootLoopEnds` without its fairness. *`Left`* is six times the counts still to go to `TRIES_MAX`, plus the phases this boot has still to go
through: at most `6 * TRIES_MAX + 5`. Until the boot is where the property wants it (*`Settled`*: rescue, healthy, found unhealthy, or unwatched), no step raises it, and each step of
the initramfs, of the watch, of a reboot or a power cut lowers it or settles the boot. So no order of failing slots, tries, updates and power cuts loops for longer.

`BoundedBootKept` is a step simulation, action by action; the one thing it needs beyond `SafetyInv` and `TrialInv` is that a slot which came up
healthy has no trial boots left to count when the count of attempts is forgotten (`HealthyInv`).

Each of these is proved by one lemma per group of actions over lemmas that say what the
store operators preserve (`MarksKeep`, `RemovalKeeps`, `NextKeeps`, ...).

`LifelineProofs` adds, on top of these invariants:

| Theorem | Property | Assuming |
| --- | --- | --- |
| `NeverStrandedAlone` | `NeverStranded` | no commands, and updates only from a committed slot (`Alone`) |
| `NamedStoreBoots` | no step of `slotctl next` on a store in which a slot has a state ends without a slot | `Alone` |
| `AdoptionLastsPowered` | `AdoptionLasts` | `Alone`, and no power cuts |

*`LifeInv`*, behind `NeverStrandedAlone`, strengthens the lifeline to a *home*: a slot that is good, whole, proven, and active *or* beside a slot that is not
good. Every store a power cut may leave has a home, or no states at all (before its adoption, or after a cut one). Of a unit
that runs it says more: either the very slot that runs is home on all of them (`AtHome`), which an update of the other slot keeps at each of its steps and lost writes, or
that slot is on trial, no other store can be left, and nothing else writes (`Trying`), so that a commit makes it home. Without `Alone` both fail: an
update from a slot on trial replaces the only home, which is why the property is stated as it is.
The last two theorems bound the first finding. A store with a home boots one of its slots, so what `adopt_cut` shows can only be a store in which no slot has a
state; and with the power on none comes about, because an adopted store has a named slot from then on (*`AdoptedInv`*).

`InstallerProofs` proves, for every set of keys and number of failed runs and
every `TRIES_MAX` but 0 (with no boot to count, an old healthy record would
never be overwritten):

| Theorem | Property |
| --- | --- |
| `InstallerTypes` | `TypeOK` |
| `BackupSafe` | `BackupIsTwrp` |
| `DoneIsTrue` | `DoneIsHealthy` |
| `KeyIsTrue` | `KeyIsTheUnits` |
| `EarlierRootSafe` | `EarlierRootKept` |
| `RescueSpent` | `RescueIsSpent`, for a `TRIES_MAX` of at most 5, the number the wait looks for |

`BackupIsTwrp` needs only what images there are. `DoneIsHealthy` and `KeyIsTheUnits` rest on *`AnswerInv`*: the
unit stays in adb while the installer writes (`EnvInv`); from tar on slot a is
this run's root, from the script's sync on every disk a power cut may leave, and a healthy
record always comes with a count of 0, so the next boot overwrites it before
anybody reads it (`HealthInv`); and the identity shown is, step by step, chosen, then half
written, then on the unit, then on every disk that may be left (`IdentityInv`). Beside it, *`RootInv`* follows the earlier root
through the slot script while no run has failed: on every disk before the script, set aside as a.old until the new one is unpacked.
*`CountInv`* says that the count the wait reads is no more than the boots since it was cleared.

`BootImageProofs` proves, for every set of builds and with or without bad writes and power cuts:

| Theorem | Property | Assuming |
| --- | --- | --- |
| `ImageTypes` | `TypeOK` | nothing more |
| `LinuxImgSafe` | `LinuxImgKept` | one tool at a time (`~Impatient`) |
| `ReplacedSafely` | `ReplacedOnceHealthy` | the same |
| `RebootsSafe` | `RebootsIntoImage` | the same |

The assumption is what `update_wait` shows to be needed. The invariant says which tools run together (`ToolsInv`) and that each step finds the file it takes, and what it read
back in the partition (`FilesInv`); then, that from the flash on the partition and every survivor have the new image, so that another boot than the one that flashed it is a
boot of that image, and a healthy mark of it is the image's own (`WaitInv`); and what `linux.img` and `twrp.img` are on every survivor while
no installer is at them (`KeptInv`). `RebootsSafe` bounds the second finding: to-twrp goes into something else than TWRP only after an installer
run was cut short. (The fourth needs a failed run likewise: until one, `EarlierRootSafe` holds.)

`MkImageProofs` proves, for every `MaxDonor`, that is for command lines of any length whose quotes come in pairs:

| Theorem | States |
| --- | --- |
| `CmdlineKept` | `CmdlineKeepsWords`: to the kernel, the line mkimage.py builds is the donor's words without the dropped ones, and the appended one |
| `NoWordLost` | the same word by word: an increasing map takes each kept word to a donor's word, and every undropped one is met |

The model reads a line by recursive functions, whose values are proved by induction along the line. The library's induction theorems take an operator, which these
provers cannot instantiate; here the induction is drawn from the least number principle, over sets and functions only (`StepByStep`, `Appending`). What
`cmdline_words` has read after each piece (*`After`*) is a state of words, a word begun, and a quote open just when an odd number of quotes came before (`QuotedOdd`). A
*`Word`* is a sequence that read from nothing stays one word: words read are such, joining them with spaces and reading again gives them back (`JoinedReads`), and
the kernel's own reading, stated by where a line breaks rather than by reading, finds the same ones (`WordsAreKernelWords`).

`DotReleaseProofs` proves, for every set of boards and releases, every first release with kernels and every number of failures:

| Theorem | Property |
| --- | --- |
| `DownloadsTypes` | `TypeOK` |
| `ImagesSigned` | `BuiltIsSigned` |
| `KernelsFit` | `KernelIsTheUnits` |
| `CmdlineAlwaysClean` | `CmdlineClean`, by `CmdlineKept` |
| `ImagesAreOurs` | `ImageIsOurs` |
| `TrustedImageKept` | `KeepsTrustedImage`, the refinement of `TrustedImage` |
| `DownloadsChecked` | `KeptOnlyChecked`: what of it is about a download's place alone |
| `RunsEnd` | each step of a run leaves fewer to go; without a fault, it stops before it has everything only for a release published between its two requests |

They rest on *`FolderInv`*: the file in hand is the one the plan has next, and every file the plan needs that is no longer ahead of the
tool is right in the folder (`Behind`). That a file was right once is not enough, since power cuts make files wrong again: it is that a cut
also ends the run, so that a tool that goes on has looked at each since. What is unpacked is right because its archive comes before it in every plan (`Ordered`).
`TrustedImageKept` needs two things more of a state: a run that works has a release published by now (*`RunInv`*), and what is being fetched is not right
yet, while what a power cut may lose is (*`ShelfInv`*).
`KernelsFit` needs only types and the shape of the choice, board by board. `ImagesAreOurs` goes path by path through the sources in their order, by what an archive
and a tree do with one that is met twice, for sources of any number (`ArchiveKeepsFirst`, `RootKeepsLast`): those two are defined by first and last meeting, not
by a fold over the sources, so that they can be reasoned about. `RunsEnd` is what of `RetriesSucceed` does not rest on the run going on: a number of steps left (*`Left`*),
at most 34 since no plan has more than seven files, that every step lowers whatever the folder holds.

`BluetoothProofs` proves, for every number of patches, limit of them, searches and ends of the bridge:

| Theorem | Property |
| --- | --- |
| `RadioTypeCorrect` | `TypeOK` |
| `OneBusOnly` | `OneBus` |
| `AnswersTrue` | `AnswerIsTrue` |
| `SearchesInHand` | `SearchInHand`, the safety part of `SearchAnswered` |
| `QuietAdapterRight` | `QuietIsRight`, the safety part of `LastAdapterRight` |

`AnswerIsTrue` needs that serve is at an answer only while the driver waits for that one, and that what it has told the driver by then is every announced patch before the
next (`AnswerInv`, beside `DriverInv`). `OneBus` needs who holds the lock and what each starter last saw of the bus (`LockInv`); what a takeover leaves is a
second invariant (`TakenInv`), since the script goes on after it; `ScriptInv` carries the bus to bluetoothd.

The last two are what the liveness properties rest on once every program goes on. `SearchInHand`: a search the driver waits for is still to be read, with serve about
to read, or is being answered, or wmtup ended or had a call fail; its invariant (*`ServeInv`*) says also that there is no search before serve runs. `QuietIsRight`: where
hci0 and bluetoothd are there, techo5-bt is past its power cycle and no call of `again` is left, the adapter is known, a loudspeaker, and findable only
in a window. *`CallsInv`* carries it: an hci0 that is to come, but for the first, has a call that will still give it its class (`Due`); one that is there has such a call, or one that
has given it and will once more (`Finishing`), or nothing is left to put right (`Quiet`). A newer call makes an older one leave off, but is due itself from the moment it does; and the
second time comes after bluetoothd has put its own settings back (*`HciInv`*).

`NetJoinProofs` proves, for every set of networks and ports and number of events:

| Theorem | Property |
| --- | --- |
| `UnitKeepsChoice` | `ChoiceKept` of `NetJoin`'s unit by itself (`UnitSpec`) |
| `SavedNetworkKept` | `ChoiceKept` of `SetWifi` |
| `ConsoleTypes` | `TypeOK` |
| `JoinedIsTrue` | `JoinedIsChosen` |
| `LateLeaseInHand` | the safety part of `LateLeaseGetsSsh`, of `NetJoin`'s unit by itself |
| `LateLeaseInHandConsole` | the same of `SetWifi` |

On every store that may be left, `wifi.conf` alone says what the unit was told (*`OwnInv`*); a `wpa_supplicant.conf` that would be used before it
has that network (*`KeptInv`*); and so has one that a supplicant in a slot was started with (*`BuiltInv`*), which is why the setup page, which writes that
file anew from what is there, keeps the choice. The first holds always; each excuse of `ChoiceKept` is a case in which the other two may fail.
*`ScriptsInv`* says that a boot's techo5-net and wifi-set never meet in a slot, only in rescue.

Over the console, *`TypedInv`* says of the lines in the unit's terminal, however many, and of the one its shell runs, that each tag is one command's, so that the answer
set-wifi.py reads for is to its own; *`OrderInv`* that what wifi-set does is what that line said; and *`JoinedInv`*, that from wifi-set's kill on, unless another
writer came between, the configuration to be used, the supplicant and the address have the order's network alone. `JoinedIsChosen` is the three together.

The late lease is treated as the boot loop is: *`WaitLeft`*, at most 6, is what rescue's loop has still to wait for (the boot's techo5-net to its end, and the
lease). With udhcpc running and the supplicant associated, no step raises it but one that stops either; the steps that count lower it; and at 0
rescue's loop finds all it looks for (*`InHand`*), so that no order of a late lease, techo5-net's end and wifi-set leaves the marker without the server.

Every invariant and every safety action property a passing run checks is a theorem. Only model-checked is liveness, which with fairness and ENABLED is beyond the
prover: `BootLoopEnds`, `RetriesSucceed`, `LateLeaseGetsSsh`, `SearchAnswered` and `LastAdapterRight`. What each rests on but fairness is proved: `BootLoopRunsOut`,
`RunsEnd`, `LateLeaseInHand`, `SearchesInHand`, `QuietAdapterRight`.

## Not modelled, and why

* The daemon, the bootloader and the kernel are not in this repository; they
  appear as nondeterministic choices (healthy or not, booting or not).
* A full or read-only store: the model's writes succeed.
* `init-donut` and the Echo Dot 3's boot.sh share the modelled logic line for
  line; their device setup is not modelled.
* Devices, users, firewall, firmware and the boot reason in boot.sh; build
  scripts; the file formats (cpio, the boot header, apk); ed25519 and SHA-256 (arithmetic TLC cannot explore), which appear as matching or not.
* Two tools at once over one work folder, whose `.partial` names they would share: the user starts them.
* In `Bluetooth`: the address kept on userdata, bluealsa's restarts, patch addresses, a second power cycle of a new hci0.
* techo5-run, techo5-logs, techo5-console: a wait, a rotation and a shell.
* In `Installer`: the wake word models, SSH keys and Wi-Fi the tool pushes, the
  retries of adb, a key on the unit that is not valid (nothing is shown then), and slot b.

## Plan

Done: every module above.

Left, in this order:

1. `Adb.push`'s retries and `wait_for` on a unit that restarts, added to `Installer`
   with the pushes it abstracts. Property: no push lands in TWRP's RAM disk.
2. `BootReason` — the mark, the crash records, a shutdown that does not finish.
3. Rounds of a full or read-only store in `DotBoot`: boot.sh does not look at whether `slotctl commit` succeeded.
4. An abstract specification of the bus lock, which `Bluetooth` would be shown to implement.
