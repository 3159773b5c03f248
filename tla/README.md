# Verification of the qimm shell

qimm is a desktop built on a copy of Weston. Its own code is small
(`src/qimm`, about 3500 lines of C); the rest of the repository is Weston 9/10
with few changes. This directory holds TLA+ specifications of the parts where
control is hard to follow and harder to test. Of qimm: which project is on
which output when monitors come and go, what of this is found again after a
restart or a kill, which clients are started for a project and found again for
their surfaces, where layouts go, and how its files are read. Of Weston, what
qimm stands on: how connectors become outputs, the repaint loop, synchronised
sub-surfaces with their buffers, and the configure sequence of toplevels.

## 1. Inventory

### The system

One process, one thread. `src/qimm/compositor/main.c` calls Weston's
`wet_main`, which loads the shell plugin (`wet_shell_init`, `shell.c`). After
that everything happens in callbacks of the Wayland event loop: signals of
Weston (an output was created, moved, destroyed; a surface was added,
committed, removed; a client died), idle callbacks, timers, and events of the
kernel. There is no preemption, but a handler writes files, and a process can
be killed between two writes; and work handed to an idle callback, a timer or
the kernel is finished after other events have changed what it was meant for.

| Part | State it keeps | Operations | Interacts with |
|---|---|---|---|
| Outputs and projects (`shell/output.c`, `project/project.c`) | the list of `qimm_output`s, for each the list of its projects and `project_cur`; `output_focus`; of each project the output it is on and the name of the output it belongs to | `handle_output_create/move/destroy`, `qimm_output_project_insert/remove/move/restore`, `qimm_project_load/prepare/show/unload` | called by signals of libweston; saves files; starts clients; places layouts |
| Project files (`project/data.c`, `share/yaml.c`) | `~/.config/qimm/<project>/config.yaml` with `config_name` and `output_name` | save, read, the reader of YAML events with a one-event look-back | called by insert and by load |
| Configuration (`project/config.c`, `projects/*.yaml`) | themes, types and layouts of `common` and of a project | read lists of mappings, free | called by load and by the setup of a project |
| Clients and layouts (`shell/client.c`, `process.c`, `layout.c`) | `qimm_layout::client`, `qimm_client::layout`, the queued startups, the place of each layout | start a project's clients from idle callbacks, notice their death, find the layout of a client, place layouts in rows | show queues startups; libwayland runs them; surfaces are looked up |
| Views (`shell/desktop.c`, `shell/layer.c`) | one `qimm_surface` per desktop surface, its layer and position | added, committed, removed, parent, activate | called by libweston-desktop; uses layouts and outputs |
| Start and end (`shell/shell.c`) | the shell itself | `wet_shell_init`, `qimm_shell_destroy`, bindings | calls all the parts in order |
| Launcher and client (`compositor/main.c`, `client/main.c`, `share/`) | none that outlives a call | options, paths, logs | - |
| libweston outputs and heads (`libweston/compositor.c`) | heads and their output, `output_list` from left to right, positions, signals | attach, detach, enable, disable, reflow, remove; `heads_changed` from an idle callback | the source of the output events |
| compositor main (`compositor/main.c`) | layoutputs, their outputs, the sections of `weston.ini` | `drm_heads_changed`: gather heads, enable, place, disable; the order of destruction at the end | creates and destroys outputs |
| Repaint loop (`libweston/compositor.c`, `backend-drm`) | the repaint status of each output, the shared timer, what the kernel still owes | schedule, start from idle, paint, flip, power off, lose the session or the monitor | paints what commits have changed; outputs are freed only after their flip |
| Surfaces (`libweston/compositor.c`, what `renderer-gl` keeps of them) | pending state, cache of a synchronised sub-surface, references to buffers, what the renderer has copied, frame callbacks | attach, commit, get and destroy a sub-surface, set and unset synchronisation, repaint | requests of clients; the repaint loop sends callbacks and drops references |
| Toplevels (`libweston-desktop/xdg-shell.c`) | pending, acknowledged and current states, the list of configures under way | set, send, acknowledge, commit, destroy | the shell sets a size when a surface is added and uses it when it is committed |

Weston's other parts - input and grabs, data devices, logs and the flight
recorder, explicit synchronisation, launchers, touch calibration, renderers,
the text backend, Xwayland, the other shells, remoting, the clients and the
test framework - are listed in `PROJECT.json` with the reason they are left
out: qimm uses them through the interfaces above, or not at all.

### What is hard

* **Long sequences of legal events.** Unplugging the only monitor leaves a
  `qimm_output` without a `weston_output` (`output.c:39-40`). Every later
  plugging, moving and restoring has to work around it.
* **Pointers kept on both sides.** A project is linked in its output's list
  and points back to it, and these are changed in three places, partly while
  the list is walked; the same holds for `layout->client` and
  `client->layout`, and for wet_outputs and the outputs they stand for.
* **A handler that is not atomic on disk.** `qimm_output_project_insert`
  truncates and rewrites a file, several times in one restore.
* **Deferred work.** Startups queued by `qimm_project_show` hold a pointer to
  a layout; an idle configure holds a pointer to a surface; a flip arrives for
  an output that was unplugged, powered off or is to be destroyed meanwhile.
* **Two copies of one thing.** A cache, a surface and the renderer refer to a
  buffer, each drops its reference in its own time, and a client counts on one
  release; what the client was told last is in the
  list of configures, or nowhere.
* **Values taken for fresh.** `output_layouted`, `output_focus` and
  `project_cur` are addresses that are compared later, when the object behind
  them may be another one; `keep_in_place` is a global flag of a reader.

### What makes each part correct

* Outputs and projects: a project is on exactly one list, of an output that
  the shell has; the project on show is on the list of its output; it keeps
  its home, and is on it when that is possible; every monitor shows a project.
* Project files: what is on disk at rest is what the running shell would
  restore, and a restart brings it back; a file is read as what it says, one
  that is cut short as nothing, and none makes a difference to the next.
* Clients and layouts: the pointers agree, no freed client is pointed to, a
  surface is given the layout of its client, what is on show has clients;
  layouts placed automatically do not cover each other.
* Outputs and heads: a connected monitor is on an enabled output and stays
  there while others come and go; outputs have one owner; they stand as
  configured.
* Repaint loop: damage reaches the screen; an output waits for a flip exactly
  when the kernel owes one; nothing holds on to an output that was freed.
* Surfaces: a commit is shown when the modes of the surfaces above say so, and
  all at once; a buffer is the compositor's until nothing has a use for it, and
  what it showed stays on the screen when it is released before that.
* Toplevels: what was set last is what the client draws in the end; contents
  come only after a configure was acknowledged.

## 2. Modules

| Module | Models |
|---|---|
| `QimmPlacement` | the abstract promise about where projects are: their place, their home |
| `QimmOutputs` | `output.c`, `project.c`, saving and reading of `data.c`/`yaml.c`, start and end of `shell.c`; one action per step of a handler |
| `QimmClients` | `client.c`, `process.c`, the search in `layout.c`, surfaces added; one action per callback |
| `QimmShell` | both together under one event loop |
| `QimmFlow` | `qimm_layout_project_update`; one step per layout |
| `QimmYaml` | `yaml.c`, and the readers of `data.c` and `config.c`; one step per event |
| `WestonHeads` | heads, outputs and reflow of `compositor.c`, deferred destruction of `drm.c`, `drm_heads_changed` of `main.c` |
| `WestonRepaint` | scheduling, timer and frames of `compositor.c` on the KMS backend |
| `WestonSync` | the abstract promise about what surfaces show |
| `WestonSurfaces` | surfaces, sub-surfaces, caches and buffers of `compositor.c` |
| `WestonXdg` | the configure sequence of a toplevel of `xdg-shell.c` |
| `MC*` | configurations, files and symmetries of the runs |
| `Qimm*_proofs`, `Weston*_proofs` | theorems about the module they are named for; those about `QimmOutputs` are in `QimmShell_proofs`, as `QimmShell` extends it |

`QimmShell` extends `QimmOutputs` and takes an instance of `QimmClients`.
`QimmOutputs` implements `QimmPlacement`, `WestonSurfaces` implements
`WestonSync`. `WestonHeads` and `WestonRepaint` are two views of an output,
which meet in its deferred destruction: `WestonHeads` keeps of the repaint loop
that a flip may be on its way, `WestonRepaint` keeps of the configuration that
outputs come and go.

### QimmOutputs

A handler that saves is a sequence of steps. `pc` says where it is, the record
`h` holds its local variables: `to` is the parameter of
`qimm_output_project_restore` or the loop variable of
`qimm_project_prepare_for_output`, `at`/`scan` the two loops of restore,
`pos`, `old` and `next` are `pos_old`, `project_old` and `project_cur` of that
function. A handler that does not save (`handle_output_destroy`) is one action.

| Action | Code |
|---|---|
| `Start`, `LoadProject`, `LoadFails`, `LoadNowhere`, `LoadDone` | `qimm_output_init`, `qimm_project_load_from_disk`, `qimm_project_read` |
| `Prepare`, `FillCreate`, `FillFails`, `FillNothing`, `ShowFirst` | `qimm_project_prepare_for_output` and the end of `handle_output_create` |
| `OutputCreated` | `handle_output_create` up to the call of restore |
| `RestoreNextOutput` ... `RestoreKeepShown` | `qimm_output_project_restore` |
| `SaveOpen`, `SaveWrite`, `SaveFails` | `qimm_data_save_project`, `qimm_yaml_write_document` |
| `OutputDestroyed` | `handle_output_destroy`, `qimm_output_project_move`, `qimm_output_destroy` |
| `Shutdown`, `Crash` | `qimm_shell_destroy`; a kill |

Objects are addresses out of a small pool (`Slots`, `Projects`), because the
code compares addresses: an output that is freed gives its address back, and a
new one may get it. `gone` are the `qimm_output`s whose `weston_output` has
been freed. A file is the home it names, `Missing`, or `Torn` (emptied and not
yet written). `wouts` is the row of enabled outputs, from left to right.
`layouted` is the `qimm_output` that a project's layouts were placed for, by its
address; where on it they are is the subject of `QimmFlow`. `LoadFails` is a
torn file, or, with `MayFail`, a project whose setup fails.
`faults` remembers what went wrong in this life: that a save or a creation
`"failed"`, that an assertion did not hold, that there was no output.

### QimmClients and QimmShell

`idle` counts the startups queued for each layout (their order is not told
apart: each is run for its layout alone). The search is modelled by the set of
steps at which `qimm_layout_find_by_client` would end and the first of them.
`QimmClients` has an environment of its own: projects come, change places and
are shown at any time. In `QimmShell` the order of the search is computed from
the outputs, and `qimm_project_show` starts the clients in the same step, in
which projects may have come or changed places already. `batch` says which
monitors the running `heads_changed` callback has treated: it is an idle
callback that looks at each head once, and the queued startups run behind it.
`unlucky` remembers that a client failed or died.

### QimmFlow and QimmYaml

A layout of a configuration is a position and a size; negative ones leave the
position to the flow and give the size as a share of the output. `placed` are
the layouts so far, `dx`, `dy` and `dy2` the local variables of the loop.
`first` is history: the layout the flow goes on from.

A document is a sequence of libyaml's events, which may end in an error at any
place. `stack` holds the calls of the readers in progress. `pos` counts events
that libyaml has produced, `keep_in_place` and the shared event are as in the
code. The reference definition is `Meaning`: what a document says, found from
the nesting of its events alone and without any reader's state. `WellFormed` is
what libyaml promises of the events of a file, whole or up to an error: ends
match starts, a document has one node, a key has a value.

### WestonHeads

The parts that share functions are operators on a record of the state, `Now`,
which `Put` assigns: detaching a head, for one, happens in a pass over the
heads and when a connector is removed. `HeadsChanged` is one whole pass of
`drm_heads_changed`, `HeadFound`, `ConnectionChanged` and `HeadDestroyed` what
the backend's hotplug handler finds, `FlipDone` the end of a deferred
destruction or disabling. Every output is named, and its name is its identity,
as the compositor refuses a name in use. `place`, which only reflow and
positioning read, is kept apart from the rest of an output. `aborted` names the
assertion that has failed; `placed`, `vanished` and `failed` are history, for
the properties.

### WestonRepaint

`out` holds of each output `repaint_status`, `repaint_needed`, the current and
previous state of the KMS backend as far as it decides what to do next, and
the three operations that wait for a flip. `RepaintTimer` is one run of
`output_repaint_timer_handler` with any set of outputs due, of which one may
fail. `flips` are the events the kernel owes. Times are left out: a timer that
is armed fires at some time. `dirty` is history: whether an output's scene has
changed since the last frame the kernel took.

### WestonSurfaces and WestonSync

`pending`, `cached` and `held` (the cache's buffer reference), `buffer` (the
surface's) and `drawn` (the renderer's) are the five places of the code;
`busy_count` counts as the code does, and `lent` is what the client knows:
buffers committed and not released.

A repaint drops references too (`Painted`). The renderer copies what it can
(`Copied`: wl_shm buffers, under GL) and lets go of the buffer; then the surface
drops its own reference, unless the backend asks it to keep the buffer for a
plane (`keep_buffer`, `state-propose.c:1149-1165`). What has been copied is
released while it is on the screen, which is what the code calls early release
and what lets a client draw with one buffer; `copy` says of which buffer the
contents are. The renderer copies only what is on the primary plane
(`composited`), and what is not there is on a plane of its own, for which the
backend keeps the buffer: this is the guard of `Repaint`. The code visits all
surfaces of an output in one call. The model visits one, any number of times and
with any choice of `composited` and `keep`, which includes what the call does.

In `WestonSync` there is only what a surface was told, what it shows next, if
anything waits, what it shows, and whether it can do without the buffer of it;
synchronised surfaces change together in one step, and a repaint changes nothing
that is shown. The refinement mapping reads "shows" as the buffer the renderer
draws, or else the one it has copied, and not as the reference of the surface,
which is NULL after an early release.

A commit, or the end of synchronisation, walks the tree and commits one cache
after the other. `flushing` holds the caches the walk has still to come to:
`Flush` commits one of them, in any order, and the next request is handled when
none is left. For `WestonSync` all of them take effect with the request: the
mapping shows what a cache still to be flushed holds as already shown, and a
`Flush` is a stutter. The surfaces above a surface (`UpTo`) are the least set
that has the surface in it and the parent of each of its elements.

### WestonXdg

One toplevel, any client and any shell. `Set` sets any states and size. The
surface's size is one number. `held` says whether the surface still has a
reference to the buffer of its contents: it has none after an early release
(`BufferReleased`), and the code then takes a commit without a buffer for an
empty one, which leaves the states alone and checks no size, and lets a client
make another xdg_surface for a surface whose first one is gone. `Prompt` is the one restriction of the
environment: with `Prompt` a shell sets nothing between an acknowledgement and
the commit that follows it. It separates the run that passes from the
counterexample of section 4.

## 3. Runs

| Run | Question | Bounds |
|---|---|---|
| `outputs` | lists, pointers and files of projects, and `QimmPlacement` | 2 monitors, 3 addresses of outputs, 2 names, any saved homes, any order of `readdir`, failures and kills at every step, any number of lives |
| `clients` | do the two pointers agree, does the search find what it should | 2 projects with 2 layouts, 3 clients, 2 startups queued per layout |
| `shell` | has what is on show its clients, are startups run, for projects that exist | 2 monitors, clients that fail and die, restarts |
| `flow` | where do layouts go | 28 layouts, configurations of up to 4, an output of 4 by 4 |
| `yaml` | are files read as what they say, do readers end | some 1500 documents: mappings of up to two entries, nested twice, many of them cut at each event, files with a second document, and files in a row |
| `heads` | are connected monitors shown, where they should be | 3 connectors, one of which can disappear; 6 contents of `weston.ini`; 2 clones per output; 4 changes; enabling may fail |
| `repaint` | is what changes shown, what holds on to what | 2 outputs, with and without atomic mode setting, session, power and monitors come and go |
| `surfaces` | do the caches keep the promise, are buffers released once | 3 surfaces in any tree, of which one has buffers, 2 buffers, of which the renderer copies one, 1 callback |
| `xdg` | is what was set last what is drawn | 2 states, 2 sizes, 3 configures |
| `doc_torn`, `doc_surface`, `doc_acked` | statements of the sources that the code does not keep | as `outputs`, `shell`, `xdg` |

Why the bounds are enough:

* `outputs`: the branches of restore and move depend on whether an output has
  a predecessor, on whether it is the last, and on whether a list has a wanted
  and an unwanted project on either side of the one on show. Two monitors with
  one output that is gone give three outputs, and three projects, which reach
  all of them; a third monitor adds neighbours that are like the first two. An
  address can be reused while another output is alive.
* `heads`: a chain of references needs three outputs to have a middle, clones
  need two heads and a third one to take over; the six files are an empty
  one, a chain around a corner, a circle beside an origin, clones named by a
  section of their own - with and without the head that can disappear - and a
  mixture of off, forced and dead ends. Three changes are enough to unplug,
  replug and unplug again; the fourth is there for the assertion that section 4
  tells of, which takes four.
* `repaint`: what one output does to another goes through the shared timer and
  the loop that fails; two outputs have both.
* `surfaces`: three surfaces give nested synchronisation with a surface in the
  middle that is or is not synchronised itself. Only one surface (`Users`) has
  buffers attached, because no step moves a buffer from one surface to
  another; trees change over all three. The buffer that is copied and the one
  that is not are in the cache, on the surface and in the renderer at once, in
  all combinations.
* `xdg`: one configure acknowledged, one skipped and one still under way.
  `"resizing"` and `"activated"` are compared and sent as the two that are
  checked, and no other code looks at them here.
* `yaml`: the reader's state is a stack and a flag, and what it does depends on
  the event and the topmost call: two levels of nesting below a value that is
  skipped, and one file behind another, reach every pair.

Every disjunct of every next-state relation is taken in a passing run.

Symmetry is used only where names make no difference to any property; `shell`
and `outputs` take free addresses in ascending order (`AllInOrder`,
`BothInOrder`), which restricts the choice of names only: an address is fresh
for every property checked there. `Alike` of the surfaces' run permutes values
that the specification treats alike, and its temporal property is a safety
property, of the form `Init /\ [][Next]_vars`.

Fairness. `Fairness` of `QimmOutputs` is weak fairness of the running handler:
the shell is one thread, and a handler that has begun is not left by anything
but the end of the process. `ShellSpec` adds weak fairness of the idle queue:
the loop of libwayland dispatches idle callbacks before it waits. The readers
of `QimmYaml` are one such handler. In `WestonRepaint` idle callbacks run, the
timer fires for an output that stays due, and the kernel completes a flip it
has accepted; painting is fair for an output that is due and not behind one
that fails, as an output that always fails stops those behind it in the code
too. No event of the outside world - a monitor, a client, a kill - is assumed
to happen.

Deadlock is not checked in `flow` (a configuration ends) and in `heads` (after
the last change, and when an assertion has failed, nothing is left to do).

### Properties

* `ListsAgree`, `NothingLost`, `CurrentIsOwn`: link and back pointer agree; no
  project is on an output that was freed; the project on show is the output's
  own, except between the insert and the show of a swap.
* `OnlyFirstGone`: at most one output outlives its `weston_output`, and it is
  the first in the list. This is why the neighbour that `move` takes is never
  a list head, and why the shell recovers at all.
* `AssertionsHold`: `output.c:22-23`, at run time and at the end.
* `RestoreComplete`: when restore ends, a project still away from its home is
  alone and on show where it is.
* `EveryOutputShows`, `EventuallyShown`: unless a creation or a save failed,
  every output at rest shows a project, whose layouts were placed for that
  output; every monitor that stays gets one.
* `HomesSaved`, `HomeKept`: home in memory and home on disk.
* `KeepsPlacement`: refinement of `QimmPlacement`. A project moves only when
  its output goes or to go home; every step of a handler in between is a
  stutter of it.
* `LayoutClientValid`, `FoundIsOwn`, `SurfaceFindsLayout`, `ShownIsStarted`,
  `StartupsRun`, `StartupsHaveProjects`: pointers between layouts and clients,
  and startups that outlive the event that queued them.
* `FlowApart`, `WithinWidth`: layouts left to the flow cover neither each other
  nor the one they follow; one that fits is not cut off at the right.
* `ReadAsWritten`, `CutIsNothing`, `ReadersOK`, `ReadingEnds`: against the
  reference; a file whose first document is cut short is nothing; the look-back does not leak into
  the next file.
* `HeadsOK`, `ConnectedShown`, `StaysShown`, `StandsAsConfigured`: no output
  without an owner, and no assertion fails but for the clones of section 4; who
  is connected is shown, stays shown, and stands where the file says.
* `AwaitsItsFlip`, `RepaintOK`, `NeverStuck`, `DamageShown`: the loop and the
  kernel agree; nothing holds on to what was freed; nothing that is needed is
  left without something to paint it, and it is painted.
* `KeepsPromise`, `LentIsUsed`, `CacheIsHeld`, `SurfacesOK`: refinement of
  `WestonSync`; a buffer is released when, and only when, no cache, no surface
  and no renderer has a use for it, and not before it was copied where it is
  released early.
* `SettledAsSet`, `ShownConfigured`, `IdleIsLive`, `NeverBack`: see the
  comments in `WestonXdg`.

The type invariants of `WestonRepaint`, `WestonHeads`, `QimmYaml` and
`WestonSurfaces` are conjuncts of their `*OK` invariants; those of
`QimmClients`, `QimmFlow` and `WestonXdg` are proved instead of checked.

## 4. Where the sources and the code disagree

With a run whose counterexample shows it:

1. `doc_torn` (`share/yaml.c:218`): a kill between truncation and write keeps
   every later start from succeeding; `qimm.h:86-87` promises restoring.
2. `doc_surface` (`layout.c:110`): the search reads the client of a layout
   that has none; `qimm.h:334-335` means it for projects not shown yet.
3. `doc_acked` (`xdg-shell.c:1080`): with no configure under way the code takes
   the current state for "last configure" (`xdg-shell.c:1079`). Between an
   acknowledgement and its commit it is not: a state set back in between is
   not sent, and the client keeps the one it acknowledged.

Seen while modelling, without a run of their own:

* A rejected atomic commit is logged and reported as success
  (`backend-drm/drm.c:660`), where `compositor.c:3007-3009` expects an error:
  the outputs wait for a flip that does not come. `WestonRepaint` models it
  under `MayReject`, which is FALSE in the run: with TRUE, TLC finds
  `AwaitsItsFlip` violated. The run and its theorem are about commits that are
  not rejected in this way.
* A head attached to an output that exists gets no `wet_head_tracker`
  (`compositor/main.c:2443`; `drm_try_attach_enable` makes them, 2183-2187).
  When such a clone is the last head of its output and its connector
  disappears, the output is not destroyed, as `main.c:1485-1490` says, but only
  disabled (`compositor.c:5565-5571`); its `wet_output` stays, and the next head
  of its layoutput fails the assertion `main.c:2441`. In the run it takes four
  changes (A and C the same as "desk", C on a hub: A is shown, C is plugged in,
  A is unplugged, C is removed and found again), and TLC gets there with
  `aborted # "attaching"` as an invariant. `HeadsOK` allows for it where a
  head that shared its layoutput has disappeared.
* A connector found again while the output it had waits for its flip to be
  freed is attached to that output (`compositor/main.c:2443`), which then goes
  (`drm.c:1848`): the monitor stays dark until connectors change again. The same
  happens to a clone behind an output that is to be disabled. `Stranded` of
  `ConnectedShown` is this, and no more: the head's layoutput has lost its
  output, and one of its connectors had disappeared. TLC gets there in the run
  with `Stranded` left out of `ConnectedShown`.
* An origin output need not stand at (0,0) (`man/weston.ini.man:581`): the
  reflow that follows a deferred removal shifts it (`compositor.c:6046`).
  This is why `StandsAsConfigured` is about positions relative to one another,
  until outputs move again.
* A project that moved leaves its layer in the scene (`output.c:227`,
  `qimm.h:71-72`), so that an output can have two projects in it.
* Layouts are not placed again when the output has moved, or when a new output
  has the address of an old one (`layout.c:126`, `qimm.h:109-110`).
* A project alone on an output that is gone is not restored when its monitor
  comes back (`output.c:273`, `output.c:223-224`); `RestoreComplete` says so.
* A project shown twice before the loop is idle has its clients started twice
  (`client.c:178`, `qimm.h:166-168`).
* `output_focus` is not changed when its output goes (`output.c:60`); all
  assistants share one directory (`project.c:93`), which `HomesSaved` allows
  for; a start without outputs dereferences NULL when a project was saved
  (`project.c:126`), modelled by `LoadNowhere`, which `CanRestart` leaves out:
  it is about starts that find an output; an output that outlived its
  `weston_output` reads and unlinks from freed memory later (`output.c:25`).
* A mapping given where a scalar is expected ends the mapping around it
  (`yaml.c:78`): the rest of the document is read one level off. This is the
  precondition of `CutIsNothing` and, as `Fits`, of `ReadAsWritten`; what holds
  of such files too is that their readers end (`ReadingEnds`) and leave nothing
  behind (`ReadersOK`).

## 5. Proofs

TLAPS checks the theorems for every value of the constants: any number of
monitors, addresses, projects, layouts and clients; any output and
configuration; any number of connectors, CRTCs and clones and any `weston.ini`;
any number of outputs with any flips under way; any trees of surfaces, buffers
and callbacks; any states, sizes and configures. They assume
what the constants' assumptions say:

* `NullAssumption` (NULL is none of the objects), `NamesAssumption` (the two
  built-in names are names), `PoolAssumption` (the pools are finite);
* the assumptions of `QimmClients` on projects, layouts and clients, and those
  of `QimmShell` that say the same of its own (`LayoutCountAssumption`,
  `ClientsAssumption`, `LayoutsAssumption`);
* `SizeAssumption` and `LayoutsAssumption` of `QimmFlow` (sizes are numbers) and
  `XdgAssumption`;
* of `WestonHeads`, that the backend finds each connector once
  (`ConnectorsAssumption`), what an output section can say (`ConfigsAssumption`:
  any mirroring, any reference, any direction), that heads are names, bounds and
  the sizes of monitors are numbers (`SizeAssumption`), and NULL is no name and no
  output;
* of `WestonRepaint`, that NULL is no output and there are finitely many
  outputs at a time (`OutputsAssumption`);
* `FilesAssumption` of `QimmYaml`: a file is a project's or a configuration,
  and its events are as libyaml's grammar has them (`WellFormed`). What is in a
  file is not restricted: libyaml gives an error for what is not YAML;
* of `WestonSurfaces`, that there are finitely many surfaces at a time
  (`FiniteAssumption`: references are counted), and that NULL, and having
  attached nothing, are not buffers.

That `malloc` always finds an address is not used.

### QimmOutputs

| Theorem | For every reachable state, or step |
|---|---|
| `TypeCorrect` | `TypeOK` |
| `ListsAlwaysAgree` | `ListsAgree`: lists and back pointers name the same outputs, each project once |
| `NoProjectLost` | `NothingLost`: no project on an output that was freed |
| `ShownIsOwn` | `CurrentIsOwn` |
| `GoneIsFirst` | `OnlyFirstGone` |
| `NoAssertionFails` | `AssertionsHold` |
| `ImplementsPlacement` | `KeepsPlacement`: initial states map to initial states, each step to a step of `QimmPlacement` or a stutter |
| `HomesAreKept` | `HomeKept` |

None of these is inductive by itself. `ListsAgree` needs to know that a project
that `restore` inserts is not on the list it goes to, which is a fact about the
local variables of the handler; the assertion in `qimm_output_destroy` needs
`CurrentIsOwn`, and this needs in the middle of the swap that `project_old`
and `project_cur` of `restore` are on different lists. The inductive invariant
`IInv` adds:

* `Named`, `Row`: an output in the shell's list has a name, and one with its
  `weston_output` is in the row under a name no other has;
* `Placed`: a project is in use exactly when it is on an output of the list;
* `GoneFirst`: an output that outlived its `weston_output` is the first;
* `LoopInv`: what the outer loop of the handler has still to visit are outputs,
  and not the new one; it is stated of `At`, the place where the handler goes
  on once the file is written, so that the two steps of a save keep it;
* `ScanInv`, `SwapInv`: what `restore` has still to look at is on the list it
  walks; the project on show it has met is there too, not to be met again, and
  still on show; the one to show instead is there and does not want to leave.

`StepInv` has one lemma per action. Steps that change only the control and the
file share `QuietStep`, steps that insert a project `InsertKeeps`, the ends of
the process `ExitStep`. The lemmas on lists (range and absence of duplicates of
`Unlink`, `InsertAfter`, `Append`, `\o`, `Head` and `Tail`) come first, with two
on numbers: `LeastOf`, that a set of numbers has a least one, and `CountUp`,
induction over a set of numbers. The refinement and `HomeKept` are proved together, from `IInv` and one
lemma for each kind of step: the place of no project changes, one returns to
its home, one comes into use, the process ends.

What the handlers achieve is proved on top of `IInv`, in the same style:

| Theorem | For every reachable state |
|---|---|
| `AlwaysAchieved` | the invariant `Achieved` |
| `EveryOutputAlwaysShows` | `EveryOutputShows`: unless a creation or a save failed, every output at rest shows a project, with its layer in the scene and its layouts placed for that output |
| `RestoreAlwaysComplete` | `RestoreComplete`: what restore leaves away from its home is alone and on show where it is |
| `HomesAlwaysSaved` | `HomesSaved`: at rest the file of a project in use names its home |

These are statements about the end of a handler, and `Achieved` says what each
of its steps has done so far:

* `Bare`, `LayersShown`, `AllShown`: the output that is being filled shows
  nothing while projects are restored to it; what is on show is in the scene;
  the outputs that show nothing are those the handler has still to come to
  (`Unshown`). An output that gives away the project on show gets another in
  the same `swap`, and that there is one is the second conjunct of `RestoreInv`.
* `LaidOut`: what an output shows has its layouts placed for it. A project that
  leaves an output is shown no more there before it is shown elsewhere.
* `RestoreInv`: outputs behind the outer loop are settled; projects behind the
  inner one do not want to leave, except the one on show, of which the loop
  remembers that it must look for another one. That it is met once and is not
  met again is `ScanInv` of `IInv`.
* `SavedInv`: a project is on disk, or is the one being saved. Assistants share
  a directory, so it is the project *or one of its name* whose home is there.
* `LoadInv`: the directories read so far have become projects, with the home on
  disk, on the output of that name when there is one.

### QimmClients

`Inductive` proves the invariant `IInv` of `QimmClients_proofs`; `TypeCorrect`,
`LayoutsPointToTheirClients` (`LayoutClientValid`) and
`SurfacesFindTheirLayouts` (`FoundIsOwn`) follow. The invariant is needed
because a layout's client is only right together with the client's layout, and
because what the last search found is only its own as long as startups and
clients exist for projects in use only. The lemmas allow projects to come and to
change places in the same step as an operation on clients, as they do in
`QimmShell`.

### QimmShell

| Theorem | For every reachable state, or step, of the composition |
|---|---|
| `OutputsAlwaysKept` | `IInv` and `Achieved`: all that is proved of `QimmOutputs` |
| `AlwaysShellInv` | `IInv`, the invariant of `QimmClients`, and `Started` |
| `ShownAreStarted` | `ShownIsStarted`: unless a client failed, what is on show has its clients |
| `StartupsAlwaysHaveProjects` | `StartupsHaveProjects`: no startup outlives its project |
| `SurfacesAlwaysFindLayouts` | `SurfaceFindsLayout` |
| `ShellKeepsPlacement` | `KeepsPlacement` and `HomeKept` |

`ShellNextIsNext` shows that each step of the composition is a step of
`QimmOutputs` or leaves its variables alone, so that an invariant of
`QimmOutputs` is one of the shell. The clients' side is an instance of
`QimmClients_proofs` in which the order of the search is the lists of the
outputs one behind the other. Its lemmas need to know which projects are in that
order, and this is where induction comes in: `Flattening` and `Joined` show, by
`CountUp` over the number of lists, that `FlattenSeq` has the elements of all
lists and no others; with `ListsAgree` these are the projects in use.
`Started` says of every output what `ShownIsStarted` says of a shell without
startups queued: that each layout on show has a client or a startup on its way.
A step of a handler shows a project on one output at most (`RunShows`), and
queues its startups in the same step.

### QimmFlow

`FlowsApart` and `NeverCutOff` prove `FlowApart` and `WithinWidth`. The
invariant adds `Passed`: every layout of the flow ends above the current row,
or left of its right end, and none ends below the row. A layout that is placed
next starts at that end or below that row, and so covers none of them.

### QimmYaml

| Theorem | For every reachable state, of any files |
|---|---|
| `ReadersStand` | the invariant `IInv` |
| `ReadersAlwaysOK` | `ReadersOK`: types, and that no reader leaves an event behind for the next file |
| `ReadersProgress` | the invariant `IInv`, `Progress` and `ReadSo` |
| `AlwaysReadAsWritten` | `ReadAsWritten`: a complete file whose first document fits its kind is read as what it says |
| `CutIsAlwaysNothing` | `CutIsNothing`: a file that is cut short inside its first document is read as nothing |

`IInv` says which reader may have called which (`Standing`: the first reads the
document, lists are read by mappings and mappings by lists), and that an event is
kept in place only while the mapping it begins, an item of a list, has not read
anything (`KeptForItem`). A reader leaves the stack after it has read, so that
nothing is kept when the stack is empty, on whatever way it ended.

What is read needs to know where the readers are. `Progress` says that the stack
is the one that belongs to the next event (`Placed`): which calls there are, and
of each where it stands (before a node, before a key or its value, before an item,
or inside of a value that is skipped) follows from what is open before that event
(`Inside`), and what the readers have in hand is what the mapping says up to it
(`Part`, which at its end is `Meaning`). Skipping counts the starts and ends of
one type only; that this is enough is `InSkip`: the depth counted is the number
of starts of that type that are open, and it falls to 0 at the end of the value
because ends match starts. After an error nothing but the loop over keys goes on, and it
gives up at the next event.

`Progress` speaks of files in which no mapping or list is given for what is read
as a value (`Trusted`): otherwise the readers are one level off (section 4). A
file that fits can be trusted, and so can one of which `CutIsNothing` speaks, so
that neither property is weakened. `ReadSo` is both properties of each file that
has been read.

What is said of files of any length by induction (that `Inside` and `ItemsTo` are
well defined, and what is open, or read, between two places) is shown for the set
of places where it holds (`CountUp`).

### WestonHeads

| Theorem | For every reachable state, or step |
|---|---|
| `AlwaysIInv` | the invariant `IInv`, with `ConnectedShown` |
| `HeadsAlwaysOK` | `HeadsOK`: nothing points to a freed output, every output that stays has a layoutput to disable it, the assertions hold |
| `ConnectedAlwaysShown` | `ConnectedShown`: when all changes are handled, exactly the heads that are wanted are on enabled outputs |
| `StaysAlwaysShown` | `StaysShown`: a head that is still wanted stays on its output, whatever becomes of the others |
| `AlwaysFits` | `Fits`: trackers, flips, places and the list of layoutputs fit the outputs there are |
| `AlwaysStandsAsConfigured` | `StandsAsConfigured`: after a pass that was not given up, and until an output goes, every output touches the one it refers to as `weston.ini` says |

A pass over the heads is one step of dozens of operations, so the invariant is
stated of the record `s` that they work on (`Good`), and each operation has a
lemma on what it does to a record. `ConnectedShown` is about the end of a pass
and says nothing to the next one; `Good` says:

* `Owned`: what `output_list` and the `wet_output`s point to exists, no two of
  them share an output, and a head is on the output of its own layoutput. This
  is why attaching a head never takes it away from another output;
* `Lit`: an output that is enabled and is to stay has a head;
* `Explained`: a `wet_output` whose output is disabled, or is about to go, has
  lost a head whose connector disappeared; with a disabled one, a clone. A pass
  by itself never leaves one behind: what it disables it also lets go of. This
  is what makes the exceptions in `ConnectedShown` and in the assertion
  those of section 4;
* `Cloned`: a head without a tracker is a clone, the other half of the finding
  about trackers;
* `Flips`: what is about to go waits for a flip.

Most operations change one output only, and `OneOutput` says that a record which
differs from a good one in one output is good when that output is
(`SoundOutput`). During a pass, a head that has been visited is `Settled`: it is
enabled, or waits to be added, or is not wanted. It stays so for the rest of the
pass (`StaysSettled`, `VisitKeeps`, `ProcessKeeps`), so at the end all heads are as
they should be. Between passes only a connector that disappears and a flip that is
done change outputs: they take some away and give none (`Shrunk`), so a head that
this makes dark is `Lost`, and stays so. The passes themselves are recursive functions of the index
(`Visited`, `Processed`), and what holds after them is shown by induction over
a set of numbers, as for `FlattenSeq`.

`StandsAsConfigured` has an invariant of its own beside `IInv`, `Placing`: the
property, with `Fits`. Both of its halves are needed for every step:

* a pass places the outputs of the layoutputs in `layoutput_list`, and the
  property is about all of them, so each layoutput with an output is in that list
  (`Listed`), and each output has a place to be moved from (`Sited`);
* between two passes nothing is placed again, so whatever moves an output has to
  take one out of `output_list`, which ends the promise (`placed` becomes
  "moved"). A removed head that destroys or disables its output does so at once
  or when a flip is done, and the output is enabled in both cases: because what
  has a tracker is on an enabled output that is not about to go (`Followed`), and
  because only an enabled output waits for a flip (`Flying`). `Still` says it:
  where the list is the same, so are the places.

The pass itself is `Positioned`. `Chain` is what one call of
`drm_position_layoutput` puts on `rec_buf` before it comes to something that is
placed, or to the origin: layoutputs with outputs, none twice, none placed before,
each referring to the next (`Leads`, `Ends`). They are moved from the last to the
first, and `Stand` is what each move keeps: what is placed refers to what is
placed, and is beside it. That an output that is moved later does not take the
ground from under those placed earlier is where `Owned` comes in: no two
layoutputs have the same output. `Beside` holds of the rounding in
`drm_position_layoutput` too (`HalfIs`).

### WestonRepaint

| Theorem | For every reachable state |
|---|---|
| `Inductive` | the invariant `IInv` |
| `RepaintOKHolds` | `RepaintOK`: no callback, flip or pending operation of an output that was freed |
| `NeverStuckHolds` | `NeverStuck`: a frame that is needed has a timer, a flip or a callback to paint it |
| `AwaitsItsFlipHolds` | `AwaitsItsFlip`, when commits are not rejected (`~MayReject`) |

The first two hold with or without `MayReject`. The third carries it as a
premise because with rejected commits the code does not keep it (section 4).
The invariant adds: a flip is owed exactly while the output remembers one, and
the output then waits (`Owed`); an output that is due has a timer (`Armed`); a
frame that is needed is not left to an idle output (`Fed`); while asleep an
output that is still on will be switched off by the flip under way
(`Darkened`), which is why waking up has to ask for a frame only of outputs
that are dark; only a session that is gone keeps the compositor off screen
(`OffScreen`); and `Completes`, the converse of the last part of `Owed`. The
proof turns `IInv` into what it says of one output (`Sound`) and of the rest
(`Whole`): most steps change one output.

### WestonSurfaces

| Theorem | For every reachable state, or step |
|---|---|
| `AlwaysIInv` | the invariant `IInv` |
| `SurfacesAlwaysOK` | `SurfacesOK`: trees without circles, types, counts |
| `LentIsAlwaysUsed` | `LentIsUsed`: a buffer is the compositor's exactly as long as a cache, a surface or the renderer has a use for it, and what is still to be copied is still the surface's |
| `CacheIsAlwaysHeld` | `CacheIsHeld`: what a cache will show was neither released nor destroyed |
| `PromiseKept` | `KeepsPromise`: the refinement of `WestonSync`, step by step, early releases included |

`IInv` is `TreeOK`, `Good` of the references, that only sub-surfaces have
caches, and that only those are flushed. `Good` says that the count of a buffer
is the number of references to it from caches, surfaces and the renderer
(`Counted`, three cardinalities), that lent is what is counted (`Fair`), that a
cache points to what it holds (`Kept`), and that what is drawn is not copied yet
and, where it has to be copied, is still the surface's (`Drawing`): this is why
an early release never takes away what is still to be copied, and why the mapping
can read what is shown off either the renderer's reference or its copy. Each operation of the code has a lemma that
says what it does to a record of references, and `Fair` is stated with the
buffer that is about to be taken: between the two halves of
`weston_buffer_reference` it does not hold otherwise. For the refinement, each
request maps to its step of `WestonSync`, and each `Flush` to a stutter. That the caches a
commit flushes are those `WestonSync` says wait for it follows from the least
sets of the tree, without induction.

### WestonXdg

`ShownAreConfigured`, `QueuedAreLive` and `NeverGoesBack` prove
`ShownConfigured`, `IdleIsLive` and `NeverBack`, with or without `Prompt`. The
invariant adds `Stages` - what the surface has reached implies the stage before
it - and `InOrder`: configures under way are in the order of their serials,
newer than the one acknowledged last and no newer than the display's serial.

`SettledIsAsSet` proves `SettledAsSet` for a shell that is `Prompt`, and has
`Prompt` as its premise: without it `doc_acked` is a counterexample. Its
invariant is `Told`: with no news queued, the last configure under way, or
with none under way the one acknowledged last, has the states that were set
last.

### What is only model-checked

Liveness (`EventuallyShown`, `StartupsRun`, `ReadingEnds`, `DamageShown`) stays
with TLC: it needs fairness and `ENABLED`, which the prover has no rules for.
No module declares a RECURSIVE operator. The library's induction theorems have
an operator as a parameter and cannot be used; induction over a *set* of numbers
can, and is where a fact about lists or files of any length is needed. Every
other property of a passing run is a theorem.

## 6. What is not modelled

Left out of what is modelled:

* `QimmOutputs`: names of files, contents of a project other than its home,
  positions and sizes of outputs, memory exhaustion other
  than the failures named by `MayFail`, symbolic links or foreign directories
  under the data path, `handle_output_move` (it moves views only).
* `desktop.c`: mapping, layers and positions of views. Each is one assignment
  made again at every commit, from the layout that `QimmClients` finds and
  `QimmFlow` places; the only relation between them that could be stated, that
  a view is at the place of its layout, is not kept by the code for outputs
  that move (section 4).
* `QimmClients`: at the end of the shell all clients are taken to be gone. Those
  that a double startup has left without a layout are not destroyed by
  `qimm_layout_project_clear` but end with the process, before which no callback
  of theirs runs.
* `QimmYaml`: the emitter, `common.yaml` and the search for data directories;
  memory that a reader frees on an error.
* `WestonHeads`: modes, scales, transforms and EDIDs; the simple configuration
  of the other backends.
* `WestonRepaint`: presentation times and feedback, planes, capture, virtual
  outputs, the animations, and repaints that animations or a repick schedule from
  within `weston_output_repaint`; on the legacy interface the failure of a single
  output (`kms.c:1271-1282`) other than for the loss of the DRM master.
* `WestonSurfaces`: damage, regions, viewports and fences, which go through the
  same cache in the same way; stacking and positions of sub-surfaces, which are
  applied with the parent; references that the backend keeps of buffers on
  planes of their own, and a switch of the renderer. That the GL renderer copies
  only what is damaged, and can go on drawing a dmabuf whose wl_buffer is
  destroyed, is left out: the model takes a copy for whole and a buffer destroyed
  uncopied for gone.
* `WestonXdg`: popups, limits of sizes, titles and parents, ping and pong, the
  older version of the protocol.
* The components with the status `not_modelled`. Input, data devices, logs and
  the other shells are upstream code that qimm calls without relying on their
  state, or does not load; a model of them would say nothing about qimm.

