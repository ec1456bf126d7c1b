# TLA+ models of MiniCore-OS

This directory holds TLA+ specifications of the kernel core in `src/`. They cover the
interrupt layer, the heap allocator, the task scheduler, the file table, and the shell's
line editor composed with the interrupt layer. With them come the TLC configurations that check them. Every definition is
translated from the C source. `PROJECT.json` maps each definition to the lines it
models and lists the runs, mutants, findings and hazards.

## The system

| Part | Source | State | Operations |
|---|---|---|---|
| Interrupt layer | `isr.c` | `interrupt_handlers[256]`; the two 8259 PICs (mask and in-service registers) | `isr_init`, `register_interrupt_handler`, `isr_handler`, `irq_handler`, `irq_ack`, `irq_enable`, `irq_disable` |
| Heap allocator | `mm.c` | address-ordered block list from `heap_head` (`size`, `is_free`, `next`, `prev`); `mem_stats` | `mm_init`, `kmalloc`, `kmalloc_aligned`, `kcalloc`, `kfree`, `krealloc`, `mm_get_stats`, `mm_validate_pointer`, `mm_check_heap_integrity` |
| Scheduler | `scheduler.c` | `tasks[MAX_TASKS]`, ready queue (`task_queue_head/tail`, `next` links), `current_task`, `next_task_id`, `system_ticks` | `scheduler_init`, `task_create`, `scheduler_tick`, `schedule`, `switch_to_task`, `task_yield`, `task_sleep`, `task_exit` |
| File table | `fs.c` | `filesystem.files[16]`, `file_count`, `fs_initialized` | `fs_init` (+ `fs_create_demo_files`), `fs_add_file`, `fs_find_file`, `fs_read` |
| Shell, keyboard | `shell.c` | line buffer, `buffer_pos`, `keyboard_state` | `keyboard_handler`, `shell_process_input`, `shell_backspace`, command table |
| Terminal, `kernel_main` | `kernel.c` | VGA cursor and colour | output only; `kernel_main` runs `mm_init`, a memtest, then halts |
| Paging | `mm.c` | a page directory that is never loaded | `paging_init` (inert) |

The parts interact like this:
- Hardware enters the kernel only through the interrupt layer.
- The timer IRQ is meant to call `scheduler_tick`.
- The keyboard IRQ calls `keyboard_interrupt_handler`, which runs the shell.
- Shell commands call the allocator (`memtest`), `task_create` (`starttasks`), `irq_enable` and `sti` (`enableints`), and the file table (`ls`, `cat`).

In `src/`, nothing calls `register_interrupt_handler`, `isr_init` or `scheduler_init`. The IDT setup is not part of the sources either.

## Modules

- **`Heap.tla`** models `mm.c`.
  - The block list is a sequence of `[addr, size, is_free]` records in address order. The `prev`/`next` links are implied by the order, and `addr` is an offset from `heap_start`.
  - `mem_stats` is a record with the fields of `mem_stats_t`.
  - `live` is the callers' view: each pointer they hold, the block it came from, the alignment, and the size they asked for.
  - Helpers are operators:
    - `find_free_block` → `FindFreeBlock`
    - `split_block` → `SplitBlock`
    - `merge_free_blocks` → `MergeNext` / `MergePrev` (its two `while` loops, as `RECURSIVE` operators)
    - `kmalloc`'s body → `KmallocOp`
    - `kfree`'s body → `KfreeOp`
  - Each API call is one action and includes every helper it calls. `krealloc` has three: `KreallocFree`, `KreallocInPlace` and `KreallocMove`.
  - `size_t` arithmetic wraps modulo `2^SizeWidth`.
  - `MmCheckHeapIntegrity` translates the kernel's own diagnostic. No run checks it on its own: its bounds and link checks follow from `BlocksTileArena`.
  - `Arena.tla` is the heap's abstract specification. It has no block list: each caller holds a pointer into a region, and the regions in use are disjoint and all held. Each call hands out one region, takes one back, or replaces one caller's region.
  - `Heap` instantiates `Arena` with the refinement mapping `HeldRegions`/`UsedRegions`: each live pointer with the payload of its block, and the payloads of the used blocks.
- **`Scheduler.tla`** models `scheduler.c`.
  - `tasks` maps a slot to `[id, state, time_remaining, sleep_until, next]`.
  - The queue head and tail, `current_task`, `next_task_id` and `system_ticks` are variables of their own.
  - The queue helpers, `switch_to_task`, `schedule` and the wake loop are operators on a record of the whole kernel state (`KS`). `SetKS` assigns it back. This lets `task_sleep` → `schedule` → `task_queue_add` compose as they do in C.
  - `uint32_t` arithmetic is modulo `2^Width`.
  - `sleep_owed` is a history variable: the ticks a sleeper still has to wait.
  - `ReadyQueue` walks the `next` links from the head, as `task_queue_remove_next` would hand the tasks out. It is used only by the property `ReadyQueueHoldsReady`.
- **`Interrupts.tla`** models `isr.c`.
  - The handler table is the set of vectors with a handler.
  - The PIC pair is the environment (`PicDeliver`). Mask and in-service registers are sets of bit positions. A line is delivered when it is unmasked, the cascade line is open, and no line of equal or higher priority is in service. A non-specific EOI clears the highest-priority in-service bit.
  - `irq_handler` is one step: `irq_ack`, the handler (abstract), then return.
  - An unhandled exception moves the CPU to `"halted"`, where nothing is enabled.
- **`FileTable.tla`** models `fs.c`. Names and contents are model values with a length.
  - `FileMap.tla` is its abstract specification: a bounded, insert-if-absent name → content map with the same result codes.
  - `FileTable` instantiates `FileMap` with the refinement mapping `Directory`: each name among the first `file_count` entries, with the content of its first entry.
- **`Console.tla`** models `shell.c` and the column logic of `terminal_putchar`, and EXTENDS `Interrupts`.
  - State:
    - `keyboard_state` is the set of bits set: SHIFT and CTRL.
    - `input_buffer` is the `SHELL_BUFFER_SIZE` array, with `NUL` for a cleared byte, and `buffer_pos` indexes it.
    - `terminal_column` is the echo cursor.
    - `if_flag` is the CPU interrupt flag. It is clear at boot and set only by `sti` in `cmd_enableints`.
  - The keyboard is the environment. A key is pressed (`ShellProcessInput`, `ShellBackspace`, `ShellEnter`, `KeyShiftPress`, `KeyCtrlPress`) or a modifier is released (`KeyShiftRelease`, `KeyCtrlRelease`). Together these are every branch of `keyboard_handler`.
  - `shell_parse_command`, `shell_find_command` and `shell_execute_command` are operators. The whitespace loops are `RECURSIVE`.
  - Command names are words over the key alphabet. `CmdTable` maps them to what the command does to the modelled state:
    - `halt` runs `cli` and `hlt`;
    - `enableints` runs `irq_enable(1)`, `irq_enable(0)` and `sti`;
    - every other command leaves this state alone.
  - `InterruptStep` is the interrupt layer's step, with a PIC delivery possible only while `if_flag` is set. This is the composition the code really has once `enableints` runs: IRQs taken with no handler registered.
  - `held` (the shift keys physically down), `ref_line` (what a line editor would hold) and `executed` (the last command run) are history variables for the properties.
- **`MC*.tla`** give the constants their values for TLC. Each `.cfg` names one question.

## Runs

| Run | Config | Result | What it shows |
|---|---|---|---|
| heap_pass | `MCHeap.cfg` | pass, 193,518 states | The blocks tile the arena. No two callers share memory, and each caller's block fits the request. Freeing everything coalesces back to one block. The allocator implements `Arena`: no call changes another caller's region, and no used block is left unheld. |
| heap_stats | `MCHeapStats.cfg` | violation | `used + free` drifts from the arena minus header overhead after the first split (mm.c:152). |
| heap_shape | `MCHeapShape.cfg` | violation | `kcalloc(3,24)` then an in-place `krealloc(p, 1)` leaves a free tail beside a free block, at an offset that is not a multiple of 8 (mm.c:239). Both coalescing and the 8-byte alignment of later payloads are lost. |
| heap_overflow | `MCHeapOverflow.cfg` | violation | `kmalloc(2^16-1)` rounds to 0 and returns a 0-byte block (mm.c:138). |
| sched_pass | `MCScheduler.cfg` | pass, 1,010,081 states | Only `current_task` is RUNNING, across every interleaving of create, tick, yield, sleep and exit. |
| sched_sleep | `MCSchedulerSleepRespected.cfg` | violation | Sleeping with an empty queue leaves the sleeper current. It is woken and runs again before its ticks have passed. |
| sched_slice | `MCSchedulerSlice.cfg` | violation | `time_remaining` wraps after a slice expires with nothing queued. |
| sched_queue | `MCSchedulerQueue.cfg` | violation | A task sleeps with an empty queue and stays current. Another task is created. A tick wakes the sleeper and queues it while it keeps running. Its next `task_sleep` leaves a SLEEPING task on the ready queue (scheduler.c:141). A later wake or `task_create` re-links the slot, which is still queued. |
| sched_starve | `MCSchedulerStarve.cfg` | violation | From boot `current_task` is NULL, and then ticks never dispatch the READY tasks: the trace creates a task and ticks for ever. Only boot or `task_exit` leaves `current_task` NULL; `task_sleep` with an empty queue keeps it set. |
| console_pass | `MCConsole.cfg` | pass, 450,560 states | Keyboard input, `enableints`, `halt` and the interrupts taken afterwards are interleaved. Each `irq_handler` leaves both PICs with nothing in service, and the masks match the `irq_enable`/`irq_disable` calls. The buffer always holds what a line editor would. Enter runs the command named by the first word. |
| console_shift | `MCConsoleShift.cfg` | violation | Press right shift, press left shift, release left shift: SHIFT is cleared while right shift is still down, so the next letter is lower case (shell.c:179). |
| filetable_refines | `MCFileTable.cfg` | pass, 1,058 states | The file table refines `FileMap`. |

Each property of a passing run has a mutant in `PROJECT.json`: a plausible bug in the mapped code that TLC catches under the same configuration. Examples:
- no forward-merge loop
- `irq > 8` in `irq_ack`
- a duplicate scan that stops one entry short
- a buffer bound of `SHELL_BUFFER_SIZE` instead of `SHELL_BUFFER_SIZE - 1`
- a parser that does not skip leading blanks
- `krealloc`'s move path without its `kfree`

## Bounds and why they suffice

- **Heap**: a 160-byte arena with 16-byte headers (i386 `mem_block_t`) and the 32-byte split slack.
  - Sizes are 8 and 24, calloc count is 3 and alignment is 16. There are at most 5 allocations.
  - This reaches splits and non-splits (24+16+32 < 144, but 8 in a 24-block does not split), merges forward and backward, and each `krealloc` path.
  - `SizeWidth = 16` keeps the arithmetic exact except where the overflow runs pass sizes of 2^16-1.
- **Scheduler**: 2 slots, slice 2, grace window 1 tick, 3-bit `uint32_t`, sleeps of 1 and 3 ticks, and at most 3 task creations.
  - Two tasks suffice for every queue shape: empty, one, two, and a task queued behind itself.
  - A 3-bit tick counter wraps within the run, so wake times and slices meet their wrap.
  - The grace window is 1 rather than 100 ticks. It only delays the first decrement.
- **Interrupts** are checked inside the console run, so they use its bounds. Exception vector 0 is the one that can be raised, and vector 0 has a handler registered. Vector 0 is registered so that `isr_handler`'s handled path is reachable. No IRQ vector has a handler, as in `src/`.
- **Console**:
  - IRQs 0, 1 and 8 cover the master lines `enableints` unmasks and one slave line.
  - A 4-byte buffer holds 3 characters, so the `SHELL_BUFFER_SIZE - 1` bound is hit.
  - The keys are `l`, `s`, space and ESC (which maps to 0). Command words are made from them: `l` is `halt`, `s` is `enableints`, and `ls` is a command with no modelled effect.
  - One shift key in the passing run; two in `console_shift`, the least that shows the defect.
  - An 80-column screen in the passing run, with the prompt at column 10.
- **File table**: 4 slots, 5 names and 3 contents.
  - One name is exactly 32 bytes and one content exactly 4096 bytes, the two rejection boundaries.
  - One preloaded file, so the table fills after three more adds.

## Fairness

One fairness assumption is made, and only one run relies on it.

In `Scheduler`, timer ticks keep coming: `[]<><<SchedulerTick>>_vars`.
- `scheduler_tick` has no guard and always advances `system_ticks`, so this is exactly weak fairness of the tick.
- It is the assumption of spec section 4.3, not a guarantee of `src/`: nothing registers `scheduler_tick` for IRQ0, so in the code as written no tick ever arrives.
- Only `sched_starve` checks a liveness property. It asks whether the spec's round-robin claim holds even with the ticks the spec assumes, and it does not. No passing run checks liveness, because no liveness of the scheduler is guaranteed by the code.
- No fairness is assumed for task calls (yield, sleep, exit, create). Tasks may stop calling them.

`Console` assumes no fairness and its run checks only safety. That `irq_handler` returns to the shell is one unconditional assignment (isr.c:110), not worth a property.

## Not modelled, and why

- Payload bytes (`memset`, `memcpy`), task names, register contexts and stacks: no property reads them.
- Terminal output, and `fs_list` / `fs_print_file_info`: output only.
- `paging_init`: inert.
- In the shell:
  - the screen's rows and cell contents;
  - what `memtest`, `starttasks`, `ls` and `cat` do to the heap, the scheduler and the file table. Those modules check the same calls on their own.
- The shell is not linked into the kernel. `kernel_main` never calls `shell_init` or `shell_run`. `shell.c` calls `terminal_clear` and `terminal_scroll_up`, which nothing defines. `vga_entry_color` is `static inline` in `kernel.c`. `Console` models the shell as its own source describes it.
- The kernel composition. `src/` wires nothing together beyond `kernel_main`'s own calls. Nothing calls `register_interrupt_handler`, `isr_init`, `scheduler_init`, `fs_init`, `shell_init` or `shell_run`, and the boot path never sets the interrupt flag.
  - So the composition the code has is `kernel_main`'s straight-line boot, a single behaviour: `mm_init`, then `process_command("memtest")` (`kmalloc`, `kmalloc`, `kcalloc`, three `kfree`s), then `hlt` with interrupts off.
  - Its calls are `Heap` actions, and `heap_pass` checks them in every order.
  - The interleavings the spec describes (a timer tick inside a scheduler call, a keyboard IRQ inside `kmalloc`) need handler registrations that `src/` does not make.
- The cursor's echo after a line wraps past the screen width. Backspace at column 0 does not step back (shell.c:226), so the cursor stops matching the buffer. No run checks it: the cursor is output only, and no command reads it.
- Calls that read memory the model does not represent:
  - `kfree` of a `kmalloc_aligned` pointer;
  - a double free after the block was reused;
  - `kcalloc(0, n)`, whose divide error goes through an IDT that is not in `src/`.

- FIFO order of the ready queue (spec section 8, scenarios B and C) as a passing property. A task woken by `scheduler_tick` should be queued behind every task already waiting. Checked under `MCScheduler.cfg`, this fails in 14 states, and the cause is the one `sched_queue` reports: a task that is still queued is re-queued (scheduler.c:102). The same holds for an abstract round-robin specification of `Scheduler`. Every ordering property of the queue fails the same way, so `sched_queue` is the run that asks the question.
- The wrap of `system_ticks` past the 100-tick grace window, and of `next_task_id` after 2^32 creations. Both need about 2^32 steps at the code's width. At a smaller `Width` they would be a different program: the grace window would be a large part of the counter's range.
