-------------------------- MODULE MCBufferRuntime ---------------------------
(***************************************************************************)
(* Small instances of BufferRuntime: what applications submit.             *)
(***************************************************************************)
EXTENDS BufferRuntime

CONSTANTS Gpu1, Gpu2

Access(mode, elements) == [mode |-> mode, elements |-> elements]
Kernel(bound, accesses) ==
    [kind |-> "kernel", bound |-> bound, accesses |-> accesses, own |-> NoAccess]
HostAccessor(access) ==
    [kind |-> "host", bound |-> Host, accesses |-> <<>>, own |-> access]
Update(bound, access) ==
    [kind |-> "update", bound |-> bound, accesses |-> <<access>>, own |-> access]

\* Three elements on two pages, of which the second one is cut short.
First == {0, 1}
Second == {2}
Whole == {0, 1, 2}

\* Ranges smaller than, equal to and larger than a page, on one GPU and the host.
OneGpu ==
    {Kernel(Gpu1, <<Access("read", Whole)>>),
     Kernel(Gpu1, <<Access("read_write", {1}), Access("discard_write", Second)>>),
     HostAccessor(Access("read_write", {1, 2}))}

\* Data that moves between GPUs.  No two kernels only read.
TwoGpus ==
    {Kernel(Gpu1, <<Access("read_write", First)>>),
     Kernel(Gpu2, <<Access("write", {1})>>),
     HostAccessor(Access("read_write", Whole))}

BufferApplications == {OneGpu, TwoGpus}

\* Kernels that may overlap on the lanes of a GPU, one of them without a device.
ManyLanesApplications ==
    {{Kernel("none", <<Access("read_write", Whole)>>),
      Kernel(Gpu1, <<Access("read", First)>>),
      Kernel(Gpu1, <<Access("write", Second)>>)}}

\* Allocations and dispatches that fail, a kernel that names the events of others.
FailureApplications ==
    {{Kernel(Gpu1, <<Access("read", First), Access("read_write", Whole)>>),
      Kernel(Gpu1, <<Access("discard_write", Second)>>),
      HostAccessor(Access("read", Whole))}}

\* handler::update_host(), then a host accessor for the same data.
UpdateApplications ==
    {{Update(Host, Access("read_write", Whole)), HostAccessor(Access("read_write", Whole))}}

\* Two pages, the first of which is written on a GPU, and read on another one.
SpreadPagesApplications ==
    {{Kernel(Gpu1, <<Access("read_write", First)>>), Kernel(Gpu2, <<Access("read", Whole)>>)}}

\* Kernels that only read.
ReaderApplications == {{Kernel(Gpu1, <<Access("read", Whole)>>)}}

\* Three pages, of which a kernel reads the middle one and another one all.
PageWiseApplications ==
    {{Kernel(Gpu1, <<Access("read", {1})>>), Kernel(Gpu1, <<Access("read", Whole)>>)}}
=============================================================================
