--------------------------- MODULE VulkanCommands ---------------------------
(***************************************************************************)
(* The generated Vulkan surface, gpu/vulkan/commands.hpp: one entry for    *)
(* each command, with what a program that calls it has to know.            *)
(*                                                                         *)
(* A command has two overloads. The exact one takes Vulkan's own types; in *)
(* the other every by-value parameter is a long long (or a double), cast   *)
(* to the Vulkan type in the body. `in` lists those parameters in order: a *)
(* handle by its kind (reinterpret_cast), a number by the width it is cast *)
(* to (static_cast): "u16", "u32" (counts, indices, flags, VkBool32),      *)
(* "i32", "enum", "u64" (VkDeviceSize, uint64_t, size_t, 64-bit flags) and *)
(* "f32". Pointers, and with them out-parameters and arrays, are the same  *)
(* in both overloads and are not listed.                                   *)
(***************************************************************************)
EXTENDS TLC

NoNote == "none"

\* A command that neither hands out a handle nor takes one back.
Call(in) == [does |-> "call", kind |-> "none", note |-> NoNote, in |-> in]

\* Hands back a new handle of this kind; its @destroy note names the command that must release it.
Makes(kind, note, in) == [does |-> "make", kind |-> kind, note |-> note, in |-> in]

\* Hands back a handle of something that belongs to one of the arguments.
Lends(kind, in) == [does |-> "lend", kind |-> kind, note |-> NoNote, in |-> in]

\* Ends the life of a handle of this kind, its last argument or the array behind it.
Frees(kind, in) == [does |-> "free", kind |-> kind, note |-> NoNote, in |-> in]

-----------------------------------------------------------------------------
(* #ifdef VK_VERSION_1_0 *)

InstanceCommands ==
  [ CreateInstance |-> Makes("Instance", "DestroyInstance", <<>>),
    DestroyInstance |-> Frees("Instance", <<"Instance">>),
    EnumeratePhysicalDevices |-> Lends("PhysicalDevice", <<"Instance">>),
    GetPhysicalDeviceFeatures |-> Call(<<"PhysicalDevice">>),
    GetPhysicalDeviceFormatProperties |-> Call(<<"PhysicalDevice", "enum">>),
    GetPhysicalDeviceImageFormatProperties |-> Call(
        <<"PhysicalDevice", "enum", "enum", "enum", "u32", "u32">>),
    GetPhysicalDeviceProperties |-> Call(<<"PhysicalDevice">>) ]

PhysicalDeviceQueries ==
  [ GetPhysicalDeviceQueueFamilyProperties |-> Call(<<"PhysicalDevice">>),
    GetPhysicalDeviceMemoryProperties |-> Call(<<"PhysicalDevice">>),
    GetInstanceProcAddr |-> Call(<<"Instance">>),
    GetDeviceProcAddr |-> Call(<<"Device">>) ]

DeviceCommands ==
  [ CreateDevice |-> Makes("Device", "DestroyDevice", <<"PhysicalDevice">>),
    DestroyDevice |-> Frees("Device", <<"Device">>),
    EnumerateInstanceExtensionProperties |-> Call(<<>>),
    EnumerateDeviceExtensionProperties |-> Call(<<"PhysicalDevice">>),
    EnumerateInstanceLayerProperties |-> Call(<<>>),
    EnumerateDeviceLayerProperties |-> Call(<<"PhysicalDevice">>) ]

QueueCommands ==
  [ GetDeviceQueue |-> Lends("Queue", <<"Device", "u32", "u32">>),
    QueueSubmit |-> Call(<<"Queue", "u32", "Fence">>),
    QueueWaitIdle |-> Call(<<"Queue">>),
    DeviceWaitIdle |-> Call(<<"Device">>) ]

MemoryCommands ==
  [ AllocateMemory |-> Makes("DeviceMemory", "FreeMemory", <<"Device">>),
    FreeMemory |-> Frees("DeviceMemory", <<"Device", "DeviceMemory">>),
    MapMemory |-> Call(<<"Device", "DeviceMemory", "u64", "u64", "u32">>),
    UnmapMemory |-> Call(<<"Device", "DeviceMemory">>),
    FlushMappedMemoryRanges |-> Call(<<"Device", "u32">>),
    InvalidateMappedMemoryRanges |-> Call(<<"Device", "u32">>) ]

BindingCommands ==
  [ GetDeviceMemoryCommitment |-> Call(<<"Device", "DeviceMemory">>),
    BindBufferMemory |-> Call(<<"Device", "Buffer", "DeviceMemory", "u64">>),
    BindImageMemory |-> Call(<<"Device", "Image", "DeviceMemory", "u64">>),
    GetBufferMemoryRequirements |-> Call(<<"Device", "Buffer">>),
    GetImageMemoryRequirements |-> Call(<<"Device", "Image">>),
    GetImageSparseMemoryRequirements |-> Call(<<"Device", "Image">>) ]

SparseCommands ==
  [ GetPhysicalDeviceSparseImageFormatProperties |-> Call(
        <<"PhysicalDevice", "enum", "enum", "enum", "u32", "enum">>),
    QueueBindSparse |-> Call(<<"Queue", "u32", "Fence">>) ]

FenceCommands ==
  [ CreateFence |-> Makes("Fence", "DestroyFence", <<"Device">>),
    DestroyFence |-> Frees("Fence", <<"Device", "Fence">>),
    ResetFences |-> Call(<<"Device", "u32">>),
    GetFenceStatus |-> Call(<<"Device", "Fence">>),
    WaitForFences |-> Call(<<"Device", "u32", "u32", "u64">>) ]

SemaphoreAndQueryCommands ==
  [ CreateSemaphore |-> Makes("Semaphore", "DestroySemaphore", <<"Device">>),
    DestroySemaphore |-> Frees("Semaphore", <<"Device", "Semaphore">>),
    CreateQueryPool |-> Makes("QueryPool", "DestroyQueryPool", <<"Device">>),
    DestroyQueryPool |-> Frees("QueryPool", <<"Device", "QueryPool">>),
    GetQueryPoolResults |-> Call(<<"Device", "QueryPool", "u32", "u32", "u64", "u64", "u32">>) ]

BufferAndImageCommands ==
  [ CreateBuffer |-> Makes("Buffer", "DestroyBuffer", <<"Device">>),
    DestroyBuffer |-> Frees("Buffer", <<"Device", "Buffer">>),
    CreateImage |-> Makes("Image", "DestroyImage", <<"Device">>),
    DestroyImage |-> Frees("Image", <<"Device", "Image">>),
    GetImageSubresourceLayout |-> Call(<<"Device", "Image">>) ]

ImageViewCommands ==
  [ CreateImageView |-> Makes("ImageView", "DestroyImageView", <<"Device">>),
    DestroyImageView |-> Frees("ImageView", <<"Device", "ImageView">>) ]

CommandPoolCommands ==
  [ CreateCommandPool |-> Makes("CommandPool", "DestroyCommandPool", <<"Device">>),
    DestroyCommandPool |-> Frees("CommandPool", <<"Device", "CommandPool">>),
    ResetCommandPool |-> Call(<<"Device", "CommandPool", "u32">>),
    AllocateCommandBuffers |-> Makes("CommandBuffer", "FreeCommandBuffers", <<"Device">>),
    FreeCommandBuffers |-> Frees("CommandBuffer", <<"Device", "CommandPool", "u32">>) ]

CommandBufferCommands ==
  [ BeginCommandBuffer |-> Call(<<"CommandBuffer">>),
    EndCommandBuffer |-> Call(<<"CommandBuffer">>),
    ResetCommandBuffer |-> Call(<<"CommandBuffer", "u32">>) ]

CopyCommands ==
  [ CmdCopyBuffer |-> Call(<<"CommandBuffer", "Buffer", "Buffer", "u32">>),
    CmdCopyImage |-> Call(<<"CommandBuffer", "Image", "enum", "Image", "enum", "u32">>),
    CmdCopyBufferToImage |-> Call(<<"CommandBuffer", "Buffer", "Image", "enum", "u32">>),
    CmdCopyImageToBuffer |-> Call(<<"CommandBuffer", "Image", "enum", "Buffer", "u32">>) ]

UpdateAndBarrierCommands ==
  [ CmdUpdateBuffer |-> Call(<<"CommandBuffer", "Buffer", "u64", "u64">>),
    CmdFillBuffer |-> Call(<<"CommandBuffer", "Buffer", "u64", "u64", "u32">>),
    CmdPipelineBarrier |-> Call(<<"CommandBuffer", "u32", "u32", "u32", "u32", "u32", "u32">>) ]

QueryRecordingCommands ==
  [ CmdBeginQuery |-> Call(<<"CommandBuffer", "QueryPool", "u32", "u32">>),
    CmdEndQuery |-> Call(<<"CommandBuffer", "QueryPool", "u32">>),
    CmdResetQueryPool |-> Call(<<"CommandBuffer", "QueryPool", "u32", "u32">>),
    CmdWriteTimestamp |-> Call(<<"CommandBuffer", "enum", "QueryPool", "u32">>),
    CmdCopyQueryPoolResults |-> Call(
        <<"CommandBuffer", "QueryPool", "u32", "u32", "Buffer", "u64", "u64", "u32">>),
    CmdExecuteCommands |-> Call(<<"CommandBuffer", "u32">>) ]

EventCommands ==
  [ CreateEvent |-> Makes("Event", "DestroyEvent", <<"Device">>),
    DestroyEvent |-> Frees("Event", <<"Device", "Event">>),
    GetEventStatus |-> Call(<<"Device", "Event">>),
    SetEvent |-> Call(<<"Device", "Event">>),
    ResetEvent |-> Call(<<"Device", "Event">>) ]

BufferViewAndShaderCommands ==
  [ CreateBufferView |-> Makes("BufferView", "DestroyBufferView", <<"Device">>),
    DestroyBufferView |-> Frees("BufferView", <<"Device", "BufferView">>),
    CreateShaderModule |-> Makes("ShaderModule", "DestroyShaderModule", <<"Device">>),
    DestroyShaderModule |-> Frees("ShaderModule", <<"Device", "ShaderModule">>) ]

PipelineCacheCommands ==
  [ CreatePipelineCache |-> Makes("PipelineCache", "DestroyPipelineCache", <<"Device">>),
    DestroyPipelineCache |-> Frees("PipelineCache", <<"Device", "PipelineCache">>),
    GetPipelineCacheData |-> Call(<<"Device", "PipelineCache">>),
    MergePipelineCaches |-> Call(<<"Device", "PipelineCache", "u32">>) ]

ComputePipelineCommands ==
  [ CreateComputePipelines |-> Makes("Pipeline", NoNote, <<"Device", "PipelineCache", "u32">>),
    DestroyPipeline |-> Frees("Pipeline", <<"Device", "Pipeline">>),
    CreatePipelineLayout |-> Makes("PipelineLayout", "DestroyPipelineLayout", <<"Device">>),
    DestroyPipelineLayout |-> Frees("PipelineLayout", <<"Device", "PipelineLayout">>) ]

SamplerCommands ==
  [ CreateSampler |-> Makes("Sampler", "DestroySampler", <<"Device">>),
    DestroySampler |-> Frees("Sampler", <<"Device", "Sampler">>),
    CreateDescriptorSetLayout |-> Makes("DescriptorSetLayout", "DestroyDescriptorSetLayout",
        <<"Device">>),
    DestroyDescriptorSetLayout |-> Frees("DescriptorSetLayout",
        <<"Device", "DescriptorSetLayout">>) ]

DescriptorCommands ==
  [ CreateDescriptorPool |-> Makes("DescriptorPool", "DestroyDescriptorPool", <<"Device">>),
    DestroyDescriptorPool |-> Frees("DescriptorPool", <<"Device", "DescriptorPool">>),
    ResetDescriptorPool |-> Call(<<"Device", "DescriptorPool", "u32">>),
    AllocateDescriptorSets |-> Makes("DescriptorSet", "FreeDescriptorSets", <<"Device">>),
    FreeDescriptorSets |-> Frees("DescriptorSet", <<"Device", "DescriptorPool", "u32">>),
    UpdateDescriptorSets |-> Call(<<"Device", "u32", "u32">>) ]

BindingRecordingCommands ==
  [ CmdBindPipeline |-> Call(<<"CommandBuffer", "enum", "Pipeline">>),
    CmdBindDescriptorSets |-> Call(
        <<"CommandBuffer", "enum", "PipelineLayout", "u32", "u32", "u32">>),
    CmdClearColorImage |-> Call(<<"CommandBuffer", "Image", "enum", "u32">>) ]

DispatchAndEventRecordingCommands ==
  [ CmdDispatch |-> Call(<<"CommandBuffer", "u32", "u32", "u32">>),
    CmdDispatchIndirect |-> Call(<<"CommandBuffer", "Buffer", "u64">>),
    CmdSetEvent |-> Call(<<"CommandBuffer", "Event", "u32">>),
    CmdResetEvent |-> Call(<<"CommandBuffer", "Event", "u32">>) ]

WaitRecordingCommands ==
  [ CmdWaitEvents |-> Call(<<"CommandBuffer", "u32", "u32", "u32", "u32", "u32", "u32">>),
    CmdPushConstants |-> Call(<<"CommandBuffer", "PipelineLayout", "u32", "u32", "u32">>) ]

GraphicsPipelineCommands ==
  [ CreateGraphicsPipelines |-> Makes("Pipeline", NoNote, <<"Device", "PipelineCache", "u32">>),
    CreateFramebuffer |-> Makes("Framebuffer", "DestroyFramebuffer", <<"Device">>),
    DestroyFramebuffer |-> Frees("Framebuffer", <<"Device", "Framebuffer">>),
    CreateRenderPass |-> Makes("RenderPass", "DestroyRenderPass", <<"Device">>),
    DestroyRenderPass |-> Frees("RenderPass", <<"Device", "RenderPass">>),
    GetRenderAreaGranularity |-> Call(<<"Device", "RenderPass">>) ]

DynamicStateCommands ==
  [ CmdSetViewport |-> Call(<<"CommandBuffer", "u32", "u32">>),
    CmdSetScissor |-> Call(<<"CommandBuffer", "u32", "u32">>),
    CmdSetLineWidth |-> Call(<<"CommandBuffer", "f32">>),
    CmdSetDepthBias |-> Call(<<"CommandBuffer", "f32", "f32", "f32">>),
    CmdSetBlendConstants |-> Call(<<"CommandBuffer">>),
    CmdSetDepthBounds |-> Call(<<"CommandBuffer", "f32", "f32">>) ]

StencilAndVertexCommands ==
  [ CmdSetStencilCompareMask |-> Call(<<"CommandBuffer", "u32", "u32">>),
    CmdSetStencilWriteMask |-> Call(<<"CommandBuffer", "u32", "u32">>),
    CmdSetStencilReference |-> Call(<<"CommandBuffer", "u32", "u32">>),
    CmdBindIndexBuffer |-> Call(<<"CommandBuffer", "Buffer", "u64", "enum">>),
    CmdBindVertexBuffers |-> Call(<<"CommandBuffer", "u32", "u32">>) ]

DrawCommands ==
  [ CmdDraw |-> Call(<<"CommandBuffer", "u32", "u32", "u32", "u32">>),
    CmdDrawIndexed |-> Call(<<"CommandBuffer", "u32", "u32", "u32", "i32", "u32">>),
    CmdDrawIndirect |-> Call(<<"CommandBuffer", "Buffer", "u64", "u32", "u32">>),
    CmdDrawIndexedIndirect |-> Call(<<"CommandBuffer", "Buffer", "u64", "u32", "u32">>) ]

ImageRecordingCommands ==
  [ CmdBlitImage |-> Call(<<"CommandBuffer", "Image", "enum", "Image", "enum", "u32", "enum">>),
    CmdClearDepthStencilImage |-> Call(<<"CommandBuffer", "Image", "enum", "u32">>),
    CmdClearAttachments |-> Call(<<"CommandBuffer", "u32", "u32">>),
    CmdResolveImage |-> Call(<<"CommandBuffer", "Image", "enum", "Image", "enum", "u32">>) ]

RenderPassRecordingCommands ==
  [ CmdBeginRenderPass |-> Call(<<"CommandBuffer", "enum">>),
    CmdNextSubpass |-> Call(<<"CommandBuffer", "enum">>),
    CmdEndRenderPass |-> Call(<<"CommandBuffer">>) ]

-----------------------------------------------------------------------------
(* #ifdef VK_VERSION_1_1 *)

Binding2Commands ==
  [ EnumerateInstanceVersion |-> Call(<<>>),
    BindBufferMemory2 |-> Call(<<"Device", "u32">>),
    BindImageMemory2 |-> Call(<<"Device", "u32">>),
    GetDeviceGroupPeerMemoryFeatures |-> Call(<<"Device", "u32", "u32", "u32">>),
    CmdSetDeviceMask |-> Call(<<"CommandBuffer", "u32">>) ]

Requirements2Commands ==
  [ EnumeratePhysicalDeviceGroups |-> Call(<<"Instance">>),
    GetImageMemoryRequirements2 |-> Call(<<"Device">>),
    GetBufferMemoryRequirements2 |-> Call(<<"Device">>),
    GetImageSparseMemoryRequirements2 |-> Call(<<"Device">>) ]

PhysicalDeviceQueries2 ==
  [ GetPhysicalDeviceFeatures2 |-> Call(<<"PhysicalDevice">>),
    GetPhysicalDeviceProperties2 |-> Call(<<"PhysicalDevice">>),
    GetPhysicalDeviceFormatProperties2 |-> Call(<<"PhysicalDevice", "enum">>),
    GetPhysicalDeviceImageFormatProperties2 |-> Call(<<"PhysicalDevice">>),
    GetPhysicalDeviceQueueFamilyProperties2 |-> Call(<<"PhysicalDevice">>),
    GetPhysicalDeviceMemoryProperties2 |-> Call(<<"PhysicalDevice">>) ]

QueueAndPoolCommands1_1 ==
  [ GetPhysicalDeviceSparseImageFormatProperties2 |-> Call(<<"PhysicalDevice">>),
    TrimCommandPool |-> Call(<<"Device", "CommandPool", "u32">>),
    GetDeviceQueue2 |-> Lends("Queue", <<"Device">>),
    GetPhysicalDeviceExternalBufferProperties |-> Call(<<"PhysicalDevice">>),
    GetPhysicalDeviceExternalFenceProperties |-> Call(<<"PhysicalDevice">>) ]

ExternalAndTemplateCommands ==
  [ GetPhysicalDeviceExternalSemaphoreProperties |-> Call(<<"PhysicalDevice">>),
    CmdDispatchBase |-> Call(<<"CommandBuffer", "u32", "u32", "u32", "u32", "u32", "u32">>),
    CreateDescriptorUpdateTemplate |-> Makes("DescriptorUpdateTemplate", "DestroyDescriptorUpdateTemplate",
        <<"Device">>),
    DestroyDescriptorUpdateTemplate |-> Frees("DescriptorUpdateTemplate",
        <<"Device", "DescriptorUpdateTemplate">>),
    UpdateDescriptorSetWithTemplate |-> Call(
        <<"Device", "DescriptorSet", "DescriptorUpdateTemplate">>) ]

YcbcrCommands ==
  [ GetDescriptorSetLayoutSupport |-> Call(<<"Device">>),
    CreateSamplerYcbcrConversion |-> Makes("SamplerYcbcrConversion", "DestroySamplerYcbcrConversion",
        <<"Device">>),
    DestroySamplerYcbcrConversion |-> Frees("SamplerYcbcrConversion",
        <<"Device", "SamplerYcbcrConversion">>) ]

-----------------------------------------------------------------------------
(* #ifdef VK_VERSION_1_2 *)

TimelineAndAddressCommands ==
  [ ResetQueryPool |-> Call(<<"Device", "QueryPool", "u32", "u32">>),
    GetSemaphoreCounterValue |-> Call(<<"Device", "Semaphore">>),
    WaitSemaphores |-> Call(<<"Device", "u64">>),
    SignalSemaphore |-> Call(<<"Device">>),
    GetBufferDeviceAddress |-> Call(<<"Device">>),
    GetBufferOpaqueCaptureAddress |-> Call(<<"Device">>),
    GetDeviceMemoryOpaqueCaptureAddress |-> Call(<<"Device">>) ]

IndirectCountCommands ==
  [ CmdDrawIndirectCount |-> Call(
        <<"CommandBuffer", "Buffer", "u64", "Buffer", "u64", "u32", "u32">>),
    CmdDrawIndexedIndirectCount |-> Call(
        <<"CommandBuffer", "Buffer", "u64", "Buffer", "u64", "u32", "u32">>) ]

RenderPass2Commands ==
  [ CreateRenderPass2 |-> Makes("RenderPass", NoNote, <<"Device">>),
    CmdBeginRenderPass2 |-> Call(<<"CommandBuffer">>),
    CmdNextSubpass2 |-> Call(<<"CommandBuffer">>),
    CmdEndRenderPass2 |-> Call(<<"CommandBuffer">>) ]

-----------------------------------------------------------------------------
(* #ifdef VK_VERSION_1_3 *)

PrivateDataCommands ==
  [ GetPhysicalDeviceToolProperties |-> Call(<<"PhysicalDevice">>),
    CreatePrivateDataSlot |-> Makes("PrivateDataSlot", "DestroyPrivateDataSlot", <<"Device">>),
    DestroyPrivateDataSlot |-> Frees("PrivateDataSlot", <<"Device", "PrivateDataSlot">>),
    SetPrivateData |-> Call(<<"Device", "enum", "u64", "PrivateDataSlot", "u64">>),
    GetPrivateData |-> Call(<<"Device", "enum", "u64", "PrivateDataSlot">>) ]

Synchronization2Commands ==
  [ CmdPipelineBarrier2 |-> Call(<<"CommandBuffer">>),
    CmdWriteTimestamp2 |-> Call(<<"CommandBuffer", "u64", "QueryPool", "u32">>),
    QueueSubmit2 |-> Call(<<"Queue", "u32", "Fence">>),
    CmdCopyBuffer2 |-> Call(<<"CommandBuffer">>) ]

Copy2Commands ==
  [ CmdCopyImage2 |-> Call(<<"CommandBuffer">>),
    CmdCopyBufferToImage2 |-> Call(<<"CommandBuffer">>),
    CmdCopyImageToBuffer2 |-> Call(<<"CommandBuffer">>),
    GetDeviceBufferMemoryRequirements |-> Call(<<"Device">>),
    GetDeviceImageMemoryRequirements |-> Call(<<"Device">>),
    GetDeviceImageSparseMemoryRequirements |-> Call(<<"Device">>) ]

Event2Commands ==
  [ CmdSetEvent2 |-> Call(<<"CommandBuffer", "Event">>),
    CmdResetEvent2 |-> Call(<<"CommandBuffer", "Event", "u64">>),
    CmdWaitEvents2 |-> Call(<<"CommandBuffer", "u32">>),
    CmdBlitImage2 |-> Call(<<"CommandBuffer">>),
    CmdResolveImage2 |-> Call(<<"CommandBuffer">>) ]

DynamicRenderingCommands ==
  [ CmdBeginRendering |-> Call(<<"CommandBuffer">>),
    CmdEndRendering |-> Call(<<"CommandBuffer">>),
    CmdSetCullMode |-> Call(<<"CommandBuffer", "u32">>),
    CmdSetFrontFace |-> Call(<<"CommandBuffer", "enum">>),
    CmdSetPrimitiveTopology |-> Call(<<"CommandBuffer", "enum">>),
    CmdSetViewportWithCount |-> Call(<<"CommandBuffer", "u32">>),
    CmdSetScissorWithCount |-> Call(<<"CommandBuffer", "u32">>) ]

DynamicState1_3Commands ==
  [ CmdBindVertexBuffers2 |-> Call(<<"CommandBuffer", "u32", "u32">>),
    CmdSetDepthTestEnable |-> Call(<<"CommandBuffer", "u32">>),
    CmdSetDepthWriteEnable |-> Call(<<"CommandBuffer", "u32">>),
    CmdSetDepthCompareOp |-> Call(<<"CommandBuffer", "enum">>),
    CmdSetDepthBoundsTestEnable |-> Call(<<"CommandBuffer", "u32">>),
    CmdSetStencilTestEnable |-> Call(<<"CommandBuffer", "u32">>) ]

StencilOpCommands ==
  [ CmdSetStencilOp |-> Call(<<"CommandBuffer", "u32", "enum", "enum", "enum", "enum">>),
    CmdSetRasterizerDiscardEnable |-> Call(<<"CommandBuffer", "u32">>),
    CmdSetDepthBiasEnable |-> Call(<<"CommandBuffer", "u32">>),
    CmdSetPrimitiveRestartEnable |-> Call(<<"CommandBuffer", "u32">>) ]

-----------------------------------------------------------------------------
(* #ifdef VK_VERSION_1_4 *)

HostImageCommands ==
  [ MapMemory2 |-> Call(<<"Device">>),
    UnmapMemory2 |-> Call(<<"Device">>),
    GetDeviceImageSubresourceLayout |-> Call(<<"Device">>),
    GetImageSubresourceLayout2 |-> Call(<<"Device", "Image">>),
    CopyMemoryToImage |-> Call(<<"Device">>),
    CopyImageToMemory |-> Call(<<"Device">>),
    CopyImageToImage |-> Call(<<"Device">>),
    TransitionImageLayout |-> Call(<<"Device", "u32">>) ]

PushDescriptorCommands ==
  [ CmdPushDescriptorSet |-> Call(<<"CommandBuffer", "enum", "PipelineLayout", "u32", "u32">>),
    CmdPushDescriptorSetWithTemplate |-> Call(
        <<"CommandBuffer", "DescriptorUpdateTemplate", "PipelineLayout", "u32">>),
    CmdBindDescriptorSets2 |-> Call(<<"CommandBuffer">>),
    CmdPushConstants2 |-> Call(<<"CommandBuffer">>) ]

Vulkan1_4RecordingCommands ==
  [ CmdPushDescriptorSet2 |-> Call(<<"CommandBuffer">>),
    CmdPushDescriptorSetWithTemplate2 |-> Call(<<"CommandBuffer">>),
    CmdSetLineStipple |-> Call(<<"CommandBuffer", "u32", "u16">>),
    CmdBindIndexBuffer2 |-> Call(<<"CommandBuffer", "Buffer", "u64", "u64", "enum">>) ]

RenderingLocationCommands ==
  [ GetRenderingAreaGranularity |-> Call(<<"Device">>),
    CmdSetRenderingAttachmentLocations |-> Call(<<"CommandBuffer">>),
    CmdSetRenderingInputAttachmentIndices |-> Call(<<"CommandBuffer">>) ]

-----------------------------------------------------------------------------
(* #ifdef VK_KHR_surface *)

SurfaceCommands ==
  [ DestroySurfaceKHR |-> Frees("SurfaceKHR", <<"Instance", "SurfaceKHR">>),
    GetPhysicalDeviceSurfaceSupportKHR |-> Call(<<"PhysicalDevice", "u32", "SurfaceKHR">>),
    GetPhysicalDeviceSurfaceCapabilitiesKHR |-> Call(<<"PhysicalDevice", "SurfaceKHR">>),
    GetPhysicalDeviceSurfaceFormatsKHR |-> Call(<<"PhysicalDevice", "SurfaceKHR">>),
    GetPhysicalDeviceSurfacePresentModesKHR |-> Call(<<"PhysicalDevice", "SurfaceKHR">>) ]

-----------------------------------------------------------------------------
(* #ifdef VK_KHR_swapchain *)

SwapchainCommands ==
  [ CreateSwapchainKHR |-> Makes("SwapchainKHR", "DestroySwapchainKHR", <<"Device">>),
    DestroySwapchainKHR |-> Frees("SwapchainKHR", <<"Device", "SwapchainKHR">>),
    GetSwapchainImagesKHR |-> Lends("Image", <<"Device", "SwapchainKHR">>),
    AcquireNextImageKHR |-> Call(<<"Device", "SwapchainKHR", "u64", "Semaphore", "Fence">>) ]

PresentCommands ==
  [ QueuePresentKHR |-> Call(<<"Queue">>),
    GetDeviceGroupPresentCapabilitiesKHR |-> Call(<<"Device">>),
    GetDeviceGroupSurfacePresentModesKHR |-> Call(<<"Device", "SurfaceKHR">>),
    GetPhysicalDevicePresentRectanglesKHR |-> Call(<<"PhysicalDevice", "SurfaceKHR">>),
    AcquireNextImage2KHR |-> Call(<<"Device">>) ]
-----------------------------------------------------------------------------
\* What each #ifdef guard of the file adds.
Surface ==
  [ VK_VERSION_1_0 |-> InstanceCommands @@ PhysicalDeviceQueries @@ DeviceCommands @@
        QueueCommands @@ MemoryCommands @@ BindingCommands @@ SparseCommands @@
        FenceCommands @@ SemaphoreAndQueryCommands @@ BufferAndImageCommands @@
        ImageViewCommands @@ CommandPoolCommands @@ CommandBufferCommands @@ CopyCommands @@
        UpdateAndBarrierCommands @@ QueryRecordingCommands @@ EventCommands @@
        BufferViewAndShaderCommands @@ PipelineCacheCommands @@ ComputePipelineCommands @@
        SamplerCommands @@ DescriptorCommands @@ BindingRecordingCommands @@
        DispatchAndEventRecordingCommands @@ WaitRecordingCommands @@
        GraphicsPipelineCommands @@ DynamicStateCommands @@ StencilAndVertexCommands @@
        DrawCommands @@ ImageRecordingCommands @@ RenderPassRecordingCommands,
    VK_VERSION_1_1 |-> Binding2Commands @@ Requirements2Commands @@ PhysicalDeviceQueries2 @@
        QueueAndPoolCommands1_1 @@ ExternalAndTemplateCommands @@ YcbcrCommands,
    VK_VERSION_1_2 |-> TimelineAndAddressCommands @@ IndirectCountCommands @@
        RenderPass2Commands,
    VK_VERSION_1_3 |-> PrivateDataCommands @@ Synchronization2Commands @@ Copy2Commands @@
        Event2Commands @@ DynamicRenderingCommands @@ DynamicState1_3Commands @@
        StencilOpCommands,
    VK_VERSION_1_4 |-> HostImageCommands @@ PushDescriptorCommands @@
        Vulkan1_4RecordingCommands @@ RenderingLocationCommands,
    VK_KHR_surface |-> SurfaceCommands,
    VK_KHR_swapchain |-> SwapchainCommands @@ PresentCommands ]
=============================================================================
